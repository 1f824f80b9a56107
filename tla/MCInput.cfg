SPECIFICATION InputSpec
CONSTANTS
  Keys <- MCKeys
  Code <- MCCode
  Qualifier <- MCQualifier
  ChordOf <- MCChordOf
  Buttons = {"left"}
  Slots = 2
  Rings = {"intuition", "keyboard", "mouse"}
INVARIANT NothingSticks
PROPERTY RingsAreQueues
