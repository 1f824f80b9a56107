SPECIFICATION ScreenFair
CONSTANTS
  Keys <- MCKeys
  Code <- MCCode
  Qualifier <- MCQualifier
  ChordOf <- MCChordOf
  Buttons = {}
  Slots = 1
  Rings = {"none"}
  Modes = {"640", "800"}
  NoMode = "no mode"
  MovieMode = "640"
  GameMode = "800"
  FrameTicks = 1
  Frames = 7
  AudioTicks = 7
  Lateness = 4
  Spots = {"here", "there"}
INVARIANT PaintsWhatIsPresented
INVARIANT MovieLeavesNothing
INVARIANT OnePointer
INVARIANT LipSync
PROPERTY MovieEnds
