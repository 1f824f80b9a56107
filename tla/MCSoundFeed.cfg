SPECIFICATION FairSpec
CONSTANTS
  Mixer = "mixer"
  Music = "music"
  Buffer = 3
  Frag = 6
  Cap = 66
  Base = 8
  Ceiling = 27
  Margin = 2
  MaxGap = 33
  Floor = 1
  ChainMax = 6
PROPERTY BridgesGap
PROPERTY ServingFills
PROPERTY ServingEnds
