SPECIFICATION Spec
CONSTANTS
  Game <- MCGame
  Mvos <- MCMvos
  MvosBase = 1000
  TrapBase = 2000
  LibcData = 3000
  CtypeTable = 3001
  Vtables <- MCVtables
  Envs <- MCEnvs
  Slack = 1
  Long = 14
  Interval = 1
  FpsTicks = 1
  MaxBlocks = 1
  MaxUnder = 2
  Cycles = 2
  FirstTicks = 1
  Dwell = 2
  Settle = 2
  Patience = 5
  LoadTicks = 3
  OverlayTicks = 2
  Flags <- MCFlags
  Handle <- MCHandle
  HostMade = "IntuitionFlag"
  Objects <- MCObjects
  LongrunStall = 2
  HoldTicks = 8
INVARIANT GameWins
