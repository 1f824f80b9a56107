SPECIFICATION FairSpec
CONSTANTS
  RingTarget = 2
  NSamp = 2
  Packets = 4
  Delay = 1
  MaxOpens = 2
INVARIANT RingIsNext
INVARIANT FinishedIsHeard
PROPERTY PlaysAsDac
PROPERTY CloseReturns
PROPERTY TrackEnds
