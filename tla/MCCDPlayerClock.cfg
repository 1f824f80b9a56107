SPECIFICATION Spec
CONSTANTS
  RingTarget = 2
  NSamp = 2
  Packets = 3
  Delay = 1
  MaxOpens = 2
INVARIANT ClockIsHeard
