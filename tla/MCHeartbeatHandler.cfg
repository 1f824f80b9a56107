SPECIFICATION Spec
CONSTANTS
  Requests = {0, 5}
  Sites = {1, 2}
  Clamp = 3
  Intervals = {0, 1}
  SkipMax = 2
  Over = 1
  Work = 1
  Late = 3
  Depth = 3
INVARIANT HandlerMaySleep
