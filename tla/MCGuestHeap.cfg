SPECIFICATION Spec
CONSTANTS
  W = 64
  HEAP_BASE = 4
  HEAP_SIZE = 14
  Align = 2
  MinSplit = 4
  Sizes = {0, 1, 3, 4, 7}
  Counts = {2}
  Foreign = {1}
INVARIANT NoOverlap
INVARIANT NothingLost
INVARIANT FreeListOK
PROPERTY ReuseBeforeFresh
PROPERTY KeepsContract
