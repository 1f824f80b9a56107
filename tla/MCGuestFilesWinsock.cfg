SPECIFICATION Spec
CONSTANTS
  Unit = 1
  Groups <- MCGroups
  Distinct = 2
  MinLists = 2
  MaxLists = 4
  Suspicious = 3
  FirstFd = 3
  MaxFd = 5
  SetSize = 16
  Winsock = TRUE
  Slots = {s1}
  Worlds <- MCWorlds
  OldSaves = {1, 2}
  Wrap = 11
INVARIANT ErrnoTells
