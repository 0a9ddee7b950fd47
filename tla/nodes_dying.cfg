SPECIFICATION Spec
CONSTANTS
  Addr = {a1, a2}
  Null = null
  Frames = {f1}
  IdMod = 64
  SeeDying = TRUE
  WinLists <- MCWinList
  RmtLists <- MCRmtLists
  MaxId = 4
  MaxCalls = 2
  MaxEstates = 1
  MaxKeys = 0
INVARIANT NoDangling
CHECK_DEADLOCK FALSE
