SPECIFICATION Spec
CONSTANTS
  Addr = {a1, a2, a3}
  Null = null
  Frames = {f1}
  IdMod = 64
  SeeDying = FALSE
  WinLists <- MCWinLists
  RmtLists <- MCRmtLists
  MaxId = 3
  MaxCalls = 2
  MaxEstates = 1
  MaxKeys = 1
INVARIANTS OnePlace NoDangling Shown NoneLost
PROPERTY AreHandles
CHECK_DEADLOCK FALSE
SYMMETRY Symmetric
