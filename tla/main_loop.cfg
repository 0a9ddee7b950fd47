SPECIFICATION FairSpec
CONSTANTS
  Nodes = {r1, r2}
  Null = null
  Naps <- MCNaps
  MaxSlept = 2
  MaxTime = 1
  MaxConns = 2
  MaxPending = 1
  ClosingDoes = {}
  FlushAny = FALSE
  SignalAtWork = FALSE
INVARIANTS ScanKnown NoneSkipped
PROPERTIES WakesInTurn AllWake SizeFollows
