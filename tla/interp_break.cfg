SPECIFICATION FairSpec
CONSTANTS
  Value = {}
  Null = null
  Progs <- MCProg
  InitSize = 1
  MaxArgs = 1
  MaxDpos = 2
  MaxCpos = 2
  MaxSuspended = 2
  Execs = {FALSE}
  ReadQueues = {}
  KeyQueues = {"Wghstack"}
  Events = "events"
  Nodes <- MCWindow
PROPERTY BreakUnwinds
INVARIANT Capacity
