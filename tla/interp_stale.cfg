SPECIFICATION Spec
CONSTANTS
  Value = {v}
  Null = null
  Progs <- MCProg
  InitSize = 2
  MaxArgs = 1
  MaxDpos = 4
  MaxCpos = 3
  MaxSuspended = 2
  Execs = {FALSE}
  ReadQueues = {"Rrstack"}
  KeyQueues = {}
  Events = "events"
  Nodes <- MCRemote
INVARIANT VarsLive
