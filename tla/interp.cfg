SPECIFICATION Spec
CONSTANTS
  Value = {v}
  Null = null
  Progs <- MCLocal
  InitSize = 8
  MaxArgs = 1
  MaxDpos = 3
  MaxCpos = 2
  MaxSuspended = 1
  Execs = {FALSE}
  ReadQueues = {"Rrstack"}
  KeyQueues = {}
  Events = "events"
  Nodes <- MCRemote
INVARIANTS Layout ImagesLaid Nesting
PROPERTIES OwnStacks BelowUntouched
