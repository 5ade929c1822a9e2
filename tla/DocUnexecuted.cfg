SPECIFICATION Spec
CONSTANTS
  Runs = {r1}
  Streams = {s1}
  RunOf <- SharedRun
  Detached = TRUE
  MaxEvents = 1
  Faults = {}
  None = None
INVARIANTS
  UnexecutedToolCallFails
\* Every stream ends, and then nothing is left to do.
CHECK_DEADLOCK FALSE
