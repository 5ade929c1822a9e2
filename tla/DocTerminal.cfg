SPECIFICATION FairSpec
CONSTANTS
  Runs = {r1}
  Streams = {s1}
  RunOf <- SharedRun
  Detached = TRUE
  MaxEvents = 1
  Faults = {"cancel"}
  None = None
PROPERTIES
  RunReachesTerminal
\* Every stream ends, and then nothing is left to do.
CHECK_DEADLOCK FALSE
