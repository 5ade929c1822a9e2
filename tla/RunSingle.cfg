SPECIFICATION LoopSpec
CONSTANTS
  Runs = {r1, r2}
  Streams = {s1}
  RunOf <- SharedRun
  Detached = TRUE
  MaxEvents = 2
  Faults = {"cancel", "disconnect"}
  None = None
INVARIANTS
  TypeOK
  ClosedMeansTerminal
  CancelledPendingStaysSilent
PROPERTIES
  StreamContractHolds
  GoneClientReleasesAgent
\* Every stream ends, and then nothing is left to do.
CHECK_DEADLOCK FALSE
