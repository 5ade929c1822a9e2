SPECIFICATION LoopSpec
CONSTANTS
  Runs = {r1}
  Streams = {s1, s2}
  RunOf <- SharedRun
  Detached = FALSE
  MaxEvents = 0
  Faults = {"cancel", "disconnect"}
  None = None
INVARIANTS
  NeverCompletedAfterCancel
  StatusMatchesLog
  AgentNeverOutlivesStream
PROPERTIES
  TerminalAbsorbing
  EveryStreamSettles
\* Every stream ends, and then nothing is left to do.
CHECK_DEADLOCK FALSE
