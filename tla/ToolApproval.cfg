SPECIFICATION LoopSpec
CONSTANTS
  Calls = {"c1", "c2", "c3", "d1", "d2"}
  Agents = {"a1", "a2"}
  Runs = {"r1"}
  Ids = {"i1", "i2"}
  AgentOf <- TwoAgents
  RunOf <- SharedRun
  IdOf <- ReusedIds
  Mode <- MixedModes
  None = None
INVARIANTS
  TypeOK
  RunsOnlyApproved
  DecidedAtMostOnce
  WaiterIsReachable
  NoOrphanRequest
PROPERTIES
  TimedCallSettles
  EndedAgentLeavesNoWaiter
\* Every agent ends, and then nothing is left to do.
CHECK_DEADLOCK FALSE
