\* One session, two messages, the run of the first with content, one fault.
SPECIFICATION FairSpec
CONSTANTS
  Sessions = {s1}
  NoSession = NoSession
  MaxSends = 2
  MaxEvents = 1
  MaxTalks = 1
  MaxFaults = 1
  MaxTurns = 0
  Content = {"form", "tool", "reasoning"}
INVARIANTS TypeOK CancelReachesItsRun StaysCancellable OutcomeClosesSegments
PROPERTIES SendSettles HandsOver
CHECK_DEADLOCK FALSE
