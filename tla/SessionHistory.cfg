SPECIFICATION FairSpec
CONSTANTS
  Threads = {t1, t2}
  NoThread = NoThread
  MaxRuns = 1
  MaxFaults = 1
  MaxChoices = 1
  MaxLists = 2
  MaxDetails = 2
INVARIANTS TypeOK DeletedStaysDeleted ChosenStaysOpen DetailIsFresh
PROPERTIES RestoreSucceeds
\* Every choice is taken in the end, and then nothing is left to do.
CHECK_DEADLOCK FALSE
