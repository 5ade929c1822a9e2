SPECIFICATION Spec
CONSTANTS
  t1 = t1
  t2 = t2
  r1 = r1
  r2 = r2
  r3 = r3
  w1 = w1
  w2 = w2
  Null = Null
  Threads = {t1, t2}
  RunIds = {r1, r2, r3}
  Workers = {w1, w2}
  Kinds = {"run_completed"}
  Overlap = TRUE
  MaxTime = 4
  MaxEvents = 2
  BackupTimes = {2, 4}
SYMMETRY Symmetries
INVARIANTS
  TypeOK
  NoOrphans
  LogsAreWhole
PROPERTIES
  KeepsItsPromise
  OnlyStaleRowsSpoilCaches
