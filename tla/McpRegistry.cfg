\* One server, two operations that overlap once, one fault, one reconnect.
SPECIFICATION Spec
CONSTANTS
  Servers = {s1}
  Ops = {o1, o2}
  Connectors = {c1, c2, c3}
  None = None
  MaxReconnects = 1
  MaxBegun = 2
  MaxFaults = 1
  MaxOverlaps = 1
SYMMETRY Symmetry
INVARIANTS TypeOK NoProcessIsLost 
PROPERTIES RevisionsAdvance
\* With every operation begun and ended nothing is left to do.
CHECK_DEADLOCK FALSE
