SPECIFICATION Spec
CONSTANTS
  Procs = {p1, p2}
  Jobs = {j1, j2, j3}
  Groups = {g1, g2}
  Pause = 2
  MaxTime = 4
  Free = Free
  Orphan = Orphan
  None = None
SYMMETRY Symmetry
INVARIANTS
  TypeOK
  LockNamesHolder
  PausedBetweenGroups
  CapturesRunningJob
PROPERTIES
  EndedStays
CHECK_DEADLOCK FALSE
