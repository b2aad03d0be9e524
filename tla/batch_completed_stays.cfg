SPECIFICATION Spec
CONSTANTS
  g1 = g1
  g2 = g2
  g3 = g3
  Targets = {g1, g2, g3}
  TargetLists <- MCTargetLists
  Values = {ids1, ids2}
  NoFile = NoFile
  MaxRuns = 3
PROPERTIES
  CompletedStays
CHECK_DEADLOCK FALSE
