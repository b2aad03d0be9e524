SPECIFICATION Spec
CONSTANTS
  g1 = g1
  g2 = g2
  Procs = {p1, p2}
  Campaigns = {c1, c2}
  Groups <- MCGroups
  Views <- MCViews
  Lists <- MCLists
  Nothing = Nothing
SYMMETRY Symmetry
INVARIANTS
  TypeOK
  NoKnownRepeat
  ActionsAccountedFor
  SelectedOnEvidence
PROPERTIES
  SelectionStays
CHECK_DEADLOCK FALSE
