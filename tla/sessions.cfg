SPECIFICATION Spec
CONSTANTS
  w1 = w1
  w2 = w2
  Workers <- MCWorkers
  MaxSaves = 2
  MaxDeaths = 1
  MaxChromes = 2
  Nobody = Nobody
  Missing = Missing
SYMMETRY MCSymmetry
INVARIANTS
  TypeOK
  SettledAgree
  ChromeAccountedFor
CHECK_DEADLOCK FALSE
