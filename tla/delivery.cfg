SPECIFICATION Spec
CONSTANTS
  w1 = w1
  w2 = w2
  imported = imported
  guided_login = guided_login
  Workers <- MCWorkers
  Classes <- MCClasses
  MaxPages = 2
  MaxCommands = 3
  Texts <- MCTexts
  Nobody = Nobody
  Missing = Missing
  Emptied = Emptied
  Mixed = Mixed
SYMMETRY MCSymmetry
INVARIANTS
  TypeOK
  ExportsAgree
  ReceiptReproduced
CHECK_DEADLOCK FALSE
