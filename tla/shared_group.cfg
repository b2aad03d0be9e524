SPECIFICATION Spec
CONSTANTS
  slug = slug
  number = number
  post = post
  comment = comment
  full = full
  short = short
  other = other
  drifted = drifted
  Slugged = {j1, j2}
  Numbered = {j3}
  Jobs <- MCJobs
  Cursors = {c1}
  NoCursor = NoCursor
  NoCapture = NoCapture
  MaxPages = 2
  MaxStarts = 3
  Records <- MCRecords
  Bytes = {full, other}
  Drift <- MCDrift
  Level <- MCLevel
  Content <- MCContent
  GroupOf <- MCGroupOf
  Parent <- MCParent
  Target <- MCTarget
  Classes = {imported, guided}
INVARIANTS
  RawFirst
  ParentsAsRecent
  RefusedBeforeSaved
SYMMETRY JobSymmetry
CHECK_DEADLOCK FALSE
