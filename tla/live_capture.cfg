SPECIFICATION FairSpec
CONSTANTS
  slug = slug
  number = number
  post = post
  comment = comment
  full = full
  short = short
  other = other
  drifted = drifted
  Slugged = {j1}
  Numbered = {}
  Jobs <- MCJobs
  Cursors = {c1, c2, c3}
  NoCursor = NoCursor
  NoCapture = NoCapture
  MaxPages = 3
  MaxStarts = 2
  Records <- MCRecords
  Bytes = {full, short, drifted}
  Drift <- MCDrift
  Level <- MCLevel
  Content <- MCContent
  GroupOf <- MCGroupOf
  Parent <- MCParent
  Target <- MCTarget
  Classes = {guided}
INVARIANTS
  TypeOK
  IInv
  CheckpointedPagesSaved
  ResumeContinues
  OutcomeAgrees
PROPERTIES
  RunsEnd
  KeepsPromise
CHECK_DEADLOCK FALSE
