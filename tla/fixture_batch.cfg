CONSTANTS
  early = early
  mixed = mixed
  malformed = malformed
  group = group
  post = post
  Captures <- MCCaptures
  Entities <- MCEntities
  Content <- MCContent
  Files = 2
  Batcher = batcher
  Replayers = {replayer}
  MaxRuns = 2
  MaxReplays = 1
  MaxEdits = 1
  MaxDeaths = 1
  None = None
  Torn = Torn
SPECIFICATION Spec
INVARIANTS
  TypeOK
  SuccessBacked
  FinishedCovers
CHECK_DEADLOCK FALSE
