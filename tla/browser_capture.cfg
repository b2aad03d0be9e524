SPECIFICATION Spec
CONSTANTS
  a = a
  b = b
  c = c
  d = d
  Posts <- MCPosts
  Feeds <- MCFeeds
  Marked <- MCMarked
  Labelled <- MCLabelled
  Before <- MCBefore
  MaxRecent = 3
  MaxPages = 5
  MaxInteractions = 3
  MaxRetries = 1
  MaxShells = 2
  MaxSessions = 3
  NoAction = NoAction
INVARIANTS
  TypeOK
  CheckpointTold
  PostsBounded
  StopIsPrompt
  RejectedOnlyOnChange
CHECK_DEADLOCK FALSE
