SPECIFICATION FairSpec
CONSTANTS
  c1 = c1
  c2 = c2
  c3 = c3
  Client <- MCClient
  NWork = 2
  Max = 2
  Word = 8
  MayFail = TRUE
  NULL = NULL
CHECK_DEADLOCK FALSE
INVARIANTS Limited Owned RoomForAll
PROPERTIES Handled Stops
