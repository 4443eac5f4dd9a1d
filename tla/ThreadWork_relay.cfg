SPECIFICATION FairSpec
CONSTANTS
  s1 = s1
  s2 = s2
  Sess <- MCSess
  Mode = {"copy", "splice", "nb"}
  N <- FewBytes
  Cap = 2
  MaxBlocked = 2
  MayFail = TRUE
CHECK_DEADLOCK FALSE
INVARIANTS Armed Stream
PROPERTIES WaitEnds
