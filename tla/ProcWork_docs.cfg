SPECIFICATION FairSpec
CONSTANTS
  N <- MCN
  Cap = 2
  MaxSess = 2
  MaxLive = 1
  Word = 8
  MayFail = TRUE
CHECK_DEADLOCK FALSE
INVARIANTS NliveExact Synced
PROPERTY Unblocks
