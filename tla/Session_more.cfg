SPECIFICATION Spec
CONSTANTS
  SSLConn = {}
  PktMax = 2
  SndBuf = 2
  NSend <- Bytes13
  MaxSess = 2
  MaxWait = 2
  MayReset = {0, 1}
  MayFail = TRUE
INVARIANTS TypeOK NallocedExact FreedClean TaskLinkedOnce EventStillValid NoOrphan RefsHeld
