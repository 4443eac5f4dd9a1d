SPECIFICATION Spec
CONSTANTS
  SSLConn = {0, 1}
  PktMax = 1
  SndBuf = 2
  NSend <- Bytes12
  MaxSess = 2
  MaxWait = 2
  MayReset = {0, 1}
  MayFail = TRUE
INVARIANTS NallocedExact TaskLinkedOnce EventStillValid RefsHeld
