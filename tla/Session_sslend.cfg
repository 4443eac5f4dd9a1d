SPECIFICATION Spec
CONSTANTS
  SSLConn = {0}
  PktMax = 1
  SndBuf = 2
  NSend <- Bytes11
  MaxSess = 1
  MaxWait = 2
  MayReset = {}
  MayFail = FALSE
INVARIANTS NoOrphan SSLFreed
