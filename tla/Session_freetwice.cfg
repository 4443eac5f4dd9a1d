SPECIFICATION Spec
CONSTANTS
  SSLConn = {}
  PktMax = 2
  SndBuf = 2
  NSend <- Bytes14
  MaxSess = 1
  MaxWait = 1
  MayReset = {}
  MayFail = FALSE
INVARIANT RefsHeld
