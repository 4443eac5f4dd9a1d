SPECIFICATION Spec
CONSTANTS
  SSLConn = {}
  PktMax = 2
  SndBuf = 2
  NSend <- Bytes33
  MaxSess = 1
  MaxWait = 2
  MayReset = {}
  MayFail = FALSE
INVARIANT BlockedIsArmed
