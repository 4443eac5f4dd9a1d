SPECIFICATION Spec
CONSTANTS
  SSLConn = {}
  PktMax = 2
  SndBuf = 1
  NSend <- Bytes32
  MaxSess = 1
  MaxWait = 2
  MayReset = {}
  MayFail = FALSE
INVARIANTS BackPressure ShutReadAfterData ErrorIsFailure ShutdownComplete
