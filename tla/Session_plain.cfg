SPECIFICATION FairSpec
CONSTANTS
  SSLConn = {}
  PktMax = 2
  SndBuf = 1
  NSend <- Bytes32
  MaxSess = 1
  MaxWait = 2
  MayReset = {0, 1}
  MayFail = FALSE
INVARIANTS StallStopsPeer
PROPERTIES ShutdownAfterData ImplementsRelay SessionEnds
