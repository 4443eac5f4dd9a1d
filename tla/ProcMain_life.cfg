SPECIFICATION ProcFairSpec
CONSTANTS
  NChild = 2
  Pid <- MCPid
  Kind = {"pproxy", "mprocess"}
  MayCrash = TRUE
INVARIANTS NoneLeft
PROPERTIES Stops
