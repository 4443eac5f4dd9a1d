SPECIFICATION ProcSpec
CONSTANTS
  NChild = 2
  Pid <- MCPid
  Kind = {"pproxy", "mprocess"}
  MayCrash = TRUE
INVARIANTS OwnOnly StopsByFlag
