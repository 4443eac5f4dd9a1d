----------------------------- MODULE MCProcMain -----------------------------
(* Two children and a pid to spare.  *)
EXTENDS ProcMain
MCPid == {2, 3, 4}
=============================================================================
