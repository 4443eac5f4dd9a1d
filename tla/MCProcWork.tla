----------------------------- MODULE MCProcWork -----------------------------
(* Three bytes from either side, packets of two: one is split, one waits behind it.  *)
EXTENDS ProcWork
MCN == [e \in End |-> 3]
=============================================================================
