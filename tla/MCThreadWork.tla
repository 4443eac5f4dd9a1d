---------------------------- MODULE MCThreadWork ----------------------------
(* Two sessions of a work thread.  The client's bytes fill a packet and start another. *)
EXTENDS ThreadWork
CONSTANTS s1, s2
MCSess == {s1, s2}
FewBytes == [d \in End |-> IF d = "cli" THEN 3 ELSE 1]
MoreBytes == [d \in End |-> 3]
=============================================================================
