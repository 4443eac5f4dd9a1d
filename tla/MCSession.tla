----------------------------- MODULE MCSession -----------------------------
(* Instances of Session for TLC: how many bytes each remote program sends. *)
EXTENDS Session

Bytes11 == [c \in Conn |-> 1]
Bytes12 == [c \in Conn |-> IF c = Client THEN 1 ELSE 2]
Bytes13 == [c \in Conn |-> IF c = Client THEN 1 ELSE 3]
Bytes14 == [c \in Conn |-> IF c = Client THEN 1 ELSE 4]
Bytes23 == [c \in Conn |-> IF c = Client THEN 2 ELSE 3]
Bytes22 == [c \in Conn |-> 2]
Bytes32 == [c \in Conn |-> IF c = Client THEN 3 ELSE 2]
Bytes33 == [c \in Conn |-> 3]
=============================================================================
