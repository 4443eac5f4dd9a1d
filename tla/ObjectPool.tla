----------------------------- MODULE ObjectPool -----------------------------
(* What the callers of an object pool rely on (objpool.h): objpool_get hands *)
(* out an object that nobody holds, or nothing, and objpool_put takes one    *)
(* that is held back; objpool_free ends the pool whatever is still held.     *)
EXTENDS Integers

CONSTANT Object

VARIABLES out,      \* the objects the callers hold
          number,   \* how many were handed out and not put back
          open      \* the pool has not been freed

vars == <<out, number, open>>

Init == out = {} /\ number = 0 /\ open = TRUE

Get == /\ open
       /\ \E o \in Object \ out : out' = out \cup {o}
       /\ number' = number + 1
       /\ UNCHANGED open

Put == /\ open
       /\ \E o \in out : out' = out \ {o}
       /\ number' = number - 1
       /\ UNCHANGED open

Free == open /\ open' = FALSE /\ UNCHANGED <<out, number>>

Next == Get \/ Put \/ Free

Spec == Init /\ [][Next]_vars
=============================================================================
