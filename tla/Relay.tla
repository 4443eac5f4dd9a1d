------------------------------- MODULE Relay -------------------------------
(***************************************************************************)
(* What a proxied session promises the two programs it connects: each gets *)
(* the bytes the other sent, in order and without gaps, until the session  *)
(* ends; the end of one stream is passed on only after the program that    *)
(* sends it hung up; nothing follows the end of a stream.                  *)
(***************************************************************************)
EXTENDS Naturals, Sequences

CONSTANT Side         \* the two ends, 0 and 1

VARIABLES
  live,     \* a session exists
  src,      \* src[c]: number of bytes the program at c has sent
  hung,     \* the ends whose program hung up or broke its connection
  dst,      \* dst[c]: bytes delivered to c
  ended     \* the ends that were told that nothing more follows

rvars == <<live, src, hung, dst, ended>>

Other(c) == (c + 1) % 2

RelayInit ==
  /\ live = FALSE
  /\ src = [c \in Side |-> 0]
  /\ hung = {}
  /\ dst = [c \in Side |-> <<>>]
  /\ ended = {}

Open ==
  /\ ~live /\ live'
  /\ src' = [c \in Side |-> 0]
  /\ hung' = {}
  /\ dst' = [c \in Side |-> <<>>]
  /\ ended' = {}

Emit(c) ==
  /\ live /\ c \notin hung
  /\ src' = [src EXCEPT ![c] = @ + 1]
  /\ UNCHANGED <<live, hung, dst, ended>>

HangUp(c) ==
  /\ live /\ c \notin hung
  /\ hung' = hung \union {c}
  /\ UNCHANGED <<live, src, dst, ended>>

\* Bytes reach c; that may be the last that c gets.
Deliver(c) ==
  /\ live /\ c \notin ended
  /\ \E n \in Len(dst[c])..src[Other(c)] :
       dst' = [dst EXCEPT ![c] = @ \o [i \in 1..(n - Len(@)) |-> Len(@) + i]]
  /\ \/ ended' = ended
     \/ Other(c) \in hung /\ ended' = ended \union {c}
  /\ live' \in BOOLEAN
  /\ UNCHANGED <<src, hung>>

End ==
  /\ live /\ ~live'
  /\ UNCHANGED <<src, hung, dst, ended>>

RelayNext ==
  \/ Open \/ End
  \/ \E c \in Side : Emit(c) \/ HangUp(c) \/ Deliver(c)

RelaySpec == RelayInit /\ [][RelayNext]_rvars
=============================================================================
