---------------------------- MODULE ThreadWork -----------------------------
(***************************************************************************)
(* A work thread of the thread proxy (socket/proxy/pthread/work.c) and its *)
(* sessions.  A round of _work_loop takes new clients, then works off the  *)
(* events of the send epoll, if the thread believes anybody is blocked,    *)
(* and then those of the receive epoll.  Data is relayed in packets, or by *)
(* splice through a pipe, or by the nb_splice device.                      *)
(*                                                                         *)
(* Data comes from an end, "cli" or "svr", and goes To the other.  A byte  *)
(* is the pair of the end it comes from and its number; a packet is a      *)
(* sequence of bytes.  A handler is a set of results: the session after    *)
(* it, by how much nblocked changed, and whether it succeeded; a session   *)
(* whose handler failed is freed.  The socket helpers are external: they   *)
(* move any part of the data, or nothing, or fail.                         *)
(***************************************************************************)
EXTENDS Integers, Sequences, FiniteSets, SequencesExt

CONSTANTS Sess,        \* the ids of the session table
          Mode,        \* the ways of relaying: "copy", "splice", "nb"
          N,           \* bound: N[d] bytes come from end d
          Cap,         \* bound: how many bytes fit into a packet
          MaxBlocked,  \* bound: new clients come only while nblocked is below
          MayFail      \* system calls and allocations may fail

End == {"cli", "svr"}
To(d) == CHOOSE e \in End : e # d

ASSUME WorkAssumption ==
  /\ IsFiniteSet(Sess)
  /\ Mode \subseteq {"copy", "splice", "nb"} /\ Mode # {}
  /\ N \in [End -> Nat] /\ Cap \in Nat \ {0} /\ MaxBlocked \in Nat
  /\ MayFail \in BOOLEAN

VARIABLES sess,      \* sess[s]: the session with id s, or None
          nblocked,  \* wi->nblocked
          phase,     \* where the loop is: get, send, recv
          todo,      \* the events of the batch that are still to be handled
          mode,      \* use_splice, use_nb_splice
          up,        \* the assertion of _work_free_session has held
          stale      \* a session was used after it had been freed

vars == <<sess, nblocked, phase, todo, mode, up, stale>>

None == [live |-> FALSE]

(* The fields of session_t that matter here, and insend, the ends in the send epoll. *)
New == [live |-> TRUE,
        svr |-> FALSE, wait |-> FALSE,        \* svrfd is there, is_svrwait
        blocked |-> {},                       \* is_cliblock, is_svrblock
        insend |-> {},
        outq |-> [d \in End |-> <<>>],        \* the packets from d
        blkpkt |-> [d \in End |-> <<>>],      \* the rest of a packet from d, <<>> if none
        nalloced |-> 0,
        pipe |-> <<>>,
        got |-> [d \in End |-> 0],            \* bytes received from d
        sent |-> [d \in End |-> <<>>]]        \* bytes sent to d

Least(a, b) == IF a < b THEN a ELSE b

Result(x, n, ok) == [x |-> x, n |-> n, ok |-> ok]

(* What a caller makes of result r when it goes on with handler F. *)
Then(r, F(_)) ==
  IF r.ok THEN {Result(t.x, r.n + t.n, t.ok) : t \in F(r.x)} ELSE {r}

Held(x) ==
  Len(x.outq["cli"]) + Len(x.outq["svr"])
    + Cardinality({d \in End : x.blkpkt[d] # <<>>})

----------------------------------------------------------------------------
(* Sending.  *)

(* Variant: the queue goes first. *)
Pending_QueueFirst(x, d) ==
  x.outq[d] \o (IF x.blkpkt[d] = <<>> THEN <<>> ELSE <<x.blkpkt[d]>>)

(* The packets from d in the order in which they are sent. *)
Pending(x, d) ==
  (IF x.blkpkt[d] = <<>> THEN <<>> ELSE <<x.blkpkt[d]>>) \o x.outq[d]

(* End e takes data again.  (A DEL of a descriptor that is there does not fail.) *)
Unblock(x, e) == Result([x EXCEPT !.blocked = @ \ {e}, !.insend = @ \ {e}], -1, TRUE)

(* The first k packets from d go out whole; the first of them ends the blocking. *)
SendWhole(x, d, k) ==
  LET all == Pending(x, d)
      y == [x EXCEPT !.sent[To(d)] = @ \o FlattenSeq(SubSeq(all, 1, k)),
                     !.outq[d] = SubSeq(all, k + 1, Len(all)),
                     !.blkpkt[d] = <<>>,
                     !.nalloced = @ - k]
  IN IF k > 0 /\ To(d) \in x.blocked THEN Unblock(y, To(d)) ELSE Result(y, 0, TRUE)

(* Variant: the side is not put into the send epoll. *)
Block_Unwatched(x, e) == Result([x EXCEPT !.blocked = @ \cup {e}], 1, TRUE)

(* End e takes no more data: the thread waits for it in the send epoll. *)
Block(x, e) ==
  Result([x EXCEPT !.blocked = @ \cup {e}, !.insend = @ \cup {e}], 1, TRUE)

(* What is left of packet p after n bytes of it were sent (sendpos). *)
Rest(p, n) == SubSeq(p, n + 1, Len(p))

(* sk_send takes n bytes, not all, of the next packet from d.  A side that is blocked *)
(* already stays so, and the rest of the packet is forgotten.                         *)
SendPart(x, d, n) ==
  LET p == Head(x.outq[d])
      y == [x EXCEPT !.sent[To(d)] = @ \o SubSeq(p, 1, n), !.outq[d] = Tail(@)]
  IN IF To(d) \in x.blocked
     THEN {Result(y, 0, TRUE)}
     ELSE {Block([y EXCEPT !.blkpkt[d] = Rest(p, n)], To(d))}
            \cup (IF MayFail THEN {Result([y EXCEPT !.nalloced = @ - 1], 0, FALSE)} ELSE {})

(* sk_send fails, and the packet is freed. *)
SendError(x, d) ==
  {Result([x EXCEPT !.outq[d] = Tail(@), !.nalloced = @ - 1], 0, FALSE)}

(* The loop of _work_sendto_client and _work_sendto_server: some packets, then part   *)
(* of one or an error, unless all are sent.  To the server, 0 bytes are an error.    *)
Sending(x, d) ==
  LET all == Pending(x, d)
      least == IF d = "cli" THEN 1 ELSE 0
  IN {SendWhole(x, d, Len(all))}
       \cup UNION {Then(SendWhole(x, d, k),
                        LAMBDA y : SendError(y, d) \cup
                                   UNION {SendPart(y, d, n) : n \in least .. Len(all[k + 1]) - 1})
                   : k \in 0 .. Len(all) - 1}

_work_sendto_client(x) ==
  IF Pending(x, "svr") = <<>> THEN {Result(x, 0, TRUE)} ELSE Sending(x, "svr")

(* Variant: a session that waits for its server is not counted as blocked. *)
WaitServer_Uncounted(x) ==
  Result([x EXCEPT !.svr = TRUE, !.wait = TRUE, !.insend = @ \cup {"svr"}], 0, TRUE)

(* The connection is under way: the thread waits for it in the send epoll. *)
WaitServer(x) ==
  Result([x EXCEPT !.svr = TRUE, !.wait = TRUE, !.insend = @ \cup {"svr"}], 1, TRUE)

(* A session without a server connects to one, at once or later, or fails. *)
_work_get_server(x) ==
  IF x.svr THEN {Result(x, 0, TRUE)}
  ELSE {WaitServer(x), Result([x EXCEPT !.svr = TRUE], 0, TRUE), Result(x, 0, FALSE)}

_work_sendto_server(x) ==
  IF Pending(x, "cli") = <<>> THEN {Result(x, 0, TRUE)}
  ELSE UNION {Then(r, LAMBDA y : IF y.wait THEN {Result(y, 0, TRUE)} ELSE Sending(y, "cli"))
              : r \in _work_get_server(x)}

(* The connection is there, or failed. *)
_work_check_server(x) ==
  {Result([x EXCEPT !.wait = FALSE, !.insend = @ \ {"svr"}], -1, TRUE), Result(x, 0, FALSE)}
    \cup (IF MayFail THEN {Result([x EXCEPT !.wait = FALSE, !.insend = @ \ {"svr"}], -1, FALSE)}
          ELSE {})

----------------------------------------------------------------------------
(* Receiving.  *)

(* The next n bytes from end d. *)
Bytes(x, d, n) == [i \in 1 .. n |-> <<d, x.got[d] + i>>]

(* sk_recv brings n bytes in a packet of their own, which the parse step queues. *)
Receive(x, d, n) ==
  [x EXCEPT !.got[d] = @ + n,
            !.outq[d] = IF n = 0 THEN @ ELSE Append(@, Bytes(x, d, n)),
            !.nalloced = IF n = 0 THEN @ ELSE @ + 1]

(* _work_recvfrom_client and _work_recvfrom_server, the parse step, and F, which     *)
(* sends; a session whose peer has closed ends after that, sent or not.              *)
Relay(x, d, F(_)) ==
  (UNION {F(Receive(x, d, n)) \cup {Result(r.x, r.n, FALSE) : r \in F(Receive(x, d, n))}
          : n \in 0 .. Least(Cap, N[d] - x.got[d])})
    \cup {Result(x, 0, FALSE)}

(* _work_splice_cli2svr and _work_splice_svr2cli: n bytes into the pipe, then m bytes *)
(* out of it, the oldest first.  Nothing to read, or a full receiver, ends the session. *)
Splice(x, d) ==
  {Result([x EXCEPT !.got[d] = @ + nm[1],
                    !.pipe = SubSeq(@ \o Bytes(x, d, nm[1]), nm[2] + 1, Len(@) + nm[1]),
                    !.sent[To(d)] = @ \o SubSeq(x.pipe \o Bytes(x, d, nm[1]), 1, nm[2])], 0, TRUE)
     : nm \in {p \in (1 .. Least(Cap, N[d] - x.got[d])) \X (1 .. Cap) : p[2] <= p[1]}}
    \cup {Result(x, 0, FALSE)}

(* nb_splice (external): the device moves n bytes, which may be none. *)
NbSplice(x, d) ==
  {Result([x EXCEPT !.got[d] = @ + n, !.sent[To(d)] = @ \o Bytes(x, d, n)], 0, TRUE)
     : n \in 0 .. Least(Cap, N[d] - x.got[d])}
    \cup {Result(x, 0, FALSE)}

_work_process_client(x) ==
  CASE mode = "copy" -> Relay(x, "cli", _work_sendto_server)
    [] x.wait /\ mode # "copy" -> {Result(x, 0, TRUE)}
    [] ~x.wait /\ mode = "splice" -> Splice(x, "cli")
    [] ~x.wait /\ mode = "nb" -> NbSplice(x, "cli")

_work_process_server(x) ==
  CASE mode = "copy" -> Relay(x, "svr", _work_sendto_client)
    [] mode = "splice" -> Splice(x, "svr")
    [] mode = "nb" -> NbSplice(x, "svr")

----------------------------------------------------------------------------
(* The loop.  *)

(* nblocked after a session was freed: its blocked sides stay counted. *)
Freed(n) == nblocked' = nblocked + n

(* Session s is as its handler left it, or freed (_work_free_session), which asserts *)
(* that all of its packets were found.                                               *)
Apply(s, r) ==
  IF r.ok
  THEN /\ sess' = [sess EXCEPT ![s] = r.x]
       /\ nblocked' = nblocked + r.n
       /\ UNCHANGED up
  ELSE /\ sess' = [sess EXCEPT ![s] = None]
       /\ Freed(r.n)
       /\ up' = (r.x.nalloced = Held(r.x))

(* A client gets session s; when splicing, its server and its pipe too. *)
_work_get_session(s) ==
  /\ up /\ phase = "get"
  /\ ~sess[s].live /\ nblocked < MaxBlocked
  /\ IF mode = "copy" THEN Apply(s, Result(New, 0, TRUE))
     ELSE \E r \in _work_get_server(New)
                     \cup (IF MayFail THEN {Result(x.x, x.n, FALSE) : x \in _work_get_server(New)} ELSE {}) :
            Apply(s, r)
  /\ UNCHANGED <<phase, todo, mode, stale>>

InSend == {e \in Sess \X End : sess[e[1]].live /\ e[2] \in sess[e[1]].insend}
InRecv == {e \in Sess \X End : sess[e[1]].live /\ (e[2] = "svr" => sess[e[1]].svr /\ ~sess[e[1]].wait)}

(* epoll_wait on the send epoll, if somebody is blocked; E are the ready ends. *)
_work_send_data(E) ==
  /\ up /\ phase = "get"
  /\ E = {} \/ nblocked >= 1
  /\ phase' = "send"
  /\ todo' = E
  /\ UNCHANGED <<sess, nblocked, mode, up, stale>>

(* An event of the batch whose session is gone is skipped. *)
Skipped(s, e) ==
  /\ up /\ <<s, e>> \in todo
  /\ ~sess[s].live
  /\ todo' = todo \ {<<s, e>>}
  /\ UNCHANGED <<sess, nblocked, phase, mode, up, stale>>

(* EPOLLERR frees the session, in both loops. *)
ErrorEvent(s, e) ==
  /\ up /\ <<s, e>> \in todo
  /\ sess[s].live
  /\ Apply(s, Result(sess[s], 0, FALSE))
  /\ todo' = todo \ {<<s, e>>}
  /\ UNCHANGED <<phase, mode, stale>>

(* A side that was blocked takes data. *)
Writable(s, e) ==
  /\ up /\ phase = "send" /\ <<s, e>> \in todo
  /\ sess[s].live /\ ~(e = "svr" /\ sess[s].wait)
  /\ \E r \in IF e = "cli" THEN _work_sendto_client(sess[s]) ELSE _work_sendto_server(sess[s]) :
       Apply(s, r)
  /\ todo' = todo \ {<<s, e>>}
  /\ UNCHANGED <<phase, mode, stale>>

(* The connection to the server is decided.  When it failed, the session is freed and *)
(* then still handed to _work_sendto_server, which finds its queues empty unless      *)
(* another thread has taken the memory already.                                       *)
Connected(s) ==
  /\ up /\ phase = "send" /\ <<s, "svr">> \in todo
  /\ sess[s].live /\ sess[s].wait
  /\ \E r \in _work_check_server(sess[s]) :
       /\ \E t \in Then(r, _work_sendto_server) : Apply(s, t)
       /\ stale' = (stale \/ ~r.ok)
  /\ todo' = todo \ {<<s, "svr">>}
  /\ UNCHANGED <<phase, mode>>

(* epoll_wait on the receive epoll; E are the readable ends. *)
_work_recv_data(E) ==
  /\ up /\ phase = "send" /\ todo = {}
  /\ phase' = "recv"
  /\ todo' = E
  /\ UNCHANGED <<sess, nblocked, mode, up, stale>>

(* Data from end e is taken only while the other side is not blocked. *)
Takes(s, e) == To(e) \notin sess[s].blocked

Readable(s, e) ==
  /\ up /\ phase = "recv" /\ <<s, e>> \in todo
  /\ sess[s].live
  /\ IF Takes(s, e)
     THEN \E r \in IF e = "cli" THEN _work_process_client(sess[s]) ELSE _work_process_server(sess[s]) :
            Apply(s, r)
     ELSE UNCHANGED <<sess, nblocked, up>>
  /\ todo' = todo \ {<<s, e>>}
  /\ UNCHANGED <<phase, mode, stale>>

_work_loop ==
  /\ up /\ phase = "recv" /\ todo = {}
  /\ phase' = "get"
  /\ UNCHANGED <<sess, nblocked, todo, mode, up, stale>>

----------------------------------------------------------------------------
Loop == \/ \E E \in SUBSET InSend : _work_send_data(E)
        \/ \E E \in SUBSET InRecv : _work_recv_data(E)
        \/ _work_loop
        \/ \E s \in Sess : \/ Connected(s)
                           \/ \E e \in End : Skipped(s, e) \/ ErrorEvent(s, e)
                                               \/ Writable(s, e) \/ Readable(s, e)

Next == Loop \/ \E s \in Sess : _work_get_session(s)

Init ==
  /\ sess = [s \in Sess |-> None]
  /\ nblocked = 0
  /\ phase = "get" /\ todo = {}
  /\ mode \in Mode
  /\ up = TRUE /\ stale = FALSE

Spec == Init /\ [][Next]_vars

(* The loop goes on, and epoll_wait does not forget an end whose state has changed:  *)
(* every connection attempt is decided some time.                                    *)
FairSpec ==
  /\ Spec
  /\ WF_vars(Loop)
  /\ \A s \in Sess : SF_vars(\E E \in SUBSET InSend : <<s, "svr">> \in E /\ _work_send_data(E))

----------------------------------------------------------------------------
(* Properties.  *)

IsPacket(p) == p \in Seq(End \X Nat) /\ Len(p) \in 1 .. Cap

(* The types of the state. *)
TypeOK ==
  /\ nblocked \in Nat
  /\ phase \in {"get", "send", "recv"} /\ mode \in Mode
  /\ todo \subseteq Sess \X End
  /\ up \in BOOLEAN /\ stale \in BOOLEAN
  /\ \A s \in Sess : sess[s].live =>
       /\ sess[s].blocked \subseteq End /\ sess[s].insend \subseteq End
       /\ sess[s].nalloced \in Nat
       /\ \A d \in End : /\ \A i \in DOMAIN sess[s].outq[d] : IsPacket(sess[s].outq[d][i])
                         /\ sess[s].blkpkt[d] = <<>> \/ IsPacket(sess[s].blkpkt[d])
                         /\ sess[s].got[d] \in 0 .. N[d]

(* Bytes of one side reach the other in order and once, whatever was blocked,        *)
(* unblocked and queued in between.                                                  *)
InOrder ==
  \A s \in Sess : sess[s].live =>
    \A d \in End : \A i, j \in DOMAIN sess[s].sent[To(d)] :
      LET a == sess[s].sent[To(d)][i]
          b == sess[s].sent[To(d)][j]
      IN i < j /\ a[1] = d /\ b[1] = d => a[2] < b[2]

(* The flags of a session say exactly which of its descriptors are in the send epoll: *)
(* no ADD of one that is there, no DEL of one that is not.                           *)
FlagsMatch ==
  \A s \in Sess : sess[s].live =>
    sess[s].insend = sess[s].blocked \cup (IF sess[s].wait THEN {"svr"} ELSE {})

(* A worker looks at the send epoll as long as anybody waits there: nblocked never   *)
(* falls below the number of ends in it, nor below zero (work.c 1419).               *)
Counted == up => nblocked >= Cardinality(InSend)

(* A session keeps data only for a side it waits for in the send epoll.              *)
Watched ==
  \A s \in Sess : sess[s].live =>
    \A d \in End : Pending(sess[s], d) # <<>> => To(d) \in sess[s].insend

(* Nothing is skipped either: as long as a copying session has all the packets it     *)
(* took, what was received from a side is what was sent, then what is kept.           *)
Complete ==
  \A s \in Sess : sess[s].live /\ mode = "copy" /\ sess[s].nalloced = Held(sess[s]) =>
    \A d \in End : sess[s].sent[To(d)] \o FlattenSeq(Pending(sess[s], d))
                     = [i \in 1 .. sess[s].got[d] |-> <<d, i>>]

(* Whoever waits is woken: data is kept only for ends that are in the send epoll, the   *)
(* flags say who is there, and nblocked does not hide them.                          *)
Armed == TypeOK /\ FlagsMatch /\ Watched /\ Counted

(* The bytes of each direction: in order and once, and while no packet is lost, all.   *)
Stream == InOrder /\ Complete

(* A session that waits for its server is connected or ends: the send epoll is looked *)
(* at as long as it waits there, whatever nblocked went through.                      *)
WaitEnds == \A s \in Sess : (sess[s].live /\ sess[s].wait) ~> (~up \/ ~sess[s].live \/ ~sess[s].wait)

(* The assertion of _work_free_session (work.c 488): once both queues are cleaned,    *)
(* nalloced is 0, so every packet the session took was found.                        *)
CleanFree == up

(* nblocked is the "number of blocked" (thread.h 74).                                *)
NblockedExact == nblocked = Cardinality(InSend)

(* What goes to one side comes from the other.                                       *)
NoEcho ==
  \A s \in Sess : sess[s].live =>
    \A e \in End : \A i \in DOMAIN sess[s].sent[e] : sess[s].sent[e][i][1] # e

(* No session is used after it was freed.                                            *)
NoStaleUse == ~stale
=============================================================================
