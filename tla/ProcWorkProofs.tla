--------------------------- MODULE ProcWorkProofs ---------------------------
(***************************************************************************)
(* Proofs about ProcWork, for every packet size, number of bytes, number   *)
(* of clients and width of nlive, whatever fails: packets, tasks and       *)
(* sessions go back exactly once on every path that ends a session, a      *)
(* callback belongs to the state of its socket, and what is sent to one    *)
(* end is what came from the other.                                        *)
(*                                                                         *)
(* Wired is about the session alone: which callback goes with which flags. *)
(* Linked is about the task queue: which tasks may be linked, and when.    *)
(* The heart is that a session both of whose ends have passed on the end   *)
(* of the stream has no task linked and can get none.                      *)
(* Streams is about the bytes: while both sockets are open, what was sent, *)
(* what waits and what is not parsed yet are the received bytes in order.  *)
(*                                                                         *)
(* The last part is about the main process of these workers, ProcMain.     *)
(***************************************************************************)
EXTENDS ProcWork, ProcMain, SequenceTheorems, FiniteSetTheorems, NaturalsInduction,
        WellFoundedInduction, TLAPS

Flag == {"SHUTRD", "SHUTWR", "BLOCKED", "HANDSHAKE"}
Task == {"NONE", "PARSE", "SEND", "DELETE"}
Callback == {"NULL", "recv", "send", "handshake"}
Mask == {"ERR", "IN", "RDHUP", "OUT"}
Packets == Seq(Seq(Nat))

ItemType == [st : {"CLOSED", "READY", "STOP"}, ev : SUBSET Mask, pev : SUBSET Mask,
             cb : Callback, upd : BOOLEAN, listed : BOOLEAN]

\* A session, leaving open what was sent.
Session(S) ==
  [live : BOOLEAN, fd : [End -> BOOLEAN], inq : [End -> Packets], out : [End -> Packets],
   flags : [End -> SUBSET Flag], task : [End -> Task], item : [End -> ItemType],
   nalloced : Int, got : [End -> Nat], sent : S]

Memory(s) == s \in Session({s.sent})

NPackets(s) == Len(s.inq["cli"]) + Len(s.out["cli"]) + Len(s.inq["svr"]) + Len(s.out["svr"])

\* An end is stopped while its peer is blocked.
Halted(s, e) ==
  "BLOCKED" \in s.flags[Peer(e)] /\ s.fd[Peer(e)] => s.item[e].st # "READY"

\* Flags and callback of end e suit each other.  The last line is why the send
\* callback of a session that both ends have closed cannot fail any more.
Suits(s, e) ==
  /\ s.item[e].cb = "send" => "BLOCKED" \in s.flags[e]
  /\ s.item[e].cb = "handshake" => "HANDSHAKE" \in s.flags[e]
  /\ "SHUTRD" \in s.flags[e] => s.item[e].cb \in {"NULL", "send"}
  /\ "HANDSHAKE" \in s.flags[e] =>
       s.item[e].cb \in {"NULL", "handshake"} /\ "SHUTRD" \notin s.flags[e]
  /\ "SHUTWR" \in s.flags[e] => "SHUTRD" \in s.flags[e]
  /\ ~s.fd[e] => s.item[e] = Item("CLOSED")
  /\ "SHUTWR" \in s.flags[Peer(e)] /\ "SHUTRD" \in s.flags[e] /\ s.item[e].cb = "send" =>
       s.out[e] = <<>>

Fits(s, e) == Halted(s, e) /\ Suits(s, e)

\* What holds also between a send that failed and the end of the session: the
\* peer of a blocked end may not be stopped then.
Sound(s) ==
  /\ Memory(s)
  /\ s.nalloced = NPackets(s)
  /\ \A e \in End : Suits(s, e)
  /\ ~s.live => s.nalloced = 0 /\ \A e \in End : ~s.fd[e]

Wired(s) ==
  /\ Memory(s)
  /\ s.nalloced = NPackets(s)
  /\ \A e \in End : Fits(s, e)
  /\ ~s.live => s.nalloced = 0 /\ \A e \in End : ~s.fd[e]

\* What a linked task of e says about the session.
Runs(s, e) ==
  /\ s.task[e] # "NONE"
  /\ s.task[e] = "SEND" => "SHUTRD" \notin s.flags[e] /\ s.inq[e] = <<>>
  /\ s.task[e] = "PARSE" /\ "SHUTWR" \in s.flags[e] => "SHUTRD" \notin s.flags[Peer(e)]

\* The queues that link no task twice.
Queues == {<<>>, <<"cli">>, <<"svr">>, <<"cli", "svr">>, <<"svr", "cli">>}

Linked(s, q) ==
  /\ q \in Queues
  /\ q # <<>> => s.live /\ ~BothShut(s)
  /\ \A e \in End : /\ Queued(q, e) => Runs(s, e)
                    /\ ~Queued(q, e) => s.inq[e] = <<>>
                    /\ Queued(q, e) /\ Queued(q, Peer(e)) => "SHUTWR" \notin s.flags[e]
                    /\ Len(s.inq[e]) <= 1

Loop ==
  /\ phase \in {"wait", "poll", "task"}
  /\ batch \in Batches /\ hung \subseteq End
  /\ nlive \in 0 .. Word - 1 /\ nsess \in 0 .. MaxSess
  /\ puts = IF x.live THEN 0 ELSE 1
  /\ phase = "wait" => taskq = <<>>
  /\ phase = "task" \/ ~x.live => \A e \in End : batch[e] = {}
  /\ \A e \in End : /\ phase = "poll" /\ Queued(taskq, e) =>
                         /\ batch[e] = {} /\ x.item[e].st = "READY"
                         /\ "SHUTWR" \in x.flags[e] => "BLOCKED" \in x.flags[e]
                    /\ x.live /\ ~x.fd[e] =>
                         phase = "task" /\ taskq = <<Peer(e)>> /\ x.task[Peer(e)] = "DELETE"

IInv == Wired(x) /\ Linked(x, taskq) /\ Loop


-----------------------------------------------------------------------------
(* The two ends and the task queue.                                        *)

LEMMA PeerEnd ==
  /\ Peer("cli") = "svr" /\ Peer("svr") = "cli"
  /\ \A e \in End : Peer(e) \in End /\ Peer(e) # e /\ Peer(Peer(e)) = e
  /\ \A e, f \in End : f = e \/ f = Peer(e)
  BY DEF Peer, End

LEMMA QueuedCases ==
  ASSUME NEW e \in End
  PROVE  /\ ~Queued(<<>>, e)
         /\ \A f \in End : Queued(<<f>>, e) <=> e = f
         /\ \A f, g \in End : Queued(<<f, g>>, e) <=> e = f \/ e = g
  BY DEF Queued

\* The five queues by their first end.
LEMMA QueueCases ==
  ASSUME NEW q \in Queues
  PROVE  q = <<>> \/ \E e \in End : q = <<e>> \/ q = <<e, Peer(e)>>
  BY PeerEnd DEF Queues, End

LEMMA QueueMade ==
  ASSUME NEW e \in End
  PROVE  <<>> \in Queues /\ <<e>> \in Queues /\ <<e, Peer(e)>> \in Queues
  BY PeerEnd DEF Queues, End

LEMMA QueueType ==
  ASSUME NEW q \in Queues
  PROVE  q \in Seq(End) /\ Len(q) <= 2 /\ IsInjective(q)
<1>1. CASE q = <<>>
  BY <1>1 DEF IsInjective
<1>2. ASSUME NEW e \in End, q = <<e>>
      PROVE  q \in Seq(End) /\ Len(q) <= 2 /\ IsInjective(q)
  BY <1>2 DEF IsInjective
<1>3. ASSUME NEW e \in End, q = <<e, Peer(e)>>
      PROVE  q \in Seq(End) /\ Len(q) <= 2 /\ IsInjective(q)
  BY <1>3, PeerEnd DEF IsInjective
<1> QED  BY <1>1, <1>2, <1>3, QueueCases

\* What linking a task that is not linked makes of the queue.
LEMMA QueueAppend ==
  ASSUME NEW q \in Queues, NEW e \in End, ~Queued(q, e)
  PROVE  /\ Append(q, e) \in Queues
         /\ Append(q, e) # <<>>
         /\ \A f \in End : Queued(Append(q, e), f) <=> f = e \/ Queued(q, f)
<1>0. Append(q, e) # <<>>
  BY QueueType
<1>1. CASE q = <<>>
  <2>1. Append(q, e) = <<e>>
    BY <1>1
  <2>2. \A f \in End : (Queued(<<e>>, f) <=> e = f) /\ ~Queued(<<>>, f)
    BY QueuedCases, Zenon
  <2> QED  BY <1>0, <1>1, <2>1, <2>2, QueueMade, Zenon
<1>2. ASSUME NEW f \in End, q = <<f>>
      PROVE  e = Peer(f) /\ Append(q, e) = <<f, Peer(f)>>
  <2>1. ~Queued(<<f>>, e)
    BY <1>2, Zenon
  <2>2. e # f
    BY <2>1, QueuedCases, Zenon
  <2>3. e = Peer(f)
    BY <2>2, PeerEnd, Zenon
  <2>4. Append(<<f>>, e) = <<f, e>>
    <3> DEFINE a == Append(<<f>>, e)
               b == <<f, e>>
    <3>1. a \in Seq(End) /\ Len(a) = 2 /\ a[1] = f /\ a[2] = e
      OBVIOUS
    <3>2. b \in Seq(End) /\ Len(b) = 2 /\ b[1] = f /\ b[2] = e
      OBVIOUS
    <3> HIDE DEF a, b
    <3>3. \A i \in 1 .. Len(a) : a[i] = b[i]
      BY <3>1, <3>2
    <3>4. a = b
      BY <3>1, <3>2, <3>3, SeqEqual
    <3> QED  BY <3>4 DEF a, b
  <2> QED  BY <1>2, <2>3, <2>4, Zenon
<1>3. CASE \E f \in End : q = <<f>>
  <2>1. PICK f \in End : q = <<f>>
    BY <1>3
  <2>2. e = Peer(f) /\ Append(q, e) = <<f, Peer(f)>>
    BY <2>1, <1>2
  <2>3. \A g \in End : /\ Queued(<<f, Peer(f)>>, g) <=> g = f \/ g = Peer(f)
                       /\ Queued(<<f>>, g) <=> g = f
    BY QueuedCases, PeerEnd, Zenon
  <2> QED  BY <1>0, <2>1, <2>2, <2>3, QueueMade, Zenon
<1>4. ASSUME NEW f \in End, q = <<f, Peer(f)>>
      PROVE  FALSE
  <2>1. Queued(<<f, Peer(f)>>, e) <=> e = f \/ e = Peer(f)
    BY QueuedCases, PeerEnd, Zenon
  <2> QED  BY <2>1, <1>4, PeerEnd, Zenon
<1> QED  BY <1>1, <1>3, <1>4, QueueCases, Zenon

\* What unlinking the first task leaves.
LEMMA QueueTail ==
  ASSUME NEW q \in Queues, q # <<>>, NEW e \in End, Head(q) = e
  PROVE  /\ Queued(q, e) /\ ~Queued(Tail(q), e)
         /\ Tail(q) \in Queues
         /\ Queued(q, Peer(e)) <=> Queued(Tail(q), Peer(e))
         /\ \/ Tail(q) = <<>> /\ ~Queued(Tail(q), Peer(e)) /\ q = <<e>>
            \/ Tail(q) = <<Peer(e)>> /\ Queued(Tail(q), Peer(e)) /\ q = <<e, Peer(e)>>
<1>1. ASSUME NEW f \in End, q = <<f>>
      PROVE  e = f
  BY <1>1
<1>2. ASSUME NEW f \in End, q = <<f, Peer(f)>>
      PROVE  e = f
  BY <1>2
<1>3. CASE q = <<e>>
  <2>1. Tail(q) = <<>>
    BY <1>3
  <2>2. /\ Queued(<<e>>, e) /\ ~Queued(<<>>, e)
        /\ ~Queued(<<e>>, Peer(e)) /\ ~Queued(<<>>, Peer(e))
    BY QueuedCases, PeerEnd, Zenon
  <2> QED  BY <1>3, <2>1, <2>2, QueueMade, Zenon
<1>4. CASE q = <<e, Peer(e)>>
  <2>1. Tail(q) = <<Peer(e)>>
    BY <1>4
  <2>2. /\ Queued(<<e, Peer(e)>>, e) /\ ~Queued(<<Peer(e)>>, e)
        /\ Queued(<<e, Peer(e)>>, Peer(e)) /\ Queued(<<Peer(e)>>, Peer(e))
    BY QueuedCases, PeerEnd, Zenon
  <2> QED  BY <1>4, <2>1, <2>2, QueueMade, PeerEnd, Zenon
<1> QED  BY <1>1, <1>2, <1>3, <1>4, QueueCases, Zenon


-----------------------------------------------------------------------------
(* One update of the session.                                              *)

\* The packets and their count are the same.
SamePackets(s, t) == t.inq = s.inq /\ t.out = s.out /\ t.nalloced = s.nalloced

\* The sockets, the flags and the tasks are the same.
SameRest(s, t) == t.live = s.live /\ t.fd = s.fd /\ t.flags = s.flags /\ t.task = s.task

LEMMA UpdateShape ==
  ASSUME NEW s, Memory(s), NEW e \in End, NEW ev \in SUBSET Mask, NEW cb \in Callback
  PROVE  LET t == fd_epoll_alloc_update(s, e, ev, cb)
         IN /\ Memory(t) /\ SamePackets(s, t) /\ SameRest(s, t)
            /\ t.item[e].st = s.item[e].st /\ t.item[e].cb = cb
            /\ t.item[Peer(e)] = s.item[Peer(e)]
<1> DEFINE t == fd_epoll_alloc_update(s, e, ev, cb)
<1> DEFINE i == [s.item[e] EXCEPT !.ev = ev, !.cb = cb, !.upd = TRUE,
                                  !.listed = @ \/ ~Pends(s, e)]
<1>0. s.item[e] \in ItemType
  BY DEF Memory, Session
<1>a. i \in ItemType
  BY <1>0 DEF ItemType
<1>b. t = [s EXCEPT !.item[e] = i]
  BY DEF fd_epoll_alloc_update, Memory, Session
<1> HIDE DEF i
<1>1. Memory(t)
  BY <1>a, <1>b DEF Memory, Session
<1>2. SamePackets(s, t) /\ SameRest(s, t)
  BY DEF fd_epoll_alloc_update, Memory, Session, SamePackets, SameRest
<1>3. /\ t.item[e].st = s.item[e].st /\ t.item[e].cb = cb
      /\ t.item[Peer(e)] = s.item[Peer(e)]
  BY PeerEnd DEF fd_epoll_alloc_update, Memory, Session, ItemType
<1> QED  BY <1>1, <1>2, <1>3

LEMMA FlagShape ==
  ASSUME NEW s, Memory(s), NEW e \in End, NEW F \in SUBSET Flag
  PROVE  LET t == [s EXCEPT !.flags[e] = F]
         IN /\ Memory(t) /\ SamePackets(s, t)
            /\ t.live = s.live /\ t.fd = s.fd /\ t.task = s.task /\ t.item = s.item
            /\ t.flags[e] = F /\ t.flags[Peer(e)] = s.flags[Peer(e)]
  BY PeerEnd DEF Memory, Session, SamePackets

LEMMA TaskShape ==
  ASSUME NEW s, Memory(s), NEW e \in End, NEW v \in Task
  PROVE  LET t == [s EXCEPT !.task[e] = v]
         IN /\ Memory(t) /\ SamePackets(s, t)
            /\ t.live = s.live /\ t.fd = s.fd /\ t.flags = s.flags /\ t.item = s.item
            /\ t.task[e] = v /\ t.task[Peer(e)] = s.task[Peer(e)]
  BY PeerEnd DEF Memory, Session, SamePackets

LEMMA StopShape ==
  ASSUME NEW s, Memory(s), NEW e \in End
  PROVE  LET t == [s EXCEPT !.item[e].st = "STOP"]
         IN /\ Memory(t) /\ SamePackets(s, t) /\ SameRest(s, t)
            /\ t.item[e].st = "STOP" /\ t.item[e].cb = s.item[e].cb
            /\ t.item[Peer(e)] = s.item[Peer(e)]
<1> DEFINE i == [s.item[e] EXCEPT !.st = "STOP"]
           t == [s EXCEPT !.item[e].st = "STOP"]
<1>0. s.item[e] \in ItemType
  BY DEF Memory, Session
<1>1. i \in ItemType /\ i.st = "STOP" /\ i.cb = s.item[e].cb
  BY <1>0 DEF ItemType
<1>2. t = [s EXCEPT !.item[e] = i]
  BY DEF Memory, Session
<1> HIDE DEF i, t
<1>3. Memory(t) /\ SamePackets(s, t) /\ SameRest(s, t)
  BY <1>1, <1>2 DEF Memory, Session, SamePackets, SameRest
<1>4. t.item[e] = i /\ t.item[Peer(e)] = s.item[Peer(e)]
  BY <1>1, <1>2, PeerEnd DEF Memory, Session
<1> QED  BY <1>1, <1>3, <1>4 DEF t

LEMMA ItemClosed ==
  /\ Item("CLOSED") \in ItemType /\ Item("READY") \in ItemType
  /\ Item("CLOSED").st = "CLOSED" /\ Item("CLOSED").cb = "NULL" /\ Item("CLOSED").pev = {}
  /\ Item("READY").st = "READY" /\ Item("READY").cb = "NULL"
  /\ Item("CLOSED").listed = FALSE
  BY DEF Item, ItemType, Callback

LEMMA FreeDataShape ==
  ASSUME NEW s, Memory(s), NEW e \in End
  PROVE  LET t == _worker_free_session_data(s, e)
         IN /\ Memory(t)
            /\ t.live = s.live /\ t.flags = s.flags /\ t.task = s.task
            /\ t.fd[e] = FALSE /\ t.fd[Peer(e)] = s.fd[Peer(e)]
            /\ t.inq[e] = <<>> /\ t.inq[Peer(e)] = s.inq[Peer(e)]
            /\ t.out[e] = <<>> /\ t.out[Peer(e)] = s.out[Peer(e)]
            /\ t.item[e] = (IF s.fd[e] THEN Item("CLOSED") ELSE s.item[e])
            /\ t.item[Peer(e)] = s.item[Peer(e)]
            /\ t.nalloced = s.nalloced - Len(s.inq[e]) - Len(s.out[e])
<1> DEFINE t == _worker_free_session_data(s, e)
<1>0. Len(s.inq[e]) \in Nat /\ Len(s.out[e]) \in Nat /\ <<>> \in Packets
  BY DEF Memory, Session, Packets
<1>1. Memory(t)
  <2> DEFINE i == IF s.fd[e] THEN Item("CLOSED") ELSE s.item[e]
             n == s.nalloced - Len(s.inq[e]) - Len(s.out[e])
  <2>1. i \in ItemType /\ n \in Int
    BY <1>0, ItemClosed DEF Memory, Session
  <2>2. t = [s EXCEPT !.nalloced = n, !.inq[e] = <<>>, !.out[e] = <<>>,
                      !.item[e] = i, !.fd[e] = FALSE]
    BY DEF _worker_free_session_data, Memory, Session
  <2> HIDE DEF i, n, t
  <2>3. t \in Session({t.sent})
    BY <1>0, <2>1, <2>2 DEF Memory, Session
  <2> QED  BY <2>3 DEF Memory
<1>2. t.live = s.live /\ t.flags = s.flags /\ t.task = s.task
  BY DEF _worker_free_session_data, Memory, Session
<1>3. /\ t.fd[e] = FALSE /\ t.fd[Peer(e)] = s.fd[Peer(e)]
      /\ t.inq[e] = <<>> /\ t.inq[Peer(e)] = s.inq[Peer(e)]
      /\ t.out[e] = <<>> /\ t.out[Peer(e)] = s.out[Peer(e)]
  BY PeerEnd DEF _worker_free_session_data, Memory, Session
<1>4. /\ t.item[e] = (IF s.fd[e] THEN Item("CLOSED") ELSE s.item[e])
      /\ t.item[Peer(e)] = s.item[Peer(e)]
      /\ t.nalloced = s.nalloced - Len(s.inq[e]) - Len(s.out[e])
  BY PeerEnd DEF _worker_free_session_data, Memory, Session
<1> QED  BY <1>1, <1>2, <1>3, <1>4


-----------------------------------------------------------------------------
(* Packets come, move and go.                                              *)

LEMMA ReceivedShape ==
  ASSUME Memory(x), NEW e \in End, NEW n \in Nat, x.inq[e] = <<>>
  PROVE  LET t == Received(e, n)
         IN /\ Memory(t) /\ SameRest(x, t) /\ t.item = x.item /\ t.out = x.out
            /\ Len(t.inq[e]) = 1 /\ t.inq[Peer(e)] = x.inq[Peer(e)]
            /\ t.nalloced = x.nalloced + 1
<1> DEFINE p == [i \in 1 .. n |-> x.got[e] + i]
           t == [x EXCEPT !.inq[e] = Append(@, p), !.got[e] = @ + n, !.nalloced = @ + 1]
<1>1. x.got[e] \in Nat /\ x.inq[e] \in Packets
  BY DEF Memory, Session
<1>2. p \in Seq(Nat)
  BY <1>1
<1> HIDE DEF p
<1>3. Append(x.inq[e], p) \in Packets /\ Len(Append(x.inq[e], p)) = 1
  BY <1>1, <1>2 DEF Packets
<1> DEFINE q == Append(x.inq[e], p)
<1> HIDE DEF q
<1> DEFINE g == x.got[e] + n
           m == x.nalloced + 1
<1>4. t = [x EXCEPT !.inq[e] = q, !.got[e] = g, !.nalloced = m]
  BY DEF q, Memory, Session
<1>9. g \in Nat /\ m \in Int
  BY <1>1 DEF Memory, Session
<1> HIDE DEF g, m
<1>5. q \in Packets /\ Len(q) = 1
  BY <1>3 DEF q
<1> HIDE DEF t
<1>6. t \in Session({t.sent})
  BY <1>1, <1>4, <1>5, <1>9 DEF Memory, Session
<1>7. /\ SameRest(x, t) /\ t.item = x.item /\ t.out = x.out
      /\ t.inq[e] = q /\ t.inq[Peer(e)] = x.inq[Peer(e)] /\ t.nalloced = m
  BY <1>1, <1>4, PeerEnd DEF Memory, Session, SameRest
<1>8. Received(e, n) = t
  BY DEF Received, t, p
<1> QED  BY <1>5, <1>6, <1>7, <1>8 DEF Memory, m

LEMMA OutcomeCases ==
  ASSUME NEW s, Memory(s), NEW e \in End, NEW o \in Outcome(s, e)
  PROVE  /\ o.k \in Nat /\ o.m \in Nat /\ o.k <= Len(s.out[e])
         /\ \/ "HANDSHAKE" \in s.flags[e] /\ o.k = 0 /\ o.m = 0 /\ o.err = FALSE
            \/ "HANDSHAKE" \notin s.flags[e] /\ o.k = Len(s.out[e]) /\ o.m = 0 /\ o.err = FALSE
            \/ /\ "HANDSHAKE" \notin s.flags[e] /\ o.k < Len(s.out[e]) /\ o.err = FALSE
               /\ o.m > 0 /\ o.m < Len(s.out[e][o.k + 1])
            \/ "HANDSHAKE" \notin s.flags[e] /\ o.k < Len(s.out[e]) /\ o.m = 0 /\ o.err = TRUE
<1> DEFINE q == s.out[e]
           L == Len(q)
<1>1. L \in Nat /\ Cap \in Nat
  BY ProcWorkAssumption DEF Memory, Session, Packets
<1> HIDE DEF L
<1>2. CASE "HANDSHAKE" \in s.flags[e]
  <2>1. o = [k |-> 0, m |-> 0, err |-> FALSE]
    BY <1>2 DEF Outcome
  <2> QED  BY <1>1, <1>2, <2>1 DEF L
<1>3. CASE "HANDSHAKE" \notin s.flags[e]
  <2>1. \/ o = [k |-> L, m |-> 0, err |-> FALSE]
        \/ /\ \E k \in 0 .. L - 1, m \in 1 .. Cap - 1 : o = [k |-> k, m |-> m, err |-> FALSE]
           /\ o.m < Len(q[o.k + 1])
        \/ \E k \in 0 .. L - 1 : o = [k |-> k, m |-> 0, err |-> TRUE]
    BY <1>3 DEF Outcome, L
  <2>2. CASE o = [k |-> L, m |-> 0, err |-> FALSE]
    BY <2>2, <1>1, <1>3 DEF L
  <2>3. CASE /\ \E k \in 0 .. L - 1, m \in 1 .. Cap - 1 : o = [k |-> k, m |-> m, err |-> FALSE]
             /\ o.m < Len(q[o.k + 1])
    BY <2>3, <1>1, <1>3 DEF L
  <2>4. CASE \E k \in 0 .. L - 1 : o = [k |-> k, m |-> 0, err |-> TRUE]
    BY <2>4, <1>1, <1>3 DEF L
  <2> QED  BY <2>1, <2>2, <2>3, <2>4
<1> QED  BY <1>2, <1>3

\* What is left of the queue after an outcome.
LEMMA RestOfQueue ==
  ASSUME NEW q \in Packets, NEW k \in Nat, NEW m \in Nat, k <= Len(q), m > 0 => k < Len(q)
  PROVE  LET rest == SubSeq(q, k + 1, Len(q))
             out == IF m > 0 THEN [rest EXCEPT ![1] = Advance(@, m)] ELSE rest
         IN /\ out \in Packets /\ Len(out) = Len(q) - k
            /\ k = Len(q) => out = <<>>
            /\ k = 0 /\ m = 0 => out = q
<1> DEFINE rest == SubSeq(q, k + 1, Len(q))
           new == [rest EXCEPT ![1] = Advance(@, m)]
<1>1. Len(q) \in Nat
  BY DEF Packets
<1>2. rest \in Packets /\ Len(rest) = Len(q) - k
  BY <1>1, SubSeqProperties DEF Packets
<1>3. k = Len(q) => rest = <<>>
  BY <1>1, <1>2, EmptySeq DEF Packets
<1>4. k = 0 => rest = q
  <2> SUFFICES ASSUME k = 0 PROVE rest = q
    OBVIOUS
  <2>1. \A i \in 1 .. Len(rest) : rest[i] = q[i]
    BY <1>1, <1>2, SubSeqProperties DEF Packets
  <2> HIDE DEF rest
  <2> QED  BY <1>1, <1>2, <2>1, SeqEqual DEF Packets
<1>5. m > 0 => new \in Packets /\ Len(new) = Len(rest)
  <2> SUFFICES ASSUME m > 0 PROVE new \in Packets /\ Len(new) = Len(rest)
    OBVIOUS
  <2> HIDE DEF rest
  <2>1. 1 \in 1 .. Len(rest)
    BY <1>1, <1>2
  <2>2. rest[1] \in Seq(Nat)
    BY <1>2, <2>1 DEF Packets
  <2>3. Advance(rest[1], m) \in Seq(Nat)
    BY <2>2, SubSeqProperties DEF Advance
  <2> QED  BY <1>2, <2>1, <2>3, ExceptSeq DEF Packets
<1> QED  BY <1>1, <1>2, <1>3, <1>4, <1>5


LEMMA TakenShape ==
  ASSUME NEW s, Memory(s), NEW e \in End, NEW o \in Outcome(s, e)
  PROVE  LET t == Taken(s, e, o)
         IN /\ Memory(t) /\ SameRest(s, t) /\ t.item = s.item /\ t.inq = s.inq
            /\ t.out[Peer(e)] = s.out[Peer(e)]
            /\ t.nalloced = s.nalloced - o.k /\ o.k \in Nat
            /\ Len(t.out[e]) = Len(s.out[e]) - o.k
            /\ o.err \/ o.m > 0 => "HANDSHAKE" \notin s.flags[e] /\ s.out[e] # <<>>
            /\ ~o.err /\ ~(o.m > 0) /\ "HANDSHAKE" \notin s.flags[e] => t.out[e] = <<>>
            /\ s.out[e] = <<>> => t.out[e] = <<>>
<1> DEFINE q == s.out[e]
           rest == SubSeq(q, o.k + 1, Len(q))
           out == IF o.m > 0 THEN [rest EXCEPT ![1] = Advance(@, o.m)] ELSE rest
           new == s.sent[e] \o FlattenSeq(SubSeq(q, 1, o.k))
                            \o (IF o.m > 0 THEN SubSeq(q[o.k + 1], 1, o.m) ELSE <<>>)
           n == s.nalloced - o.k
           t == Taken(s, e, o)
<1>1. q \in Packets /\ Len(q) \in Nat /\ s.nalloced \in Int
  BY DEF Memory, Session, Packets
<1>2. /\ o.k \in Nat /\ o.m \in Nat /\ o.k <= Len(q) /\ (o.m > 0 => o.k < Len(q))
      /\ o.err \/ o.m > 0 => "HANDSHAKE" \notin s.flags[e] /\ o.k < Len(q)
      /\ ~o.err /\ ~(o.m > 0) /\ "HANDSHAKE" \notin s.flags[e] => o.k = Len(q)
  <2>1. /\ o.k \in Nat /\ o.m \in Nat /\ o.k <= Len(s.out[e])
        /\ \/ "HANDSHAKE" \in s.flags[e] /\ o.k = 0 /\ o.m = 0 /\ o.err = FALSE
           \/ "HANDSHAKE" \notin s.flags[e] /\ o.k = Len(s.out[e]) /\ o.m = 0 /\ o.err = FALSE
           \/ /\ "HANDSHAKE" \notin s.flags[e] /\ o.k < Len(s.out[e]) /\ o.err = FALSE
              /\ o.m > 0 /\ o.m < Len(s.out[e][o.k + 1])
           \/ "HANDSHAKE" \notin s.flags[e] /\ o.k < Len(s.out[e]) /\ o.m = 0 /\ o.err = TRUE
    BY OutcomeCases
  <2> QED  BY <1>1, <2>1
<1>3. /\ out \in Packets /\ Len(out) = Len(q) - o.k
      /\ o.k = Len(q) => out = <<>>
  BY <1>1, <1>2, RestOfQueue
<1>4. t = [s EXCEPT !.sent[e] = new, !.out[e] = out, !.nalloced = n]
  BY DEF Taken, Memory, Session
<1>5. n \in Int
  BY <1>1, <1>2
<1>6. /\ o.err \/ o.m > 0 => q # <<>>
      /\ q = <<>> => o.k = Len(q)
  BY <1>1, <1>2 DEF Packets
<1> HIDE DEF out, new, n, t
<1>7. t \in Session({t.sent})
  BY <1>3, <1>4, <1>5 DEF Memory, Session
<1>8. /\ SameRest(s, t) /\ t.item = s.item /\ t.inq = s.inq /\ t.out[e] = out
      /\ t.out[Peer(e)] = s.out[Peer(e)] /\ t.nalloced = n
  BY <1>4, PeerEnd DEF Memory, Session, SameRest
<1>9. t.nalloced = s.nalloced - o.k
  BY <1>8 DEF n
<1> QED  BY <1>2, <1>3, <1>6, <1>7, <1>8, <1>9 DEF Memory, t

LEMMA ParsedShape ==
  ASSUME NEW s, Memory(s), NEW e \in End
  PROVE  LET t == _worker_parse_data(s, e)
         IN /\ Memory(t) /\ SameRest(s, t) /\ t.item = s.item
            /\ t.inq[e] = <<>> /\ t.inq[Peer(e)] = s.inq[Peer(e)]
            /\ t.out[e] = s.out[e]
            /\ t.nalloced - Len(t.out[Peer(e)]) = s.nalloced - Len(s.out[Peer(e)]) - Len(s.inq[e])
<1> DEFINE full == IF s.inq[e] = << <<>> >> THEN <<>> ELSE s.inq[e]
           out == s.out[Peer(e)] \o full
           n == s.nalloced - (Len(s.inq[e]) - Len(full))
           t == _worker_parse_data(s, e)
<1>1. /\ s.inq[e] \in Packets /\ s.out[Peer(e)] \in Packets /\ s.nalloced \in Int
      /\ <<>> \in Packets
  BY PeerEnd DEF Memory, Session, Packets
<1>2. full \in Packets
  BY <1>1
<1>3. t = [s EXCEPT !.inq[e] = <<>>, !.out[Peer(e)] = out, !.nalloced = n]
  BY PeerEnd DEF _worker_parse_data, Memory, Session
<1> HIDE DEF full
<1>4. /\ Len(s.inq[e]) \in Nat /\ Len(full) \in Nat /\ Len(s.out[Peer(e)]) \in Nat
      /\ out \in Packets /\ Len(out) = Len(s.out[Peer(e)]) + Len(full)
  BY <1>1, <1>2, ConcatProperties DEF Packets
<1>5. n \in Int /\ n - Len(out) = s.nalloced - Len(s.out[Peer(e)]) - Len(s.inq[e])
  <2> DEFINE i == Len(s.inq[e])
             f == Len(full)
             p == Len(s.out[Peer(e)])
             v == s.nalloced
  <2>1. i \in Nat /\ f \in Nat /\ p \in Nat /\ v \in Int /\ Len(out) = p + f /\ n = v - (i - f)
    BY <1>1, <1>4
  <2> HIDE DEF i, f, p, v, out, n
  <2>2. n \in Int /\ n - Len(out) = v - p - i
    BY <2>1
  <2> QED  BY <2>2 DEF i, p, v
<1> HIDE DEF out, n, t
<1>6. t \in Session({t.sent})
  BY <1>1, <1>3, <1>4, <1>5, PeerEnd DEF Memory, Session
<1>7. /\ SameRest(s, t) /\ t.item = s.item
      /\ t.inq[e] = <<>> /\ t.inq[Peer(e)] = s.inq[Peer(e)]
      /\ t.out[e] = s.out[e] /\ t.out[Peer(e)] = out /\ t.nalloced = n
  BY <1>3, PeerEnd DEF Memory, Session, SameRest
<1> QED  BY <1>5, <1>6, <1>7 DEF Memory, t


-----------------------------------------------------------------------------
(* What the updates keep of Wired.                                         *)

LEMMA QueueLens ==
  ASSUME NEW s, Memory(s), NEW e \in End
  PROVE  /\ Len(s.inq[e]) \in Nat /\ Len(s.out[e]) \in Nat
         /\ Len(s.inq[Peer(e)]) \in Nat /\ Len(s.out[Peer(e)]) \in Nat
         /\ s.inq[e] \in Packets /\ s.out[e] \in Packets
  BY PeerEnd DEF Memory, Session, Packets

LEMMA CountByEnd ==
  ASSUME NEW s, Memory(s), NEW e \in End
  PROVE  NPackets(s) = Len(s.inq[e]) + Len(s.out[e]) + Len(s.inq[Peer(e)]) + Len(s.out[Peer(e)])
<1>1. CASE e = "cli"
  BY <1>1, QueueLens, PeerEnd DEF NPackets
<1>2. CASE e = "svr"
  <2>1. Peer(e) = "cli"
    BY <1>2, PeerEnd
  <2>2. /\ Len(s.inq["cli"]) \in Nat /\ Len(s.out["cli"]) \in Nat
        /\ Len(s.inq["svr"]) \in Nat /\ Len(s.out["svr"]) \in Nat
    BY <1>2, <2>1, QueueLens
  <2>3. NPackets(s) = Len(s.inq["svr"]) + Len(s.out["svr"]) + Len(s.inq["cli"]) + Len(s.out["cli"])
    <3> DEFINE a == Len(s.inq["cli"])
               b == Len(s.out["cli"])
               c == Len(s.inq["svr"])
               d == Len(s.out["svr"])
    <3>1. NPackets(s) = a + b + c + d
      BY DEF NPackets
    <3> HIDE DEF a, b, c, d
    <3>2. a \in Nat /\ b \in Nat /\ c \in Nat /\ d \in Nat
      BY <2>2 DEF a, b, c, d
    <3>3. NPackets(s) = c + d + a + b
      BY <3>1, <3>2
    <3> QED  BY <3>3 DEF a, b, c, d
  <2> QED  BY <1>2, <2>1, <2>3, Zenon
<1> QED  BY <1>1, <1>2 DEF End

LEMMA LenZero ==
  ASSUME NEW q \in Packets
  PROVE  Len(q) = 0 <=> q = <<>>
  BY DEF Packets

LEMMA NoPacketLeft ==
  ASSUME NEW s, Sound(s), ~s.live, NEW e \in End
  PROVE  s.inq[e] = <<>> /\ s.out[e] = <<>> /\ s.item[e] = Item("CLOSED") /\ s.fd[e] = FALSE
<1>1. Memory(s) /\ NPackets(s) = 0 /\ ~s.fd[e] /\ Suits(s, e)
  BY DEF Sound
<1>2. Len(s.inq[e]) = 0 /\ Len(s.out[e]) = 0
  <2> DEFINE a == Len(s.inq[e])
             b == Len(s.out[e])
             c == Len(s.inq[Peer(e)])
             d == Len(s.out[Peer(e)])
  <2>1. a + b + c + d = 0
    BY <1>1, CountByEnd
  <2>2. a \in Nat /\ b \in Nat /\ c \in Nat /\ d \in Nat
    BY <1>1, QueueLens
  <2> HIDE DEF a, b, c, d
  <2>3. a = 0 /\ b = 0
    BY <2>1, <2>2
  <2> QED  BY <2>3 DEF a, b
<1>3. s.inq[e] = <<>> /\ s.out[e] = <<>>
  BY <1>1, <1>2, QueueLens, LenZero
<1>4. s.item[e] = Item("CLOSED") /\ s.fd[e] = FALSE
  BY <1>1 DEF Fits, Halted, Suits, Memory, Session
<1> QED  BY <1>3, <1>4

\* Fits of both ends, and both ends.
LEMMA BothEnds ==
  ASSUME NEW s, NEW e \in End, Fits(s, e), Fits(s, Peer(e))
  PROVE  \A f \in End : Fits(s, f)
  BY PeerEnd, Zenon

LEMMA FitsSame ==
  ASSUME NEW s, NEW t, NEW e \in End, Fits(s, e), t.flags = s.flags, t.fd[e] = s.fd[e],
         t.fd[Peer(e)] = s.fd[Peer(e)], t.item[e] = s.item[e], t.out[e] = s.out[e]
  PROVE  Fits(t, e)
  BY SMT DEF Fits, Halted, Suits

\* The task says nothing about the sockets.
LEMMA TaskWired ==
  ASSUME NEW s, Wired(s), NEW e \in End, NEW v \in Task
  PROVE  Wired([s EXCEPT !.task[e] = v])
<1> DEFINE t == [s EXCEPT !.task[e] = v]
<1>1. /\ Memory(t) /\ SamePackets(s, t)
      /\ t.live = s.live /\ t.fd = s.fd /\ t.flags = s.flags /\ t.item = s.item
  BY TaskShape DEF Wired
<1> HIDE DEF t
<1>2. \A f \in End : Fits(t, f)
  BY <1>1, FitsSame, Zenon DEF Wired, SamePackets
<1>3. t.nalloced = NPackets(t)
  BY <1>1, Zenon DEF Wired, SamePackets, NPackets
<1>4. Wired(t)
  BY <1>1, <1>2, <1>3, Zenon DEF Wired, SamePackets
<1> QED  BY <1>4 DEF t

LEMMA WiredSound ==
  ASSUME NEW s, Wired(s)
  PROVE  Sound(s)
  BY Zenon DEF Wired, Sound, Fits

\* One end is closed, after which nothing asks that the other be stopped.
LEMMA FreeDataWired ==
  ASSUME NEW s, Sound(s), NEW e \in End
  PROVE  LET t == _worker_free_session_data(s, e)
         IN /\ Wired(t) /\ t.live = s.live /\ t.flags = s.flags /\ t.task = s.task
            /\ t.fd[e] = FALSE /\ t.fd[Peer(e)] = s.fd[Peer(e)]
            /\ t.inq[e] = <<>> /\ t.inq[Peer(e)] = s.inq[Peer(e)]
            /\ t.out[e] = <<>> /\ t.out[Peer(e)] = s.out[Peer(e)]
            /\ t.item[Peer(e)] = s.item[Peer(e)]
<1> DEFINE t == _worker_free_session_data(s, e)
<1>0. Memory(s) /\ s.nalloced = NPackets(s) /\ Suits(s, e) /\ Suits(s, Peer(e))
  BY PeerEnd DEF Sound
<1>1. /\ Memory(t)
      /\ t.live = s.live /\ t.flags = s.flags /\ t.task = s.task
      /\ t.fd[e] = FALSE /\ t.fd[Peer(e)] = s.fd[Peer(e)]
      /\ t.inq[e] = <<>> /\ t.inq[Peer(e)] = s.inq[Peer(e)]
      /\ t.out[e] = <<>> /\ t.out[Peer(e)] = s.out[Peer(e)]
      /\ t.item[e] = (IF s.fd[e] THEN Item("CLOSED") ELSE s.item[e])
      /\ t.item[Peer(e)] = s.item[Peer(e)]
      /\ t.nalloced = s.nalloced - Len(s.inq[e]) - Len(s.out[e])
  BY <1>0, FreeDataShape
<1> HIDE DEF t
<1>2. t.item[e] = Item("CLOSED")
  BY <1>0, <1>1 DEF Fits, Halted, Suits
<1>3. Fits(t, e)
  BY <1>0, <1>1, <1>2, ItemClosed DEF Fits, Halted, Suits
<1>4. Fits(t, Peer(e))
  <2>1. Suits(t, Peer(e))
    BY <1>0, <1>1, PeerEnd DEF Suits
  <2>2. Halted(t, Peer(e))
    BY <1>1, PeerEnd DEF Halted
  <2> QED  BY <2>1, <2>2 DEF Fits
<1>5. t.nalloced = NPackets(t)
  <2>1. /\ NPackets(s) = Len(s.inq[e]) + Len(s.out[e]) + Len(s.inq[Peer(e)]) + Len(s.out[Peer(e)])
        /\ NPackets(t) = Len(t.inq[e]) + Len(t.out[e]) + Len(t.inq[Peer(e)]) + Len(t.out[Peer(e)])
    BY <1>0, <1>1, CountByEnd
  <2>2. Len(t.inq[e]) = 0 /\ Len(t.out[e]) = 0
    BY <1>1
  <2>3. /\ Len(s.inq[e]) \in Nat /\ Len(s.out[e]) \in Nat
        /\ Len(s.inq[Peer(e)]) \in Nat /\ Len(s.out[Peer(e)]) \in Nat
    BY <1>0, QueueLens
  <2> DEFINE a == Len(s.inq[e])
             b == Len(s.out[e])
             c == Len(s.inq[Peer(e)])
             d == Len(s.out[Peer(e)])
  <2>4. NPackets(s) = a + b + c + d /\ NPackets(t) = 0 + 0 + c + d
    BY <1>1, <2>1, <2>2, Zenon
  <2>5. t.nalloced = NPackets(s) - a - b
    BY <1>0, <1>1, Zenon
  <2> HIDE DEF a, b, c, d
  <2>6. a \in Nat /\ b \in Nat /\ c \in Nat /\ d \in Nat
    BY <2>3 DEF a, b, c, d
  <2> QED  BY <2>4, <2>5, <2>6
<1>6. ~t.live => t.nalloced = 0 /\ \A f \in End : ~t.fd[f]
  <2> SUFFICES ASSUME ~t.live
               PROVE  t.nalloced = 0 /\ \A f \in End : ~t.fd[f]
    OBVIOUS
  <2>1. s.inq[e] = <<>> /\ s.out[e] = <<>> /\ s.nalloced = 0 /\ \A f \in End : ~s.fd[f]
    BY <1>1, NoPacketLeft DEF Sound
  <2>2. t.nalloced = 0
    <3>1. Len(s.inq[e]) = 0 /\ Len(s.out[e]) = 0
      BY <2>1
    <3>2. t.nalloced = 0 - 0 - 0
      BY <1>1, <2>1, <3>1, Zenon
    <3> QED  BY <3>2
  <2>3. \A f \in End : ~t.fd[f]
    BY <1>1, <2>1, PeerEnd
  <2> QED  BY <2>2, <2>3
<1>7. Wired(t)
  BY <1>1, <1>3, <1>4, <1>5, <1>6, BothEnds, Zenon DEF Wired
<1> QED  BY <1>1, <1>7 DEF t

\* What _worker_free_session makes of session s: both ends are closed now, or the
\* queued task of the peer is to delete it.
Freed(s, t, q, e) ==
  /\ Wired(t) /\ t.flags = s.flags
  /\ t.inq[e] = <<>>
  /\ Queued(q, Peer(e)) =>
       /\ t.live = s.live /\ t.inq[Peer(e)] = s.inq[Peer(e)]
       /\ t.task[Peer(e)] = "DELETE"
       /\ t.fd[e] = FALSE /\ t.fd[Peer(e)] = s.fd[Peer(e)]
  /\ ~Queued(q, Peer(e)) => t.live = FALSE

\* The end of a session, for every queue the other end may be in.
LEMMA FreeWired ==
  ASSUME NEW s, Sound(s), NEW q, NEW e \in End
  PROVE  Freed(s, _worker_free_session(s, q, e), q, e)
<1> DEFINE u == _worker_free_session_data(s, e)
           t == _worker_free_session(s, q, e)
<1>1. /\ Wired(u) /\ u.live = s.live /\ u.flags = s.flags /\ u.task = s.task
      /\ u.fd[e] = FALSE /\ u.fd[Peer(e)] = s.fd[Peer(e)]
      /\ u.inq[e] = <<>> /\ u.inq[Peer(e)] = s.inq[Peer(e)]
      /\ u.out[e] = <<>> /\ u.out[Peer(e)] = s.out[Peer(e)]
      /\ u.item[Peer(e)] = s.item[Peer(e)]
  BY FreeDataWired
<1>2. CASE Queued(q, Peer(e))
  <2>1. t = [u EXCEPT !.task[Peer(e)] = "DELETE"]
    BY <1>2 DEF _worker_free_session, Delayed
  <2> HIDE DEF t, u
  <2>2. Wired(t)
    BY <1>1, <2>1, TaskWired, PeerEnd DEF Task
  <2>3. Memory(u)
    BY <1>1 DEF Wired
  <2>4. /\ t.inq = u.inq /\ t.live = u.live /\ t.fd = u.fd /\ t.flags = u.flags
        /\ t.task[Peer(e)] = "DELETE"
    BY <2>1, <2>3, TaskShape, PeerEnd DEF Task, SamePackets
  <2> QED  BY <1>1, <1>2, <2>2, <2>4 DEF t, Freed
<1>3. CASE ~Queued(q, Peer(e))
  <2> DEFINE v == _worker_free_session_data(u, Peer(e))
  <2>1. t = [v EXCEPT !.live = FALSE]
    BY <1>3 DEF _worker_free_session, Delayed
  <2> HIDE DEF u
  <2>2. /\ Wired(v) /\ v.flags = u.flags
        /\ v.fd[Peer(e)] = FALSE /\ v.fd[e] = u.fd[e]
        /\ v.inq[Peer(e)] = <<>> /\ v.inq[e] = u.inq[e]
        /\ v.out[Peer(e)] = <<>> /\ v.out[e] = u.out[e]
    <3> DEFINE f == Peer(e)
    <3>0. f \in End /\ Peer(f) = e
      BY PeerEnd
    <3> HIDE DEF f
    <3>1. LET w == _worker_free_session_data(u, f)
          IN /\ Wired(w) /\ w.live = u.live /\ w.flags = u.flags /\ w.task = u.task
             /\ w.fd[f] = FALSE /\ w.fd[Peer(f)] = u.fd[Peer(f)]
             /\ w.inq[f] = <<>> /\ w.inq[Peer(f)] = u.inq[Peer(f)]
             /\ w.out[f] = <<>> /\ w.out[Peer(f)] = u.out[Peer(f)]
             /\ w.item[Peer(f)] = u.item[Peer(f)]
      BY <1>1, <3>0, FreeDataWired, WiredSound
    <3> QED  BY <3>0, <3>1, Zenon DEF f
  <2> HIDE DEF v, t
  <2>3. Memory(v) /\ v.nalloced = NPackets(v) /\ \A f \in End : Fits(v, f)
    BY <2>2 DEF Wired
  <2>4. /\ Memory(t) /\ t.live = FALSE /\ t.fd = v.fd /\ t.inq = v.inq /\ t.out = v.out
        /\ t.flags = v.flags /\ t.item = v.item /\ t.nalloced = v.nalloced
    BY <2>1, <2>3 DEF Memory, Session
  <2>5. \A f \in End : Fits(t, f)
    BY <2>3, <2>4, FitsSame, Zenon
  <2>6. t.nalloced = NPackets(t)
    BY <2>3, <2>4, Zenon DEF NPackets
  <2>7. NPackets(t) = 0
    <3>1. NPackets(t) = Len(t.inq[e]) + Len(t.out[e]) + Len(t.inq[Peer(e)]) + Len(t.out[Peer(e)])
      BY <2>4, CountByEnd
    <3>2. t.inq[e] = <<>> /\ t.out[e] = <<>> /\ t.inq[Peer(e)] = <<>> /\ t.out[Peer(e)] = <<>>
      BY <1>1, <2>2, <2>4, Zenon
    <3>3. NPackets(t) = Len(<<>>) + Len(<<>>) + Len(<<>>) + Len(<<>>)
      BY <3>1, <3>2, Zenon
    <3> QED  BY <3>3
  <2>8. \A f \in End : ~t.fd[f]
    BY <1>1, <2>2, <2>4, PeerEnd
  <2>9. Wired(t)
    BY <2>4, <2>5, <2>6, <2>7, <2>8, Zenon DEF Wired
  <2> QED  BY <1>1, <1>3, <2>2, <2>4, <2>9 DEF t, Freed
<1> QED  BY <1>2, <1>3


-----------------------------------------------------------------------------
(* Sending.                                                                *)

\* What a send leaves alone: socket, tasks and input queues.
SendKeeps(s, t) == t.live = s.live /\ t.fd = s.fd /\ t.task = s.task /\ t.inq = s.inq

LEMMA FlagTypes ==
  /\ READ \in SUBSET Mask /\ WRITE \in SUBSET Mask /\ {} \in SUBSET Mask
  /\ "recv" \in Callback /\ "send" \in Callback /\ "handshake" \in Callback /\ "NULL" \in Callback
  /\ \A F \in SUBSET Flag : /\ F \cup {"SHUTRD"} \in SUBSET Flag /\ F \cup {"SHUTWR"} \in SUBSET Flag
                            /\ F \cup {"BLOCKED"} \in SUBSET Flag
                            /\ F \cup {"HANDSHAKE"} \in SUBSET Flag /\ F \ {"HANDSHAKE"} \in SUBSET Flag
  BY DEF READ, WRITE, Mask, Callback, Flag

LEMMA FlagsIn ==
  ASSUME NEW s, Memory(s), NEW e \in End
  PROVE  s.flags[e] \in SUBSET Flag
  BY DEF Memory, Session

LEMMA CountSame ==
  ASSUME NEW s, NEW t, Wired(s), SamePackets(s, t)
  PROVE  t.nalloced = NPackets(t)
  BY Zenon DEF Wired, SamePackets, NPackets

LEMMA TakenWired ==
  ASSUME NEW s, Wired(s), s.live, NEW e \in End, NEW o \in Outcome(s, e)
  PROVE  LET t == Taken(s, e, o)
         IN /\ Wired(t) /\ SendKeeps(s, t) /\ t.flags = s.flags /\ t.item = s.item
            /\ o.err \/ o.m > 0 => "HANDSHAKE" \notin s.flags[e] /\ s.out[e] # <<>>
            /\ ~o.err /\ ~(o.m > 0) /\ "HANDSHAKE" \notin s.flags[e] => t.out[e] = <<>>
<1> DEFINE t == Taken(s, e, o)
<1>0. Memory(s) /\ s.nalloced = NPackets(s) /\ \A f \in End : Fits(s, f)
  BY DEF Wired
<1>1. /\ Memory(t) /\ SameRest(s, t) /\ t.item = s.item /\ t.inq = s.inq
      /\ t.out[Peer(e)] = s.out[Peer(e)]
      /\ t.nalloced = s.nalloced - o.k /\ o.k \in Nat
      /\ Len(t.out[e]) = Len(s.out[e]) - o.k
      /\ o.err \/ o.m > 0 => "HANDSHAKE" \notin s.flags[e] /\ s.out[e] # <<>>
      /\ ~o.err /\ ~(o.m > 0) /\ "HANDSHAKE" \notin s.flags[e] => t.out[e] = <<>>
      /\ s.out[e] = <<>> => t.out[e] = <<>>
  BY <1>0, TakenShape
<1> HIDE DEF t
<1>2. t.live = s.live /\ t.fd = s.fd /\ t.flags = s.flags /\ t.task = s.task
  BY <1>1 DEF SameRest
<1>3. Fits(t, e)
  <2>1. Fits(s, e)
    BY <1>0
  <2> QED  BY <1>1, <1>2, <2>1 DEF Fits, Halted, Suits
<1>4. Fits(t, Peer(e))
  BY <1>0, <1>1, <1>2, PeerEnd, FitsSame, Zenon
<1>5. t.nalloced = NPackets(t)
  <2> DEFINE a == Len(s.inq[e])
             b == Len(s.out[e])
             c == Len(s.inq[Peer(e)])
             d == Len(s.out[Peer(e)])
  <2>1. NPackets(s) = a + b + c + d /\ NPackets(t) = a + Len(t.out[e]) + c + d
    BY <1>0, <1>1, CountByEnd
  <2>2. a \in Nat /\ b \in Nat /\ c \in Nat /\ d \in Nat
    BY <1>0, QueueLens
  <2>3. NPackets(t) = a + (b - o.k) + c + d /\ t.nalloced = NPackets(s) - o.k /\ o.k \in Nat
    BY <1>0, <1>1, <2>1, Zenon
  <2> HIDE DEF a, b, c, d
  <2> QED  BY <2>1, <2>2, <2>3
<1>6. Wired(t)
  BY <1>1, <1>2, <1>3, <1>4, <1>5, BothEnds, Zenon DEF Wired
<1> QED  BY <1>1, <1>2, <1>6 DEF t, SendKeeps

LEMMA BlockedSound ==
  ASSUME NEW s, Wired(s), s.live, NEW e \in End, s.fd[e], s.fd[Peer(e)],
         "HANDSHAKE" \notin s.flags[e],
         ~("SHUTWR" \in s.flags[Peer(e)] /\ "SHUTRD" \in s.flags[e])
  PROVE  LET t == Blocked(s, e)
         IN /\ Sound(t) /\ SendKeeps(s, t) /\ (~Pends(s, e) => Wired(t))
            /\ t.flags[e] = s.flags[e] \cup {"BLOCKED"} /\ t.flags[Peer(e)] = s.flags[Peer(e)]
<1> DEFINE F == s.flags[e] \cup {"BLOCKED"}
           u == [s EXCEPT !.flags[e] = F]
           v == fd_epoll_alloc_update(u, e, WRITE, "send")
           w == [v EXCEPT !.item[Peer(e)].st = "STOP"]
           t == Blocked(s, e)
<1>0. Memory(s) /\ Fits(s, e) /\ Fits(s, Peer(e)) /\ Suits(s, e) /\ Suits(s, Peer(e))
  BY PeerEnd DEF Wired, Fits
<1>1. F \in SUBSET Flag
  BY <1>0, FlagsIn, FlagTypes
<1>2. t = IF Pends(s, e) THEN v ELSE w
  BY DEF Blocked
<1>3. /\ Memory(u) /\ SamePackets(s, u)
      /\ u.live = s.live /\ u.fd = s.fd /\ u.task = s.task /\ u.item = s.item
      /\ u.flags[e] = F /\ u.flags[Peer(e)] = s.flags[Peer(e)]
  BY <1>0, <1>1, FlagShape
<1> HIDE DEF u
<1>4. /\ Memory(v) /\ SamePackets(u, v) /\ SameRest(u, v)
      /\ v.item[e].st = u.item[e].st /\ v.item[e].cb = "send"
      /\ v.item[Peer(e)] = u.item[Peer(e)]
  BY <1>3, UpdateShape, FlagTypes
<1> HIDE DEF v
<1>5. /\ Memory(w) /\ SamePackets(v, w) /\ SameRest(v, w)
      /\ w.item[Peer(e)].st = "STOP" /\ w.item[Peer(e)].cb = v.item[Peer(e)].cb
      /\ w.item[e] = v.item[e]
  <2> DEFINE f == Peer(e)
  <2>1. f \in End /\ Peer(f) = e
    BY PeerEnd
  <2> HIDE DEF f
  <2>2. LET z == [v EXCEPT !.item[f].st = "STOP"]
        IN /\ Memory(z) /\ SamePackets(v, z) /\ SameRest(v, z)
           /\ z.item[f].st = "STOP" /\ z.item[f].cb = v.item[f].cb
           /\ z.item[Peer(f)] = v.item[Peer(f)]
    BY <1>4, <2>1, StopShape
  <2> QED  BY <2>1, <2>2, Zenon DEF f
<1> HIDE DEF w, t
<1>6. /\ t.live = s.live /\ t.fd = s.fd /\ t.task = s.task /\ SamePackets(s, t) /\ Memory(t)
      /\ t.flags[e] = F /\ t.flags[Peer(e)] = s.flags[Peer(e)]
      /\ t.item[e].st = s.item[e].st /\ t.item[e].cb = "send"
      /\ t.item[Peer(e)].cb = s.item[Peer(e)].cb
      /\ ~Pends(s, e) => t.item[Peer(e)].st = "STOP"
  <2>1. CASE Pends(s, e)
    BY <1>2, <1>3, <1>4, <2>1, Zenon DEF SamePackets, SameRest
  <2>2. CASE ~Pends(s, e)
    BY <1>2, <1>3, <1>4, <1>5, <2>2, Zenon DEF SamePackets, SameRest
  <2> QED  BY <2>1, <2>2
<1>7. t.nalloced = NPackets(t)
  BY <1>6, CountSame
<1>8. Suits(t, e)
  BY <1>0, <1>6 DEF Suits, SamePackets
<1>9. Suits(t, Peer(e))
  BY <1>0, <1>6, PeerEnd DEF Suits, SamePackets
<1>10. Sound(t)
  BY <1>6, <1>7, <1>8, <1>9, PeerEnd, Zenon DEF Sound
<1>11. ASSUME ~Pends(s, e) PROVE Wired(t)
  <2>1. Fits(t, e)
    BY <1>0, <1>6, <1>8 DEF Fits, Halted
  <2>2. Fits(t, Peer(e))
    BY <1>0, <1>6, <1>9, <1>11, PeerEnd DEF Fits, Halted
  <2> QED  BY <1>6, <1>7, <2>1, <2>2, BothEnds, Zenon DEF Wired
<1> QED  BY <1>6, <1>10, <1>11, Zenon DEF SendKeeps, SamePackets, t

LEMMA PassEndWired ==
  ASSUME NEW s, Wired(s), s.live, NEW e \in End, "HANDSHAKE" \notin s.flags[e] => s.out[e] = <<>>
  PROVE  LET t == PassEnd(s, e)
         IN /\ Wired(t) /\ SendKeeps(s, t) /\ t.item = s.item
            /\ t.flags[e] = s.flags[e]
            /\ \/ t.flags[Peer(e)] = s.flags[Peer(e)]
               \/ /\ t.flags[Peer(e)] = s.flags[Peer(e)] \cup {"SHUTWR"}
                  /\ "SHUTRD" \in s.flags[Peer(e)]
<1> DEFINE F == s.flags[Peer(e)] \cup {"SHUTWR"}
           t == [s EXCEPT !.flags[Peer(e)] = F]
           C == "SHUTRD" \in s.flags[Peer(e)] /\ "HANDSHAKE" \notin s.flags[e]
<1>0. Memory(s) /\ Fits(s, e) /\ Fits(s, Peer(e))
  BY PeerEnd DEF Wired
<1>1. CASE ~C
  <2>1. PassEnd(s, e) = s
    BY <1>1 DEF PassEnd
  <2> QED  BY <2>1, Zenon DEF SendKeeps
<1>2. CASE C
  <2>1. PassEnd(s, e) = t
    BY <1>2 DEF PassEnd
  <2>2. F \in SUBSET Flag
    BY <1>0, FlagsIn, FlagTypes, PeerEnd
  <2>3. /\ Memory(t) /\ SamePackets(s, t)
        /\ t.live = s.live /\ t.fd = s.fd /\ t.task = s.task /\ t.item = s.item
        /\ t.flags[Peer(e)] = F /\ t.flags[e] = s.flags[e]
    BY <1>0, <2>2, PeerEnd DEF Memory, Session, SamePackets
  <2> HIDE DEF t
  <2>4. t.nalloced = NPackets(t)
    BY <2>3, CountSame
  <2>5. Fits(t, e)
    BY <1>0, <1>2, <2>3 DEF Fits, Halted, Suits, SamePackets
  <2>6. Fits(t, Peer(e))
    BY <1>0, <1>2, <2>3, PeerEnd DEF Fits, Halted, Suits, SamePackets
  <2>7. Wired(t)
    BY <2>3, <2>4, <2>5, <2>6, BothEnds, Zenon DEF Wired
  <2> QED  BY <1>2, <2>1, <2>3, <2>7, Zenon DEF SendKeeps, SamePackets
<1> QED  BY <1>1, <1>2


\* The flags that a send to e may change: BLOCKED, and SHUTWR of a peer that was
\* closed.
Marks(s, t, e) ==
  /\ \A f \in End : "SHUTRD" \in t.flags[f] <=> "SHUTRD" \in s.flags[f]
  /\ "SHUTWR" \in t.flags[e] <=> "SHUTWR" \in s.flags[e]
  /\ "SHUTWR" \in t.flags[Peer(e)] =>
       "SHUTWR" \in s.flags[Peer(e)] \/ "SHUTRD" \in s.flags[Peer(e)]

LEMMA SendNowSound ==
  ASSUME NEW s, Wired(s), s.live, NEW e \in End, NEW o \in Outcome(s, e), s.fd[e], s.fd[Peer(e)],
         ~("SHUTWR" \in s.flags[Peer(e)] /\ "SHUTRD" \in s.flags[e])
  PROVE  LET r == SendNow(s, e, o)
         IN Sound(r.s) /\ (r.ok => Wired(r.s)) /\ SendKeeps(s, r.s) /\ Marks(s, r.s, e)
<1> DEFINE t == Taken(s, e, o)
           r == SendNow(s, e, o)
<1>1. /\ Wired(t) /\ SendKeeps(s, t) /\ t.flags = s.flags /\ t.item = s.item
      /\ o.err \/ o.m > 0 => "HANDSHAKE" \notin s.flags[e] /\ s.out[e] # <<>>
      /\ ~o.err /\ ~(o.m > 0) /\ "HANDSHAKE" \notin s.flags[e] => t.out[e] = <<>>
  BY TakenWired
<1>2. t.live /\ t.fd[e] /\ t.fd[Peer(e)]
  BY <1>1 DEF SendKeeps
<1>3. CASE o.err
  <2>0. ~(o.m > 0)
    <3>1. /\ o.k \in Nat /\ o.m \in Nat /\ o.k <= Len(s.out[e])
          /\ \/ "HANDSHAKE" \in s.flags[e] /\ o.k = 0 /\ o.m = 0 /\ o.err = FALSE
             \/ "HANDSHAKE" \notin s.flags[e] /\ o.k = Len(s.out[e]) /\ o.m = 0 /\ o.err = FALSE
             \/ /\ "HANDSHAKE" \notin s.flags[e] /\ o.k < Len(s.out[e]) /\ o.err = FALSE
                /\ o.m > 0 /\ o.m < Len(s.out[e][o.k + 1])
             \/ "HANDSHAKE" \notin s.flags[e] /\ o.k < Len(s.out[e]) /\ o.m = 0 /\ o.err = TRUE
      BY OutcomeCases DEF Wired
    <3>2. o.m = 0
      BY <1>3, <3>1
    <3> QED  BY <3>2
  <2>1. r.s = t
    BY <1>3, <2>0 DEF SendNow
  <2> HIDE DEF t, r
  <2>2. Marks(s, t, e)
    BY <1>1, Zenon DEF Marks
  <2> QED  BY <1>1, <2>1, <2>2, WiredSound, Zenon DEF r
<1>4. CASE ~o.err /\ o.m > 0
  <2>1. r.s = Blocked(t, e) /\ r.ok = ~Pends(t, e)
    BY <1>4 DEF SendNow
  <2> HIDE DEF t, r
  <2> DEFINE u == Blocked(t, e)
  <2>2. /\ "HANDSHAKE" \notin t.flags[e]
        /\ ~("SHUTWR" \in t.flags[Peer(e)] /\ "SHUTRD" \in t.flags[e])
    BY <1>1, <1>4, Zenon
  <2>3. /\ Sound(u) /\ SendKeeps(t, u) /\ (~Pends(t, e) => Wired(u))
        /\ u.flags[e] = t.flags[e] \cup {"BLOCKED"} /\ u.flags[Peer(e)] = t.flags[Peer(e)]
    BY <1>1, <1>2, <2>2, BlockedSound
  <2> HIDE DEF u
  <2>4. Marks(s, u, e)
    BY <1>1, <2>3, PeerEnd DEF Marks
  <2>5. SendKeeps(s, u)
    BY <1>1, <2>3, Zenon DEF SendKeeps
  <2>6. r.s = u /\ r.ok = ~Pends(t, e)
    BY <2>1 DEF u
  <2> QED  BY <2>3, <2>4, <2>5, <2>6, Zenon DEF r
<1>5. CASE ~o.err /\ ~(o.m > 0)
  <2>1. r.s = PassEnd(t, e)
    <3>1. SendNow(s, e, o) = [s |-> PassEnd(t, e), ok |-> TRUE]
      BY <1>5, Zenon DEF SendNow
    <3> QED  BY <3>1
  <2> HIDE DEF t, r
  <2> DEFINE u == PassEnd(t, e)
  <2>2. "HANDSHAKE" \notin t.flags[e] => t.out[e] = <<>>
    BY <1>1, <1>5, Zenon
  <2>3. /\ Wired(u) /\ SendKeeps(t, u) /\ u.item = t.item
        /\ u.flags[e] = t.flags[e]
        /\ \/ u.flags[Peer(e)] = t.flags[Peer(e)]
           \/ /\ u.flags[Peer(e)] = t.flags[Peer(e)] \cup {"SHUTWR"}
              /\ "SHUTRD" \in t.flags[Peer(e)]
    BY <1>1, <1>2, <2>2, PassEndWired
  <2> HIDE DEF u
  <2>4. Marks(s, u, e)
    BY <1>1, <2>3, PeerEnd DEF Marks
  <2>5. SendKeeps(s, u)
    BY <1>1, <2>3, Zenon DEF SendKeeps
  <2>6. r.s = u
    BY <2>1 DEF u
  <2> QED  BY <2>3, <2>4, <2>5, <2>6, WiredSound, Zenon DEF r
<1> QED  BY <1>3, <1>4, <1>5

LEMMA ParsedWired ==
  ASSUME NEW s, Wired(s), s.live, NEW e \in End,
         ~("SHUTWR" \in s.flags[e] /\ "SHUTRD" \in s.flags[Peer(e)])
  PROVE  LET t == _worker_parse_data(s, e)
         IN /\ Wired(t) /\ SameRest(s, t) /\ t.item = s.item
            /\ t.inq[e] = <<>> /\ t.inq[Peer(e)] = s.inq[Peer(e)]
<1> DEFINE t == _worker_parse_data(s, e)
<1>0. Memory(s) /\ s.nalloced = NPackets(s) /\ Fits(s, e) /\ Fits(s, Peer(e))
  BY PeerEnd DEF Wired
<1>1. /\ Memory(t) /\ SameRest(s, t) /\ t.item = s.item
      /\ t.inq[e] = <<>> /\ t.inq[Peer(e)] = s.inq[Peer(e)]
      /\ t.out[e] = s.out[e]
      /\ t.nalloced - Len(t.out[Peer(e)]) = s.nalloced - Len(s.out[Peer(e)]) - Len(s.inq[e])
  BY <1>0, ParsedShape
<1> HIDE DEF t
<1>2. t.live = s.live /\ t.fd = s.fd /\ t.flags = s.flags
  BY <1>1 DEF SameRest
<1>3. Fits(t, e)
  BY <1>0, <1>1, <1>2, FitsSame, Zenon
<1>4. Fits(t, Peer(e))
  BY <1>0, <1>1, <1>2, PeerEnd DEF Fits, Halted, Suits
<1>5. t.nalloced = NPackets(t)
  <2> DEFINE a == Len(s.inq[e])
             b == Len(s.out[e])
             c == Len(s.inq[Peer(e)])
             d == Len(s.out[Peer(e)])
             z == Len(t.out[Peer(e)])
             n == t.nalloced
  <2>1. NPackets(s) = a + b + c + d /\ NPackets(t) = Len(t.inq[e]) + b + c + z
    BY <1>0, <1>1, CountByEnd
  <2>2. a \in Nat /\ b \in Nat /\ c \in Nat /\ d \in Nat /\ z \in Nat /\ n \in Int
    BY <1>0, <1>1, QueueLens DEF Memory, Session
  <2>3. Len(t.inq[e]) = 0
    BY <1>1
  <2>4. NPackets(t) = 0 + b + c + z
    BY <2>1, <2>3, Zenon
  <2>5. n - z = NPackets(s) - d - a
    BY <1>0, <1>1, Zenon
  <2> HIDE DEF a, b, c, d, z, n
  <2>6. n = NPackets(t)
    BY <2>1, <2>2, <2>4, <2>5
  <2> QED  BY <2>6 DEF n
<1>6. Wired(t)
  BY <1>1, <1>2, <1>3, <1>4, <1>5, BothEnds, Zenon DEF Wired
<1> QED  BY <1>1, <1>6 DEF t


-----------------------------------------------------------------------------
(* A task.                                                                 *)

\* What a task may leave: session s, the queue q, and n puts into the pool.
AfterTask(s, q, n) ==
  /\ Wired(s) /\ Linked(s, q)
  /\ n = IF s.live THEN 0 ELSE 1
  /\ \A f \in End : s.live /\ ~s.fd[f] => q = <<Peer(f)>> /\ s.task[Peer(f)] = "DELETE"

LEMMA Unqueued ==
  ASSUME NEW e \in End
  PROVE  /\ ~Queued(<<>>, e) /\ ~Queued(<<Peer(e)>>, e) /\ Queued(<<Peer(e)>>, Peer(e))
         /\ <<>> \in Queues /\ <<Peer(e)>> \in Queues
  BY QueuedCases, QueueMade, PeerEnd, Zenon

\* The session is freed by the task of e: now, or by the task of the peer.
LEMMA FreeAfter ==
  ASSUME NEW s, Sound(s), s.live, NEW e \in End, NEW q, q = <<>> \/ q = <<Peer(e)>>,
         q # <<>> => s.fd[Peer(e)] /\ ~BothShut(s) /\ Len(s.inq[Peer(e)]) <= 1
  PROVE  AfterTask(_worker_free_session(s, q, e), q, Puts(q, e))
<1> DEFINE t == _worker_free_session(s, q, e)
<1>1. /\ Wired(t) /\ t.flags = s.flags
      /\ t.inq[e] = <<>>
      /\ Queued(q, Peer(e)) =>
           /\ t.live = s.live /\ t.inq[Peer(e)] = s.inq[Peer(e)]
           /\ t.task[Peer(e)] = "DELETE"
           /\ t.fd[e] = FALSE /\ t.fd[Peer(e)] = s.fd[Peer(e)]
      /\ ~Queued(q, Peer(e)) => t.live = FALSE
  BY FreeWired DEF Freed
<1> HIDE DEF t
<1>2. CASE q = <<>>
  <2>1. ~Queued(q, Peer(e)) /\ t.live = FALSE /\ q \in Queues
    BY <1>1, <1>2, Unqueued, PeerEnd, Zenon
  <2>2. Puts(q, e) = 1
    BY <2>1 DEF Puts, Delayed
  <2>3. \A f \in End : ~Queued(q, f) /\ t.inq[f] = <<>>
    BY <1>1, <1>2, <2>1, NoPacketLeft, WiredSound, Unqueued
  <2>4. Linked(t, q)
    BY <1>2, <2>1, <2>3 DEF Linked
  <2> QED  BY <1>1, <2>1, <2>2, <2>4 DEF AfterTask, t
<1>3. CASE q = <<Peer(e)>>
  <2>1. Queued(q, Peer(e)) /\ ~Queued(q, e) /\ q \in Queues
    BY <1>3, Unqueued, Zenon
  <2>0. q # <<>>
    BY <1>3
  <2>2. Puts(q, e) = 0
    BY <2>1 DEF Puts, Delayed
  <2>3. ~BothShut(t)
    BY <1>1, <2>0, Zenon DEF BothShut
  <2>4. Runs(t, Peer(e))
    BY <1>1, <2>1 DEF Runs
  <2>5. Len(t.inq[e]) <= 1 /\ Len(t.inq[Peer(e)]) <= 1
    BY <1>1, <2>0, <2>1
  <2>6. Linked(t, q)
    <3>1. ASSUME NEW f \in End
          PROVE  /\ Queued(q, f) => Runs(t, f)
                 /\ ~Queued(q, f) => t.inq[f] = <<>>
                 /\ Queued(q, f) /\ Queued(q, Peer(f)) => "SHUTWR" \notin t.flags[f]
                 /\ Len(t.inq[f]) <= 1
      <4>1. f = e \/ f = Peer(e)
        BY PeerEnd, Zenon
      <4>2. Peer(Peer(e)) = e
        BY PeerEnd
      <4> QED  BY <1>1, <2>1, <2>4, <2>5, <4>1, <4>2, Zenon
    <3> QED  BY <1>1, <2>1, <2>3, <3>1, Zenon DEF Linked
  <2>7. \A f \in End : ~t.fd[f] => q = <<Peer(f)>> /\ t.task[Peer(f)] = "DELETE"
    BY <1>1, <1>3, <2>0, <2>1, PeerEnd, Zenon
  <2> QED  BY <1>1, <2>1, <2>2, <2>6, <2>7 DEF AfterTask, t
<1> QED  BY <1>2, <1>3

\* The task of e sent to g and succeeded, and did not close the second end: the
\* session goes on.
LEMMA GoesOn ==
  ASSUME NEW s, Wired(s), s.live, NEW e \in End, NEW q, q = <<>> \/ q = <<Peer(e)>>, ~BothShut(s),
         \A f \in End : s.fd[f], s.inq[e] = <<>>,
         q = <<>> => s.inq[Peer(e)] = <<>>,
         Len(s.inq[Peer(e)]) <= 1,
         q # <<>> => Runs(s, Peer(e))
  PROVE  AfterTask(s, q, 0)
<1>1. Len(s.inq[e]) <= 1
  OBVIOUS
<1>0. (q = <<>> \/ q = <<Peer(e)>>) /\ <<Peer(e)>> # <<>>
  OBVIOUS
<1>a. /\ ~Queued(<<>>, e) /\ ~Queued(<<Peer(e)>>, e) /\ Queued(<<Peer(e)>>, Peer(e))
      /\ <<>> \in Queues /\ <<Peer(e)>> \in Queues /\ ~Queued(<<>>, Peer(e))
  BY Unqueued, PeerEnd
<1>2. q \in Queues /\ ~Queued(q, e)
  <2>1. CASE q = <<>>
    BY <1>a, <2>1, Zenon
  <2>2. CASE q = <<Peer(e)>>
    BY <1>a, <2>2, Zenon
  <2> QED  BY <1>0, <2>1, <2>2
<1>3. ASSUME NEW f \in End
      PROVE  /\ Queued(q, f) => Runs(s, f)
             /\ ~Queued(q, f) => s.inq[f] = <<>>
             /\ Queued(q, f) /\ Queued(q, Peer(f)) => "SHUTWR" \notin s.flags[f]
             /\ Len(s.inq[f]) <= 1
  <2>1. f = e \/ f = Peer(e)
    BY PeerEnd, Zenon
  <2>2. Peer(Peer(e)) = e /\ Peer(e) \in End
    BY PeerEnd
  <2>3. Queued(q, Peer(e)) <=> q # <<>>
    <3>1. CASE q = <<>>
      BY <1>a, <3>1, Zenon
    <3>2. CASE q = <<Peer(e)>>
      BY <1>0, <1>a, <3>2, Zenon
    <3> QED  BY <1>0, <3>1, <3>2
  <2> QED  BY <1>1, <1>2, <2>1, <2>2, <2>3, Zenon
<1>4. Linked(s, q)
  BY <1>2, <1>3, Zenon DEF Linked
<1> QED  BY <1>4 DEF AfterTask

\* What a task that sends leaves: session s after the outcome o.
LEMMA SendAfter ==
  ASSUME NEW s, Wired(s), s.live, NEW e \in End, NEW g \in End, NEW q, q = <<>> \/ q = <<Peer(e)>>,
         NEW o \in Outcome(s, g),
         \A f \in End : s.fd[f], s.inq[e] = <<>>,
         q = <<>> => s.inq[Peer(e)] = <<>>,
         Len(s.inq[Peer(e)]) <= 1,
         q # <<>> => Runs(s, Peer(e)),
         ~("SHUTWR" \in s.flags[Peer(g)] /\ "SHUTRD" \in s.flags[g]),
         g = e => "SHUTRD" \notin s.flags[e],
         q # <<>> /\ g = Peer(e) => "SHUTWR" \notin s.flags[Peer(e)]
  PROVE  LET r == SendNow(s, g, o)
         IN /\ AfterTask(_worker_free_session(r.s, q, e), q, Puts(q, e))
            /\ r.ok /\ ~BothShut(r.s) => AfterTask(r.s, q, 0)
<1> DEFINE t == SendNow(s, g, o).s
           ok == SendNow(s, g, o).ok
<1>1. Sound(t) /\ (ok => Wired(t)) /\ SendKeeps(s, t) /\ Marks(s, t, g)
  BY SendNowSound, PeerEnd
<1> HIDE DEF t, ok
<1>2. /\ t.live /\ (\A f \in End : t.fd[f]) /\ t.inq = s.inq /\ t.task = s.task
      /\ Peer(e) \in End /\ Peer(Peer(e)) = e
  BY <1>1, PeerEnd, Zenon DEF SendKeeps
<1>3. Memory(s) /\ Fits(s, e) /\ Fits(s, Peer(e))
  BY PeerEnd DEF Wired
<1>4. BothShut(t) => q = <<>>
  <2> SUFFICES ASSUME BothShut(t), q # <<>>
               PROVE  FALSE
    OBVIOUS
  <2>1. "SHUTWR" \in t.flags[e] /\ "SHUTWR" \in t.flags[Peer(e)]
    BY <1>2, Zenon DEF BothShut
  <2>2. CASE g = e
    <3>1. "SHUTWR" \in s.flags[e]
      BY <1>1, <2>1, <2>2 DEF Marks
    <3> QED  BY <1>3, <2>2, <3>1 DEF Fits, Halted, Suits
  <2>3. CASE g = Peer(e)
    BY <1>1, <2>1, <2>3 DEF Marks
  <2> QED  BY <2>2, <2>3, PeerEnd, Zenon
<1>5. q # <<>> => Runs(t, Peer(e))
  <2> SUFFICES ASSUME q # <<>>
               PROVE  Runs(t, Peer(e))
    OBVIOUS
  <2>0. Runs(s, Peer(e))
    OBVIOUS
  <2>1. \A f \in End : "SHUTRD" \in t.flags[f] <=> "SHUTRD" \in s.flags[f]
    BY <1>1 DEF Marks
  <2>2. CASE g = e
    BY <1>2, <2>0, <2>1, <2>2 DEF Runs
  <2>3. CASE g = Peer(e)
    <3>1. "SHUTWR" \notin t.flags[Peer(e)]
      BY <1>1, <2>3 DEF Marks
    <3> QED  BY <1>2, <2>0, <2>1, <3>1 DEF Runs
  <2> QED  BY <2>2, <2>3, PeerEnd, Zenon
<1>6. ok /\ ~BothShut(t) => AfterTask(t, q, 0)
  BY <1>1, <1>2, <1>5, GoesOn
<1>7. AfterTask(_worker_free_session(t, q, e), q, Puts(q, e))
  <2>1. q # <<>> => t.fd[Peer(e)] /\ ~BothShut(t) /\ Len(t.inq[Peer(e)]) <= 1
    BY <1>2, <1>4, Zenon
  <2>2. Sound(t) /\ t.live
    BY <1>1, <1>2
  <2> QED  BY <2>1, <2>2, FreeAfter, Zenon
<1> QED  BY <1>6, <1>7, Zenon DEF t, ok


LEMMA ModWord ==
  ASSUME NEW a \in Int
  PROVE  a % Word \in 0 .. Word - 1
<1>1. Word \in Nat /\ Word > 0
  BY ProcWorkAssumption
<1> QED  BY <1>1

LEMMA AfterStep ==
  ASSUME IInv, x.live, phase = "task", NEW s, NEW q, NEW n,
         AfterTask(s, q, n), Becomes(s, q, n), UNCHANGED <<phase, batch, hung, nsess>>
  PROVE  IInv'
<1>1. /\ batch \in Batches /\ hung \subseteq End /\ nsess \in 0 .. MaxSess /\ nlive \in 0 .. Word - 1
      /\ puts = 0 /\ \A f \in End : batch[f] = {}
  BY DEF IInv, Loop
<1>2. /\ x' = s /\ taskq' = q /\ puts' = puts + n /\ nlive' = (nlive - n) % Word
      /\ phase' = "task" /\ batch' = batch /\ hung' = hung /\ nsess' = nsess
  BY DEF Becomes
<1>3. /\ Wired(s) /\ Linked(s, q) /\ n = (IF s.live THEN 0 ELSE 1)
      /\ \A f \in End : s.live /\ ~s.fd[f] => q = <<Peer(f)>> /\ s.task[Peer(f)] = "DELETE"
  BY DEF AfterTask
<1>4. n \in Int /\ nlive \in Int
  BY <1>1, <1>3, ProcWorkAssumption
<1>5. nlive' \in 0 .. Word - 1
  BY <1>2, <1>4, ModWord
<1>6. puts' = IF s.live THEN 0 ELSE 1
  BY <1>1, <1>2, <1>3
<1>7. Wired(x)' /\ Linked(x, taskq)'
  <2>1. Wired(x') /\ Linked(x', taskq')
    BY <1>2, <1>3, Zenon
  <2> QED  BY <2>1 DEF Wired, Linked, Memory, NPackets, Fits, Halted, Suits, Runs, BothShut, Queued, Session
<1>8. \A f \in End : x'.live /\ ~x'.fd[f] => taskq' = <<Peer(f)>> /\ x'.task[Peer(f)] = "DELETE"
  BY <1>2, <1>3, Zenon
<1>9. Loop'
  BY <1>1, <1>2, <1>5, <1>6, <1>8 DEF Loop
<1> QED  BY <1>7, <1>9 DEF IInv


\* The state in which a task runs.
LEMMA TaskState ==
  ASSUME IInv, phase = "task", taskq # <<>>, NEW e \in End, Head(taskq) = e
  PROVE  LET q == Tail(taskq)
         IN /\ Wired(x) /\ x.live /\ ~BothShut(x)
            /\ q = <<>> \/ q = <<Peer(e)>>
            /\ Runs(x, e)
            /\ q = <<>> => x.inq[Peer(e)] = <<>>
            /\ q # <<>> => Runs(x, Peer(e)) /\ "SHUTWR" \notin x.flags[Peer(e)]
            /\ Len(x.inq[Peer(e)]) <= 1
            /\ q # <<>> \/ x.task[e] # "DELETE" => \A f \in End : x.fd[f]
<1> DEFINE q == Tail(taskq)
<1>1. /\ Wired(x) /\ taskq \in Queues /\ x.live /\ ~BothShut(x)
      /\ \A f \in End : /\ Queued(taskq, f) => Runs(x, f)
                        /\ ~Queued(taskq, f) => x.inq[f] = <<>>
                        /\ Queued(taskq, f) /\ Queued(taskq, Peer(f)) => "SHUTWR" \notin x.flags[f]
                        /\ Len(x.inq[f]) <= 1
  BY DEF IInv, Linked
<1>2. \A f \in End : x.live /\ ~x.fd[f] => taskq = <<Peer(f)>> /\ x.task[Peer(f)] = "DELETE"
  BY DEF IInv, Loop
<1>3. /\ Queued(taskq, e) /\ ~Queued(q, e)
      /\ q \in Queues
      /\ Queued(taskq, Peer(e)) <=> Queued(q, Peer(e))
      /\ \/ q = <<>> /\ ~Queued(q, Peer(e)) /\ taskq = <<e>>
         \/ q = <<Peer(e)>> /\ Queued(q, Peer(e)) /\ taskq = <<e, Peer(e)>>
  BY <1>1, QueueTail
<1>4. Peer(e) \in End /\ Peer(Peer(e)) = e /\ <<Peer(e)>> # <<>>
  BY PeerEnd
<1> HIDE DEF q
<1>5. q # <<>> => q = <<Peer(e)>> /\ Queued(taskq, Peer(e)) /\ taskq = <<e, Peer(e)>>
  BY <1>3, Zenon
<1>6. q = <<>> => ~Queued(taskq, Peer(e))
  BY <1>3, <1>4, Zenon
<1>7. q # <<>> => \A f \in End : x.fd[f]
  <2> SUFFICES ASSUME q # <<>>, NEW f \in End, ~x.fd[f]
               PROVE  FALSE
    OBVIOUS
  <2>1. taskq = <<e, Peer(e)>> /\ taskq = <<Peer(f)>>
    BY <1>1, <1>2, <1>5, Zenon
  <2> DEFINE g == Peer(e)
             h == Peer(f)
  <2> HIDE DEF g, h
  <2>2. Len(<<e, g>>) = 2 /\ Len(<<h>>) = 1
    OBVIOUS
  <2> QED  BY <2>1, <2>2 DEF g, h
<1>8. x.task[e] # "DELETE" => \A f \in End : x.fd[f]
  <2> SUFFICES ASSUME x.task[e] # "DELETE", NEW f \in End, ~x.fd[f]
               PROVE  FALSE
    OBVIOUS
  <2>1. taskq = <<Peer(f)>> /\ x.task[Peer(f)] = "DELETE"
    BY <1>1, <1>2, Zenon
  <2>2. Head(taskq) = Peer(f)
    BY <2>1
  <2> QED  BY <2>1, <2>2, Zenon
<1>9. /\ Runs(x, e)
      /\ q = <<>> => x.inq[Peer(e)] = <<>>
      /\ q # <<>> => Runs(x, Peer(e)) /\ "SHUTWR" \notin x.flags[Peer(e)]
      /\ Len(x.inq[Peer(e)]) <= 1
  BY <1>1, <1>3, <1>4, <1>5, <1>6, Zenon
<1>10. q = <<>> \/ q = <<Peer(e)>>
  BY <1>3, Zenon
<1> QED  BY <1>1, <1>7, <1>8, <1>9, <1>10, Zenon DEF q

LEMMA TaskStep ==
  ASSUME IInv, NEW e \in End, _worker_run_task(e)
  PROVE  IInv'
<1> DEFINE q == Tail(taskq)
           parsed == _worker_parse_data(x, e)
<1>0. phase = "task" /\ taskq # <<>> /\ Head(taskq) = e /\ UNCHANGED <<phase, batch, hung, nsess>>
  BY DEF _worker_run_task
<1>1. /\ Wired(x) /\ x.live /\ ~BothShut(x)
      /\ q = <<>> \/ q = <<Peer(e)>>
      /\ Runs(x, e)
      /\ q = <<>> => x.inq[Peer(e)] = <<>>
      /\ q # <<>> => Runs(x, Peer(e)) /\ "SHUTWR" \notin x.flags[Peer(e)]
      /\ Len(x.inq[Peer(e)]) <= 1
      /\ q # <<>> \/ x.task[e] # "DELETE" => \A f \in End : x.fd[f]
  BY <1>0, TaskState
<1>2. x.task[e] \in {"DELETE", "PARSE", "SEND"} /\ Peer(e) \in End /\ Peer(Peer(e)) = e
  BY <1>1, PeerEnd DEF Wired, Memory, Session, Runs, Task
<1>3. \E s, n : AfterTask(s, q, n) /\ Becomes(s, q, n)
  <2>1. CASE x.task[e] = "DELETE"
    <3> DEFINE t == _worker_free_session(x, q, e)
               n == Puts(q, e)
    <3>1. Finish(t, q, e, n)
      BY <2>1 DEF _worker_run_task
    <3>2. q # <<>> => x.fd[Peer(e)] /\ ~BothShut(x) /\ Len(x.inq[Peer(e)]) <= 1
      BY <1>1, <1>2, Zenon
    <3>3. AfterTask(t, q, n)
      BY <1>1, <3>2, FreeAfter, WiredSound, Zenon
    <3>4. t.flags = x.flags
      <4>1. Freed(x, t, q, e)
        BY <1>1, FreeWired, WiredSound
      <4> QED  BY <4>1 DEF Freed
    <3> HIDE DEF t, n
    <3>5. ~BothShut(t)
      BY <1>1, <3>4, Zenon DEF BothShut
    <3>6. Becomes(t, q, n)
      BY <3>1, <3>5, Zenon DEF Finish
    <3> QED  BY <3>3, <3>6, Zenon
  <2>2. ASSUME NEW s, NEW g \in End, NEW o \in Outcome(s, g),
               LET r == SendNow(s, g, o)
               IN /\ AfterTask(_worker_free_session(r.s, q, e), q, Puts(q, e))
                  /\ r.ok /\ ~BothShut(r.s) => AfterTask(r.s, q, 0),
               LET r == SendNow(s, g, o)
               IN IF r.ok THEN Finish(r.s, q, e, 0)
                  ELSE Becomes(_worker_free_session(r.s, q, e), q, Puts(q, e))
        PROVE  \E t, n : AfterTask(t, q, n) /\ Becomes(t, q, n)
    <3> DEFINE r == SendNow(s, g, o)
               t == _worker_free_session(r.s, q, e)
    <3> HIDE DEF r, q
    <3>1. /\ AfterTask(t, q, Puts(q, e)) /\ (r.ok /\ ~BothShut(r.s) => AfterTask(r.s, q, 0))
          /\ IF r.ok THEN Finish(r.s, q, e, 0) ELSE Becomes(t, q, Puts(q, e))
      BY <2>2 DEF r
    <3> HIDE DEF t
    <3>2. CASE ~r.ok
      BY <3>1, <3>2, Zenon
    <3>3. CASE r.ok /\ BothShut(r.s)
      <4>1. Becomes(t, q, 0 + Puts(q, e))
        BY <3>1, <3>3, Zenon DEF Finish, t
      <4>2. 0 + Puts(q, e) = Puts(q, e)
        BY DEF Puts
      <4> QED  BY <3>1, <4>1, <4>2, Zenon
    <3>4. CASE r.ok /\ ~BothShut(r.s)
      <4>1. Becomes(r.s, q, 0)
        BY <3>1, <3>4, Zenon DEF Finish
      <4> QED  BY <3>1, <3>4, <4>1, Zenon
    <3> QED  BY <3>2, <3>3, <3>4
  <2>3. CASE x.task[e] = "PARSE"
    <3>0. \A f \in End : x.fd[f]
      BY <1>1, <2>3
    <3>1. PICK o \in Outcome(parsed, Peer(e)) :
             LET r == SendNow(parsed, Peer(e), o)
             IN IF r.ok THEN Finish(r.s, q, e, 0)
                ELSE Becomes(_worker_free_session(r.s, q, e), q, Puts(q, e))
      BY <2>3 DEF _worker_run_task
    <3>2. ~("SHUTWR" \in x.flags[e] /\ "SHUTRD" \in x.flags[Peer(e)])
      BY <1>1, <2>3 DEF Runs
    <3>3. /\ Wired(parsed) /\ SameRest(x, parsed) /\ parsed.item = x.item
          /\ parsed.inq[e] = <<>> /\ parsed.inq[Peer(e)] = x.inq[Peer(e)]
      BY <1>1, <3>2, ParsedWired
    <3> HIDE DEF parsed, q
    <3>4. /\ parsed.live /\ \A f \in End : parsed.fd[f]
          /\ parsed.flags = x.flags /\ parsed.task = x.task
      BY <1>1, <3>0, <3>3, Zenon DEF SameRest
    <3>5. q # <<>> => Runs(parsed, Peer(e))
      BY <1>1, <3>3, <3>4, Zenon DEF Runs
    <3>6. /\ q = <<>> => parsed.inq[Peer(e)] = <<>>
          /\ Len(parsed.inq[Peer(e)]) <= 1
          /\ ~("SHUTWR" \in parsed.flags[Peer(Peer(e))] /\ "SHUTRD" \in parsed.flags[Peer(e)])
          /\ Peer(e) = e => "SHUTRD" \notin parsed.flags[e]
          /\ q # <<>> /\ Peer(e) = Peer(e) => "SHUTWR" \notin parsed.flags[Peer(e)]
      BY <1>1, <1>2, <3>2, <3>3, <3>4, PeerEnd, Zenon
    <3>7. LET r == SendNow(parsed, Peer(e), o)
          IN /\ AfterTask(_worker_free_session(r.s, q, e), q, Puts(q, e))
             /\ r.ok /\ ~BothShut(r.s) => AfterTask(r.s, q, 0)
      BY <1>1, <1>2, <3>3, <3>4, <3>5, <3>6, SendAfter, Zenon
    <3> QED  BY <1>2, <2>2, <3>1, <3>7, Zenon
  <2>4. CASE x.task[e] = "SEND"
    <3>0. \A f \in End : x.fd[f]
      BY <1>1, <2>4
    <3>1. PICK o \in Outcome(x, e) :
             LET r == SendNow(x, e, o)
             IN IF r.ok THEN Finish(r.s, q, e, 0)
                ELSE Becomes(_worker_free_session(r.s, q, e), q, Puts(q, e))
      BY <2>4 DEF _worker_run_task
    <3>2. "SHUTRD" \notin x.flags[e] /\ x.inq[e] = <<>>
      BY <1>1, <2>4 DEF Runs
    <3>3. ~("SHUTWR" \in x.flags[Peer(e)] /\ "SHUTRD" \in x.flags[e]) /\ e # Peer(e)
      BY <3>2, PeerEnd
    <3>4. LET r == SendNow(x, e, o)
          IN /\ AfterTask(_worker_free_session(r.s, q, e), q, Puts(q, e))
             /\ r.ok /\ ~BothShut(r.s) => AfterTask(r.s, q, 0)
      <4> HIDE DEF q
      <4> QED  BY <1>1, <1>2, <3>0, <3>2, <3>3, SendAfter, Zenon
    <3> QED  BY <2>2, <3>1, <3>4, Zenon
  <2> QED  BY <1>2, <2>1, <2>3, <2>4
<1>4. PICK s, n : AfterTask(s, q, n) /\ Becomes(s, q, n)
  BY <1>3
<1> QED  BY <1>0, <1>1, <1>4, AfterStep


-----------------------------------------------------------------------------
(* A callback.                                                             *)

\* What e gives up or gets with a new callback that reads or does nothing.
Rearms(old, new, cb) ==
  /\ "BLOCKED" \in new <=> "BLOCKED" \in old
  /\ "SHUTWR" \in new <=> "SHUTWR" \in old
  /\ "SHUTWR" \in new => "SHUTRD" \in new
  /\ "SHUTRD" \in new => cb = "NULL"
  /\ "HANDSHAKE" \notin new

WithFlags(s, e, F) == [s EXCEPT !.flags[e] = F]

\* t is s with the flags F at e, and another callback there.
Rearmed(s, t, e, F) ==
  /\ Wired(t) /\ SamePackets(s, t)
  /\ t.live = s.live /\ t.fd = s.fd /\ t.task = s.task
  /\ t.flags[e] = F /\ t.flags[Peer(e)] = s.flags[Peer(e)]
  /\ t.item[e].st = s.item[e].st /\ t.item[Peer(e)] = s.item[Peer(e)]

\* The flags of e become F, and it waits for ev with another callback.
LEMMA RearmWired ==
  ASSUME NEW s, Wired(s), s.live, NEW e \in End, s.fd[e], NEW F \in SUBSET Flag,
         NEW ev \in SUBSET Mask, NEW cb, cb = "NULL" \/ cb = "recv",
         Rearms(s.flags[e], F, cb)
  PROVE  Rearmed(s, fd_epoll_alloc_update(WithFlags(s, e, F), e, ev, cb), e, F)
<1> DEFINE u == WithFlags(s, e, F)
           t == fd_epoll_alloc_update(u, e, ev, cb)
<1>0. Memory(s) /\ Fits(s, e) /\ Fits(s, Peer(e))
  BY PeerEnd DEF Wired
<1>1. /\ Memory(u) /\ SamePackets(s, u)
      /\ u.live = s.live /\ u.fd = s.fd /\ u.task = s.task /\ u.item = s.item
      /\ u.flags[e] = F /\ u.flags[Peer(e)] = s.flags[Peer(e)]
  <2>1. \A G \in SUBSET Flag :
          LET w == [s EXCEPT !.flags[e] = G]
          IN /\ Memory(w) /\ SamePackets(s, w)
             /\ w.live = s.live /\ w.fd = s.fd /\ w.task = s.task /\ w.item = s.item
             /\ w.flags[e] = G /\ w.flags[Peer(e)] = s.flags[Peer(e)]
    BY <1>0, FlagShape
  <2>2. F \in SUBSET Flag
    OBVIOUS
  <2> QED  BY <2>1, <2>2, Zenon DEF WithFlags
<1> HIDE DEF u
<1>2. cb \in Callback
  BY FlagTypes
<1>3. /\ Memory(t) /\ SamePackets(u, t) /\ SameRest(u, t)
      /\ t.item[e].st = u.item[e].st /\ t.item[e].cb = cb
      /\ t.item[Peer(e)] = u.item[Peer(e)]
  BY <1>1, <1>2, UpdateShape
<1> HIDE DEF t
<1>4. /\ SamePackets(s, t) /\ t.live = s.live /\ t.fd = s.fd /\ t.task = s.task
      /\ t.flags[e] = F /\ t.flags[Peer(e)] = s.flags[Peer(e)]
      /\ t.item[e].st = s.item[e].st /\ t.item[e].cb = cb
      /\ t.item[Peer(e)] = s.item[Peer(e)]
  BY <1>1, <1>3, Zenon DEF SamePackets, SameRest
<1>5. t.nalloced = NPackets(t)
  BY <1>4, CountSame
<1>6. Fits(t, e)
  BY <1>0, <1>4 DEF Fits, Halted, Suits, Rearms
<1>7. Fits(t, Peer(e))
  <2>1. /\ Peer(Peer(e)) = e /\ t.out = s.out
        /\ "BLOCKED" \in t.flags[e] <=> "BLOCKED" \in s.flags[e]
        /\ "SHUTWR" \in t.flags[e] <=> "SHUTWR" \in s.flags[e]
    BY <1>4, PeerEnd DEF SamePackets, Rearms
  <2> QED  BY <1>0, <1>4, <2>1 DEF Fits, Halted, Suits
<1>8. Wired(t)
  BY <1>3, <1>4, <1>5, <1>6, <1>7, BothEnds, Zenon DEF Wired
<1> QED  BY <1>4, <1>8, Zenon DEF t, u, Rearmed

LEMMA ReceivedWired ==
  ASSUME Wired(x), x.live, NEW e \in End, x.inq[e] = <<>>, NEW n \in Nat
  PROVE  LET t == Received(e, n)
         IN /\ Wired(t) /\ SameRest(x, t) /\ t.item = x.item
            /\ Len(t.inq[e]) = 1 /\ t.inq[Peer(e)] = x.inq[Peer(e)]
<1> DEFINE t == Received(e, n)
<1>0. Memory(x) /\ x.nalloced = NPackets(x) /\ \A f \in End : Fits(x, f)
  BY DEF Wired
<1>1. /\ Memory(t) /\ SameRest(x, t) /\ t.item = x.item /\ t.out = x.out
      /\ Len(t.inq[e]) = 1 /\ t.inq[Peer(e)] = x.inq[Peer(e)]
      /\ t.nalloced = x.nalloced + 1
  BY <1>0, ReceivedShape
<1> HIDE DEF t
<1>2. t.live = x.live /\ t.fd = x.fd /\ t.flags = x.flags
  BY <1>1 DEF SameRest
<1>3. \A f \in End : Fits(t, f)
  BY <1>0, <1>1, <1>2, FitsSame, Zenon
<1>4. t.nalloced = NPackets(t)
  <2> DEFINE b == Len(x.out[e])
             c == Len(x.inq[Peer(e)])
             d == Len(x.out[Peer(e)])
  <2>1. Len(x.inq[e]) = 0
    OBVIOUS
  <2>2. NPackets(x) = 0 + b + c + d /\ NPackets(t) = 1 + b + c + d
    BY <1>0, <1>1, <2>1, CountByEnd
  <2>3. b \in Nat /\ c \in Nat /\ d \in Nat
    BY <1>0, QueueLens
  <2>4. t.nalloced = NPackets(x) + 1
    BY <1>0, <1>1, Zenon
  <2> HIDE DEF b, c, d
  <2> QED  BY <2>2, <2>3, <2>4
<1>5. Wired(t)
  BY <1>1, <1>2, <1>3, <1>4, Zenon DEF Wired
<1> QED  BY <1>1, <1>5, Zenon DEF t

\* The state in which a callback of e runs.
LEMMA PollState ==
  ASSUME IInv, phase = "poll", NEW e \in End, batch[e] # {}
  PROVE  /\ Wired(x) /\ x.live /\ Memory(x) /\ Fits(x, e) /\ Fits(x, Peer(e))
         /\ taskq \in Queues /\ ~Queued(taskq, e) /\ x.inq[e] = <<>>
         /\ \A f \in End : x.fd[f]
         /\ Queued(taskq, Peer(e)) =>
              /\ x.item[Peer(e)].st = "READY" /\ batch[Peer(e)] = {}
              /\ "SHUTWR" \in x.flags[Peer(e)] => "BLOCKED" \in x.flags[Peer(e)]
              /\ Runs(x, Peer(e))
         /\ ~Queued(taskq, Peer(e)) => taskq = <<>> /\ x.inq[Peer(e)] = <<>>
         /\ Len(x.inq[Peer(e)]) <= 1
<1>1. Wired(x) /\ Linked(x, taskq) /\ Loop
  BY DEF IInv
<1>2. x.live
  BY <1>1 DEF Loop
<1>3. Memory(x) /\ Fits(x, e) /\ Fits(x, Peer(e)) /\ Peer(e) \in End
  BY <1>1, PeerEnd DEF Wired
<1>4. ~Queued(taskq, e)
  BY <1>1 DEF Loop
<1>5. /\ taskq \in Queues /\ x.inq[e] = <<>> /\ Len(x.inq[Peer(e)]) <= 1
      /\ Queued(taskq, Peer(e)) => Runs(x, Peer(e))
      /\ ~Queued(taskq, Peer(e)) => x.inq[Peer(e)] = <<>>
  BY <1>1, <1>3, <1>4, Zenon DEF Linked
<1>6. \A f \in End : x.fd[f]
  <2> SUFFICES ASSUME NEW f \in End, ~x.fd[f]
               PROVE  phase = "task"
    OBVIOUS
  <2> QED  BY <1>1, <1>2, Zenon DEF Loop
<1>7. Queued(taskq, Peer(e)) =>
        /\ x.item[Peer(e)].st = "READY" /\ batch[Peer(e)] = {}
        /\ "SHUTWR" \in x.flags[Peer(e)] => "BLOCKED" \in x.flags[Peer(e)]
  BY <1>1, <1>3, Zenon DEF Loop
<1>8. ~Queued(taskq, Peer(e)) => taskq = <<>>
  <2> SUFFICES ASSUME ~Queued(taskq, Peer(e)), taskq # <<>>
               PROVE  FALSE
    OBVIOUS
  <2>1. PICK f \in End : taskq = <<f>> \/ taskq = <<f, Peer(f)>>
    BY <1>5, QueueCases
  <2>2. Queued(taskq, f)
    <3>1. Queued(<<f>>, f) /\ Queued(<<f, Peer(f)>>, f)
      BY QueuedCases, PeerEnd, Zenon
    <3> QED  BY <2>1, <3>1, Zenon
  <2> QED  BY <1>4, <2>2, PeerEnd, Zenon
<1> QED  BY <1>1, <1>2, <1>3, <1>4, <1>5, <1>6, <1>7, <1>8, Zenon


\* A callback of e leaves session s and links the task v.
LEMMA AddStep ==
  ASSUME IInv, phase = "poll", NEW e \in End, batch[e] # {},
         batch' = [batch EXCEPT ![e] = {}], UNCHANGED <<phase, hung, nsess, nlive, puts>>,
         NEW s, NEW v \in {"PARSE", "SEND", "DELETE"},
         x' = [s EXCEPT !.task[e] = v], taskq' = Append(taskq, e),
         Wired(s), s.live = x.live, s.fd = x.fd, s.task = x.task,
         s.item[e].st = "READY", s.item[Peer(e)].st = x.item[Peer(e)].st,
         s.flags[Peer(e)] = x.flags[Peer(e)],
         s.inq[Peer(e)] = x.inq[Peer(e)], Len(s.inq[e]) <= 1,
         "SHUTWR" \in s.flags[e] => "BLOCKED" \in s.flags[e] /\ v = "DELETE",
         v = "SEND" => "SHUTRD" \notin s.flags[e] /\ s.inq[e] = <<>>,
         ~BothShut(s)
  PROVE  IInv'
<1> DEFINE t == [s EXCEPT !.task[e] = v]
           q == Append(taskq, e)
<1>1. /\ x.live /\ taskq \in Queues /\ ~Queued(taskq, e)
      /\ \A f \in End : x.fd[f]
      /\ Queued(taskq, Peer(e)) =>
           /\ x.item[Peer(e)].st = "READY" /\ batch[Peer(e)] = {}
           /\ "SHUTWR" \in x.flags[Peer(e)] => "BLOCKED" \in x.flags[Peer(e)]
           /\ Runs(x, Peer(e))
      /\ ~Queued(taskq, Peer(e)) => x.inq[Peer(e)] = <<>>
      /\ Len(x.inq[Peer(e)]) <= 1
  BY PollState
<1>2. q \in Queues /\ q # <<>> /\ \A f \in End : Queued(q, f) <=> f = e \/ Queued(taskq, f)
  BY <1>1, QueueAppend
<1>3. Wired(t)
  BY TaskWired DEF Task
<1>4. Memory(s) /\ Fits(s, e) /\ Fits(s, Peer(e))
  BY PeerEnd DEF Wired
<1>5. /\ SamePackets(s, t) /\ t.live = s.live /\ t.fd = s.fd /\ t.flags = s.flags
      /\ t.item = s.item /\ t.task[e] = v /\ t.task[Peer(e)] = s.task[Peer(e)]
  <2>1. \A w \in Task :
          LET u == [s EXCEPT !.task[e] = w]
          IN /\ Memory(u) /\ SamePackets(s, u)
             /\ u.live = s.live /\ u.fd = s.fd /\ u.flags = s.flags /\ u.item = s.item
             /\ u.task[e] = w /\ u.task[Peer(e)] = s.task[Peer(e)]
    BY <1>4, TaskShape
  <2>2. v \in Task
    BY DEF Task
  <2> QED  BY <2>1, <2>2, Zenon
<1>6. t.inq = s.inq
  BY <1>5 DEF SamePackets
<1>7. Peer(e) \in End /\ Peer(e) # e /\ Peer(Peer(e)) = e /\ \A f \in End : f = e \/ f = Peer(e)
  BY PeerEnd, Zenon
<1> HIDE DEF t, q
<1>8. Queued(taskq, Peer(e)) => "SHUTWR" \notin s.flags[e] /\ "SHUTWR" \notin s.flags[Peer(e)]
  <2> SUFFICES ASSUME Queued(taskq, Peer(e))
               PROVE  "SHUTWR" \notin s.flags[e] /\ "SHUTWR" \notin s.flags[Peer(e)]
    OBVIOUS
  <2>1. x.item[Peer(e)].st = "READY"
    BY <1>1
  <2>2. "BLOCKED" \notin s.flags[e]
    BY <1>1, <1>4, <1>7, <2>1, Zenon DEF Fits, Halted
  <2>3. "BLOCKED" \notin s.flags[Peer(e)]
    BY <1>1, <1>4, <1>7, Zenon DEF Fits, Halted
  <2> QED  BY <1>1, <2>2, <2>3, Zenon
<1>9. Runs(t, e)
  BY <1>5, <1>6 DEF Runs
<1>10. Queued(taskq, Peer(e)) => Runs(t, Peer(e))
  <2> SUFFICES ASSUME Queued(taskq, Peer(e))
               PROVE  Runs(t, Peer(e))
    OBVIOUS
  <2>1. Runs(x, Peer(e))
    BY <1>1
  <2>2. /\ t.task[Peer(e)] = x.task[Peer(e)] /\ t.inq[Peer(e)] = x.inq[Peer(e)]
        /\ t.flags[Peer(e)] = x.flags[Peer(e)] /\ "SHUTWR" \notin t.flags[Peer(e)]
    BY <1>5, <1>6, <1>8, Zenon
  <2> QED  BY <2>1, <2>2, Zenon DEF Runs
<1>11. Linked(t, q)
  <2>1. ~BothShut(t)
    BY <1>5, Zenon DEF BothShut
  <2>2. ASSUME NEW f \in End
        PROVE  /\ Queued(q, f) => Runs(t, f)
               /\ ~Queued(q, f) => t.inq[f] = <<>>
               /\ Queued(q, f) /\ Queued(q, Peer(f)) => "SHUTWR" \notin t.flags[f]
               /\ Len(t.inq[f]) <= 1
    <3>1. CASE f = e
      BY <3>1, <1>2, <1>5, <1>6, <1>7, <1>8, <1>9, Zenon
    <3>2. CASE f = Peer(e)
      BY <3>2, <1>1, <1>2, <1>5, <1>6, <1>7, <1>8, <1>10, Zenon
    <3> QED  BY <3>1, <3>2, <1>7, Zenon
  <2>3. t.live
    BY <1>1, <1>5, Zenon
  <2> QED  BY <1>2, <2>1, <2>2, <2>3, Zenon DEF Linked
<1>12. x' = t /\ taskq' = q
  BY DEF t, q
<1>13. Wired(x)' /\ Linked(x, taskq)'
  <2>1. Wired(x') /\ Linked(x', taskq')
    BY <1>3, <1>11, <1>12, Zenon
  <2> QED  BY <2>1 DEF Wired, Linked, Memory, NPackets, Fits, Halted, Suits, Runs, BothShut, Queued, Session
<1>14. /\ phase' = "poll" /\ batch \in Batches /\ hung' \subseteq End
       /\ nlive' \in 0 .. Word - 1 /\ nsess' \in 0 .. MaxSess /\ puts' = 0
  BY <1>1 DEF IInv, Loop
<1>15. batch' \in Batches /\ batch'[e] = {} /\ batch'[Peer(e)] = batch[Peer(e)]
  BY <1>7, <1>14 DEF Batches
<1>16. x'.live /\ \A f \in End : x'.fd[f]
  BY <1>1, <1>5, <1>12, Zenon
<1>17. ASSUME NEW f \in End, Queued(taskq', f)
       PROVE  /\ batch'[f] = {} /\ x'.item[f].st = "READY"
              /\ "SHUTWR" \in x'.flags[f] => "BLOCKED" \in x'.flags[f]
  <2>1. CASE f = e
    BY <2>1, <1>5, <1>12, <1>15, Zenon
  <2>2. CASE f = Peer(e)
    <3>1. Queued(taskq, Peer(e))
      BY <1>2, <1>7, <1>12, <1>17, <2>2, Zenon
    <3>2. /\ x.item[Peer(e)].st = "READY" /\ batch[Peer(e)] = {}
          /\ "SHUTWR" \in x.flags[Peer(e)] => "BLOCKED" \in x.flags[Peer(e)]
      BY <1>1, <3>1, Zenon
    <3>3. x'.item[Peer(e)].st = x.item[Peer(e)].st /\ x'.flags[Peer(e)] = x.flags[Peer(e)]
      BY <1>5, <1>12, Zenon
    <3> QED  BY <2>2, <3>2, <3>3, <1>15
  <2> QED  BY <2>1, <2>2, <1>7, Zenon
<1>18. Loop'
  <2>1. \A f \in End : Queued(taskq, f)' => Queued(taskq', f)
    BY DEF Queued
  <2> QED  BY <1>14, <1>15, <1>16, <1>17, <2>1 DEF Loop
<1> QED  BY <1>13, <1>18 DEF IInv

\* A callback of e, or an event that none is called for, with no task linked.
LEMMA StayStep ==
  ASSUME IInv, phase = "poll", NEW e \in End, batch[e] # {},
         batch' = [batch EXCEPT ![e] = {}],
         UNCHANGED <<taskq, phase, hung, nsess, nlive, puts>>,
         \/ x' = x
         \/ /\ taskq = <<>> /\ Wired(x') /\ x'.live = x.live /\ x'.fd = x.fd /\ x'.inq = x.inq
  PROVE  IInv'
<1>1. x.live /\ \A f \in End : x.fd[f]
  BY PollState
<1>2. Wired(x) /\ Linked(x, taskq) /\ Loop
  BY DEF IInv
<1>3. Peer(e) \in End /\ Peer(e) # e /\ \A f \in End : f = e \/ f = Peer(e)
  BY PeerEnd, Zenon
<1>4. Wired(x') /\ Linked(x', taskq')
  <2>1. CASE x' = x
    BY <1>2, <2>1, Zenon
  <2>2. CASE /\ taskq = <<>> /\ Wired(x') /\ x'.live = x.live /\ x'.fd = x.fd /\ x'.inq = x.inq
    <3>1. \A f \in End : ~Queued(taskq', f)
      BY <2>2, Unqueued, Zenon
    <3>2. taskq' = <<>> /\ taskq' \in Queues
      BY <2>2 DEF Queues
    <3>3. \A f \in End : x'.inq[f] = <<>> /\ Len(x'.inq[f]) <= 1
      BY <1>2, <2>2, <3>1, Zenon DEF Linked
    <3> QED  BY <2>2, <3>1, <3>2, <3>3, Zenon DEF Linked
  <2> QED  BY <2>1, <2>2
<1>5. Wired(x)' /\ Linked(x, taskq)'
  BY <1>4 DEF Wired, Linked, Memory, NPackets, Fits, Halted, Suits, Runs, BothShut, Queued, Session
<1>6. /\ phase' = "poll" /\ batch \in Batches /\ hung' \subseteq End
      /\ nlive' \in 0 .. Word - 1 /\ nsess' \in 0 .. MaxSess /\ puts' = 0
  BY <1>1, <1>2 DEF Loop
<1>7. batch' \in Batches /\ batch'[e] = {} /\ batch'[Peer(e)] = batch[Peer(e)]
  BY <1>3, <1>6 DEF Batches
<1>8. x'.live /\ \A f \in End : x'.fd[f]
  BY <1>1, Zenon
<1>9. ASSUME NEW f \in End, Queued(taskq', f)
      PROVE  /\ batch'[f] = {} /\ x'.item[f].st = "READY"
             /\ "SHUTWR" \in x'.flags[f] => "BLOCKED" \in x'.flags[f]
  <2>1. Queued(taskq, f)
    BY <1>9, Zenon
  <2>2. /\ batch[f] = {} /\ x.item[f].st = "READY"
        /\ "SHUTWR" \in x.flags[f] => "BLOCKED" \in x.flags[f]
    BY <1>2, <2>1, Zenon DEF Loop
  <2>3. batch'[f] = {}
    BY <1>3, <1>7, <2>2, Zenon
  <2>4. taskq # <<>>
    <3>1. ~Queued(<<>>, f)
      BY Unqueued
    <3> QED  BY <2>1, <3>1, Zenon
  <2> QED  BY <2>2, <2>3, <2>4, Zenon
<1>10. Loop'
  <2>1. \A f \in End : Queued(taskq, f)' => Queued(taskq', f)
    BY DEF Queued
  <2> QED  BY <1>6, <1>7, <1>8, <1>9, <2>1 DEF Loop
<1> QED  BY <1>5, <1>10 DEF IInv


\* What a callback of e that links the task v may have made of the session.
Leaves(s, e, v) ==
  /\ Wired(s) /\ s.live = x.live /\ s.fd = x.fd /\ s.task = x.task
  /\ s.item[e].st = "READY" /\ s.item[Peer(e)].st = x.item[Peer(e)].st
  /\ s.flags[Peer(e)] = x.flags[Peer(e)]
  /\ s.inq[Peer(e)] = x.inq[Peer(e)] /\ Len(s.inq[e]) <= 1
  /\ "SHUTWR" \in s.flags[e] => "BLOCKED" \in s.flags[e] /\ v = "DELETE"
  /\ v = "SEND" => "SHUTRD" \notin s.flags[e] /\ s.inq[e] = <<>>
  /\ ~BothShut(s)

LEMMA AddedStep ==
  ASSUME IInv, phase = "poll", NEW e \in End, batch[e] # {},
         batch' = [batch EXCEPT ![e] = {}], UNCHANGED <<phase, hung, nsess>>,
         NEW s, NEW v \in {"PARSE", "SEND", "DELETE"}, Leaves(s, e, v),
         Add(s, taskq, e, v)
  PROVE  IInv'
<1>1. ~Queued(taskq, e)
  BY PollState
<1>2. /\ x' = [s EXCEPT !.task[e] = v] /\ taskq' = Append(taskq, e)
      /\ UNCHANGED <<phase, hung, nsess, nlive, puts>>
  BY <1>1 DEF Add
<1>3. /\ Wired(s) /\ s.live = x.live /\ s.fd = x.fd /\ s.task = x.task
      /\ s.item[e].st = "READY" /\ s.item[Peer(e)].st = x.item[Peer(e)].st
      /\ s.flags[Peer(e)] = x.flags[Peer(e)]
      /\ s.inq[Peer(e)] = x.inq[Peer(e)] /\ Len(s.inq[e]) <= 1
      /\ "SHUTWR" \in s.flags[e] => "BLOCKED" \in s.flags[e] /\ v = "DELETE"
      /\ v = "SEND" => "SHUTRD" \notin s.flags[e] /\ s.inq[e] = <<>>
      /\ ~BothShut(s)
  BY DEF Leaves
<1> QED  BY <1>2, <1>3, AddStep, Zenon

\* The session itself, when no end of e was passed on.
LEMMA LeavesSelf ==
  ASSUME IInv, phase = "poll", NEW e \in End, batch[e] # {}, x.item[e].st = "READY",
         "SHUTWR" \notin x.flags[e]
  PROVE  Leaves(x, e, "DELETE")
<1>1. Wired(x) /\ x.inq[e] = <<>>
  BY PollState
<1>2. ~BothShut(x) /\ Len(x.inq[e]) <= 1
  BY <1>1 DEF BothShut
<1> QED  BY <1>1, <1>2 DEF Leaves

LEMMA HandshakeStep ==
  ASSUME IInv, phase = "poll", NEW e \in End, batch[e] # {},
         batch' = [batch EXCEPT ![e] = {}], UNCHANGED <<phase, hung, nsess>>,
         Calls(e), x.item[e].cb = "handshake", NEW ok, _worker_handshake(e, batch[e], ok)
  PROVE  IInv'
<1> DEFINE F == x.flags[e] \ {"HANDSHAKE"}
           t == fd_epoll_alloc_update(WithFlags(x, e, F), e, READ, "recv")
<1>1. /\ Wired(x) /\ x.live /\ Memory(x) /\ Fits(x, e) /\ x.fd[e] /\ x.inq[e] = <<>>
  BY PollState
<1>2. x.item[e].st = "READY"
  BY DEF Calls
<1>3. "SHUTRD" \notin x.flags[e] /\ "SHUTWR" \notin x.flags[e]
  BY <1>1 DEF Fits, Halted, Suits
<1>4. \E s : \E v \in {"PARSE", "SEND", "DELETE"} : Leaves(s, e, v) /\ Add(s, taskq, e, v)
  <2>1. Leaves(x, e, "DELETE")
    BY <1>2, <1>3, LeavesSelf
  <2>2. F \in SUBSET Flag
    BY <1>1, FlagsIn, FlagTypes
  <2>3. Rearms(x.flags[e], F, "recv") /\ "SHUTRD" \notin F /\ "SHUTWR" \notin F
    BY <1>3 DEF Rearms
  <2> HIDE DEF F
  <2>4. /\ Wired(t) /\ SamePackets(x, t)
        /\ t.live = x.live /\ t.fd = x.fd /\ t.task = x.task
        /\ t.flags[e] = F /\ t.flags[Peer(e)] = x.flags[Peer(e)]
        /\ t.item[e].st = x.item[e].st /\ t.item[Peer(e)] = x.item[Peer(e)]
    <3>1. READ \in SUBSET Mask
      BY FlagTypes
    <3>2. Rearmed(x, fd_epoll_alloc_update(WithFlags(x, e, F), e, READ, "recv"), e, F)
      BY <1>1, <2>2, <2>3, <3>1, RearmWired
    <3> QED  BY <3>2 DEF Rearmed
  <2>5. _worker_handshake(e, batch[e], ok) =>
          \/ Add(x, taskq, e, "DELETE") \/ Add(t, taskq, e, "DELETE") \/ Add(t, taskq, e, "SEND")
    BY Zenon DEF _worker_handshake, F, WithFlags
  <2> HIDE DEF t
  <2>6. Leaves(t, e, "DELETE") /\ Leaves(t, e, "SEND")
    <3>1. t.inq[e] = <<>> /\ t.inq[Peer(e)] = x.inq[Peer(e)]
      BY <1>1, <2>4 DEF SamePackets
    <3>2. Len(t.inq[e]) <= 1 /\ ~BothShut(t)
      BY <2>3, <2>4, <3>1 DEF BothShut
    <3> QED  BY <1>2, <2>3, <2>4, <3>1, <3>2, Zenon DEF Leaves
  <2>7. "SEND" \in {"PARSE", "SEND", "DELETE"} /\ "DELETE" \in {"PARSE", "SEND", "DELETE"}
    OBVIOUS
  <2> QED  BY <2>1, <2>5, <2>6, <2>7, Zenon
<1> QED  BY <1>4, AddedStep

LEMMA RecvStep ==
  ASSUME IInv, phase = "poll", NEW e \in End, batch[e] # {},
         batch' = [batch EXCEPT ![e] = {}], UNCHANGED <<phase, hung, nsess>>,
         Calls(e), x.item[e].cb = "recv", NEW n \in Nat, NEW fail,
         _worker_recv_data(e, batch[e], n, fail)
  PROVE  IInv'
<1>1. /\ Wired(x) /\ x.live /\ Memory(x) /\ Fits(x, e) /\ x.fd[e] /\ x.inq[e] = <<>>
  BY PollState
<1>2. x.item[e].st = "READY"
  BY DEF Calls
<1>3. "SHUTRD" \notin x.flags[e] /\ "SHUTWR" \notin x.flags[e] /\ "HANDSHAKE" \notin x.flags[e]
  BY <1>1 DEF Fits, Halted, Suits
<1>4. ASSUME NEW k \in Nat
      PROVE  LET t == Received(e, k)
             IN /\ Wired(t) /\ SameRest(x, t) /\ t.item = x.item
                /\ Len(t.inq[e]) = 1 /\ t.inq[Peer(e)] = x.inq[Peer(e)]
                /\ Leaves(t, e, "DELETE") /\ Leaves(t, e, "PARSE")
  <2> DEFINE t == Received(e, k)
  <2>1. /\ Wired(t) /\ SameRest(x, t) /\ t.item = x.item
        /\ Len(t.inq[e]) = 1 /\ t.inq[Peer(e)] = x.inq[Peer(e)]
    BY <1>1, ReceivedWired
  <2> HIDE DEF t
  <2>2. /\ t.live = x.live /\ t.fd = x.fd /\ t.task = x.task /\ t.flags = x.flags
        /\ Len(t.inq[e]) <= 1
    BY <2>1 DEF SameRest
  <2>3. ~BothShut(t)
    BY <1>3, <2>2 DEF BothShut
  <2>4. Leaves(t, e, "DELETE") /\ Leaves(t, e, "PARSE")
    BY <1>2, <1>3, <2>1, <2>2, <2>3 DEF Leaves
  <2> QED  BY <2>1, <2>4, Zenon DEF t
<1>5. \E s : \E v \in {"PARSE", "SEND", "DELETE"} : Leaves(s, e, v) /\ Add(s, taskq, e, v)
  <2>1. Leaves(x, e, "DELETE")
    BY <1>2, <1>3, LeavesSelf
  <2> DEFINE t == Received(e, n)
             c == Closed(t, e)
  <2>2. /\ Wired(t) /\ SameRest(x, t) /\ t.item = x.item
        /\ Len(t.inq[e]) = 1 /\ t.inq[Peer(e)] = x.inq[Peer(e)]
        /\ Leaves(t, e, "DELETE") /\ Leaves(t, e, "PARSE")
    BY <1>4, Zenon
  <2>3. Leaves(Failed(e), e, "DELETE")
    BY <1>4, Zenon DEF Failed
  <2>4. _worker_recv_data(e, batch[e], n, fail) =>
          \/ Add(x, taskq, e, "DELETE") \/ Add(Failed(e), taskq, e, "DELETE")
          \/ Add(c, taskq, e, "DELETE") \/ Add(c, taskq, e, "PARSE")
          \/ Add(t, taskq, e, "PARSE")
    BY Zenon DEF _worker_recv_data
  <2> HIDE DEF t
  <2> DEFINE F == t.flags[e] \cup {"SHUTRD"}
  <2>5. t.live = x.live /\ t.fd = x.fd /\ t.task = x.task /\ t.flags = x.flags /\ Memory(t)
    BY <2>2 DEF SameRest, Wired
  <2>6. F \in SUBSET Flag
    BY <2>5, FlagsIn, FlagTypes
  <2>7. Rearms(t.flags[e], F, "NULL") /\ "SHUTWR" \notin F
    BY <1>3, <2>5 DEF Rearms
  <2>8. c = fd_epoll_alloc_update(WithFlags(t, e, F), e, {}, "NULL")
    BY DEF Closed, WithFlags
  <2> HIDE DEF F, c
  <2>9. /\ Wired(c) /\ SamePackets(t, c)
        /\ c.live = t.live /\ c.fd = t.fd /\ c.task = t.task
        /\ c.flags[e] = F /\ c.flags[Peer(e)] = t.flags[Peer(e)]
        /\ c.item[e].st = t.item[e].st /\ c.item[Peer(e)] = t.item[Peer(e)]
    <3>1. {} \in SUBSET Mask /\ t.live /\ t.fd[e]
      BY <1>1, <2>5, FlagTypes
    <3>2. Rearmed(t, fd_epoll_alloc_update(WithFlags(t, e, F), e, {}, "NULL"), e, F)
      BY <2>2, <2>6, <2>7, <3>1, RearmWired
    <3> QED  BY <2>8, <3>2, Zenon DEF Rearmed
  <2>10. Leaves(c, e, "DELETE") /\ Leaves(c, e, "PARSE")
    <3>1. c.inq[e] = t.inq[e] /\ c.inq[Peer(e)] = x.inq[Peer(e)] /\ Len(c.inq[e]) <= 1
      <4>1. c.inq = t.inq
        BY <2>9 DEF SamePackets
      <4>2. Len(t.inq[e]) = 1 /\ t.inq[Peer(e)] = x.inq[Peer(e)]
        BY <2>2
      <4> QED  BY <4>1, <4>2
    <3>2. ~BothShut(c)
      BY <2>7, <2>9 DEF BothShut
    <3> QED  BY <1>2, <2>2, <2>5, <2>7, <2>9, <3>1, <3>2 DEF Leaves
  <2>11. "PARSE" \in {"PARSE", "SEND", "DELETE"} /\ "DELETE" \in {"PARSE", "SEND", "DELETE"}
    OBVIOUS
  <2> QED  BY <2>1, <2>2, <2>3, <2>4, <2>10, <2>11, Zenon
<1> QED  BY <1>5, AddedStep


LEMMA SendStep ==
  ASSUME IInv, phase = "poll", NEW e \in End, batch[e] # {},
         batch' = [batch EXCEPT ![e] = {}], UNCHANGED <<phase, hung, nsess>>,
         Calls(e), x.item[e].cb = "send", NEW o \in Outcome(x, e), _worker_send_data(e, o)
  PROVE  IInv'
<1> DEFINE t == Taken(x, e, o)
<1>1. /\ Wired(x) /\ x.live /\ Memory(x) /\ Fits(x, e) /\ Fits(x, Peer(e))
      /\ taskq \in Queues /\ ~Queued(taskq, e) /\ x.inq[e] = <<>>
      /\ \A f \in End : x.fd[f]
      /\ Queued(taskq, Peer(e)) =>
           /\ x.item[Peer(e)].st = "READY" /\ batch[Peer(e)] = {}
           /\ "SHUTWR" \in x.flags[Peer(e)] => "BLOCKED" \in x.flags[Peer(e)]
           /\ Runs(x, Peer(e))
      /\ ~Queued(taskq, Peer(e)) => taskq = <<>> /\ x.inq[Peer(e)] = <<>>
      /\ Len(x.inq[Peer(e)]) <= 1
  BY PollState
<1>2. x.item[e].st = "READY" /\ "BLOCKED" \in x.flags[e]
  BY <1>1 DEF Calls, Fits, Halted, Suits
<1>3. Peer(e) \in End /\ Peer(Peer(e)) = e
  BY PeerEnd
<1>4. taskq = <<>>
  <2>1. x.item[Peer(e)].st # "READY"
    BY <1>1, <1>2, <1>3, Zenon DEF Fits, Halted, Suits
  <2> QED  BY <1>1, <2>1, Zenon
<1>5. /\ Wired(t) /\ SendKeeps(x, t) /\ t.flags = x.flags /\ t.item = x.item
      /\ o.err \/ o.m > 0 => "HANDSHAKE" \notin x.flags[e] /\ x.out[e] # <<>>
      /\ ~o.err /\ ~(o.m > 0) /\ "HANDSHAKE" \notin x.flags[e] => t.out[e] = <<>>
  BY <1>1, TakenWired
<1>6. t.live = x.live /\ t.fd = x.fd /\ t.task = x.task /\ t.inq = x.inq /\ Memory(t)
  BY <1>5 DEF SendKeeps, Wired
<1>7. CASE o.err
  <2>1. SendFailed(t, e)
    BY <1>7 DEF _worker_send_data
  <2> HIDE DEF t
  <2>2. /\ x' = [t EXCEPT !.task[e] = "DELETE"] /\ taskq' = Append(taskq, e)
        /\ UNCHANGED <<phase, hung, nsess, nlive, puts>>
    BY <2>1 DEF SendFailed
  <2>3. ~BothShut(t)
    <3> SUFFICES ASSUME BothShut(t)
                 PROVE  FALSE
      OBVIOUS
    <3>1. "SHUTWR" \in x.flags[e] /\ "SHUTWR" \in x.flags[Peer(e)]
      BY <1>3, <1>5, Zenon DEF BothShut
    <3>2. x.out[e] = <<>>
      BY <1>1, <3>1 DEF Fits, Halted, Suits
    <3> QED  BY <1>5, <1>7, <3>2, Zenon
  <2>4. Len(t.inq[e]) <= 1
    BY <1>1, <1>6
  <2>5. Leaves(t, e, "DELETE")
    BY <1>2, <1>5, <1>6, <2>3, <2>4 DEF Leaves
  <2>6. Add(t, taskq, e, "DELETE")
    BY <1>1, <2>2, Zenon DEF Add
  <2> QED  BY <2>5, <2>6, AddedStep
<1>8. CASE ~o.err
  <2>1. /\ x' = (IF o.m > 0 THEN [t EXCEPT !.flags[e] = @ \cup {"BLOCKED"}] ELSE PassEnd(t, e))
        /\ UNCHANGED <<taskq, nlive, puts>>
    BY <1>8 DEF _worker_send_data
  <2> HIDE DEF t
  <2>2. /\ Wired(x') /\ x'.live = x.live /\ x'.fd = x.fd /\ x'.inq = x.inq
    <3>1. CASE o.m > 0
      <4>1. t.flags[e] \cup {"BLOCKED"} = t.flags[e]
        BY <1>2, <1>5
      <4>2. x' = [t EXCEPT !.flags[e] = t.flags[e]]
        BY <2>1, <3>1, <4>1
      <4>3. [t EXCEPT !.flags[e] = t.flags[e]] = t
        BY <1>6 DEF Memory, Session
      <4>4. x' = t
        BY <4>2, <4>3, Zenon
      <4> QED  BY <1>5, <1>6, <4>4, Zenon
    <3>2. CASE ~(o.m > 0)
      <4>1. x' = PassEnd(t, e)
        BY <2>1, <3>2, Zenon
      <4>2. "HANDSHAKE" \notin t.flags[e] => t.out[e] = <<>>
        BY <1>5, <1>8, <3>2, Zenon
      <4>3. t.live
        BY <1>1, <1>6
      <4>4. LET u == PassEnd(t, e)
            IN /\ Wired(u) /\ SendKeeps(t, u) /\ u.item = t.item
               /\ u.flags[e] = t.flags[e]
               /\ \/ u.flags[Peer(e)] = t.flags[Peer(e)]
                  \/ /\ u.flags[Peer(e)] = t.flags[Peer(e)] \cup {"SHUTWR"}
                     /\ "SHUTRD" \in t.flags[Peer(e)]
        BY <1>5, <4>2, <4>3, PassEndWired
      <4> QED  BY <1>6, <4>1, <4>4, Zenon DEF SendKeeps
    <3> QED  BY <3>1, <3>2
  <2>3. UNCHANGED <<taskq, phase, hung, nsess, nlive, puts>>
    BY <2>1
  <2> QED  BY <1>4, <2>2, <2>3, StayStep
<1> QED  BY <1>7, <1>8

LEMMA PollStep ==
  ASSUME IInv, NEW e \in End, fd_epoll_poll(e)
  PROVE  IInv'
<1>1. /\ phase = "poll" /\ batch[e] # {}
      /\ batch' = [batch EXCEPT ![e] = {}] /\ UNCHANGED <<phase, hung, nsess>>
  BY DEF fd_epoll_poll
<1>2. Memory(x)
  BY <1>1, PollState
<1>3. x.item[e].cb \in Callback
  BY <1>2 DEF Memory, Session, ItemType
<1>4. CASE ~Calls(e)
  <2>1. UNCHANGED <<x, taskq, nlive, puts>>
    BY <1>4 DEF fd_epoll_poll
  <2> QED  BY <1>1, <2>1, StayStep
<1>5. CASE Calls(e) /\ x.item[e].cb = "handshake"
  <2>1. PICK ok \in {TRUE, ~MayFail} : _worker_handshake(e, batch[e], ok)
    BY <1>5 DEF fd_epoll_poll
  <2> QED  BY <1>1, <1>5, <2>1, HandshakeStep
<1>6. CASE Calls(e) /\ x.item[e].cb = "recv"
  <2>1. \E n \in 0 .. Cap, fail \in {"none"} \cup (IF MayFail THEN {"recv", "alloc"} ELSE {}) :
          /\ n <= N[e] - x.got[e]
          /\ _worker_recv_data(e, batch[e], n, fail)
    BY <1>6 DEF fd_epoll_poll
  <2>2. PICK n \in 0 .. Cap, fail \in {"none"} \cup (IF MayFail THEN {"recv", "alloc"} ELSE {}) :
          _worker_recv_data(e, batch[e], n, fail)
    BY <2>1, Zenon
  <2>3. n \in Nat
    BY ProcWorkAssumption
  <2> QED  BY <1>1, <1>6, <2>2, <2>3, RecvStep, Zenon
<1>7. CASE Calls(e) /\ x.item[e].cb = "send"
  <2>1. PICK o \in Outcome(x, e) : _worker_send_data(e, o)
    BY <1>7 DEF fd_epoll_poll
  <2> QED  BY <1>1, <1>7, <2>1, SendStep
<1> QED  BY <1>3, <1>4, <1>5, <1>6, <1>7 DEF Calls, Callback


-----------------------------------------------------------------------------
(* The loop and the next client.                                           *)

LEMMA InitShape ==
  LET s == session_init
  IN /\ Memory(s) /\ s.live = TRUE /\ s.nalloced = 0
     /\ \A e \in End : /\ s.fd[e] = FALSE /\ s.inq[e] = <<>> /\ s.out[e] = <<>>
                       /\ s.flags[e] = {} /\ s.item[e] = Item("CLOSED")
<1> DEFINE s == session_init
           I == Item("CLOSED")
           none == [e \in End |-> <<>>]
           F == [e \in End |-> FALSE]
           T == [e \in End |-> "NONE"]
           Z == [e \in End |-> 0]
           O == [e \in End |-> {}]
           It == [e \in End |-> I]
<1>1. I \in ItemType
  BY ItemClosed
<1> HIDE DEF I
<1>2. none \in [End -> Packets]
  BY DEF Packets
<1>3. F \in [End -> BOOLEAN] /\ T \in [End -> Task] /\ Z \in [End -> Nat]
      /\ O \in [End -> SUBSET Flag] /\ It \in [End -> ItemType]
  BY <1>1 DEF Task
<1>4. \A e \in End : F[e] = FALSE /\ none[e] = <<>> /\ O[e] = {} /\ It[e] = I
  OBVIOUS
<1>5. s = [live |-> TRUE, fd |-> F, inq |-> none, out |-> none, flags |-> O, task |-> T,
           item |-> It, nalloced |-> 0, got |-> Z, sent |-> none]
  BY Zenon DEF session_init, I
<1> HIDE DEF none, F, T, Z, O, It, s
<1>6. s \in Session({s.sent})
  BY <1>2, <1>3, <1>5 DEF Session
<1>7. s.live = TRUE /\ s.nalloced = 0 /\ s.fd = F /\ s.inq = none /\ s.out = none /\ s.flags = O
      /\ s.item = It
  BY <1>5
<1> QED  BY <1>4, <1>6, <1>7 DEF Memory, s, I

LEMMA NoSessionWired == Wired(NoSession) /\ NoSession.live = FALSE
<1> DEFINE i == session_init
           s == [i EXCEPT !.live = FALSE]
<1>1. /\ Memory(i) /\ i.live = TRUE /\ i.nalloced = 0
      /\ \A e \in End : /\ i.fd[e] = FALSE /\ i.inq[e] = <<>> /\ i.out[e] = <<>>
                        /\ i.flags[e] = {} /\ i.item[e] = Item("CLOSED")
  BY InitShape
<1> HIDE DEF i
<1>2. /\ Memory(s) /\ s.live = FALSE /\ s.nalloced = i.nalloced /\ s.fd = i.fd /\ s.inq = i.inq
      /\ s.out = i.out /\ s.flags = i.flags /\ s.item = i.item
  BY <1>1 DEF Memory, Session
<1>3. NoSession = s
  BY DEF NoSession, i
<1> HIDE DEF s
<1>4. \A e \in End : /\ s.fd[e] = FALSE /\ s.inq[e] = <<>> /\ s.out[e] = <<>>
                     /\ s.flags[e] = {} /\ s.item[e] = Item("CLOSED")
  BY <1>1, <1>2, Zenon
<1>5. \A e \in End : Fits(s, e)
  BY <1>4, ItemClosed, PeerEnd DEF Fits, Halted, Suits
<1>6. NPackets(s) = 0
  <2>1. s.inq["cli"] = <<>> /\ s.out["cli"] = <<>> /\ s.inq["svr"] = <<>> /\ s.out["svr"] = <<>>
    BY <1>4 DEF End
  <2>2. NPackets(s) = Len(<<>>) + Len(<<>>) + Len(<<>>) + Len(<<>>)
    BY <2>1, Zenon DEF NPackets
  <2> QED  BY <2>2
<1>7. Wired(s)
  BY <1>1, <1>2, <1>4, <1>5, <1>6 DEF Wired
<1> QED  BY <1>2, <1>3, <1>7

LEMMA EmptyLinked ==
  ASSUME NEW s, \A e \in End : s.inq[e] = <<>>
  PROVE  Linked(s, <<>>)
<1>1. \A e \in End : ~Queued(<<>>, e) /\ Len(s.inq[e]) <= 1
  <2>1. Len(<<>>) <= 1
    OBVIOUS
  <2> QED  BY <2>1, Unqueued, Zenon
<1>2. <<>> \in Queues
  BY DEF Queues
<1> QED  BY <1>1, <1>2, Zenon DEF Linked

LEMMA InitInv ==
  ASSUME Init
  PROVE  IInv
<1>1. Wired(x) /\ x.live = FALSE /\ taskq = <<>>
  BY NoSessionWired, Zenon DEF Init
<1>2. Linked(x, taskq)
  BY <1>1, NoPacketLeft, WiredSound, EmptyLinked
<1>3. \A e \in End : ~Queued(taskq, e)
  BY <1>1, Unqueued
<1>4. /\ phase = "wait" /\ batch = [e \in End |-> {}] /\ hung = {} /\ nlive = 0 /\ nsess = 0
      /\ puts = 1
  BY DEF Init
<1>5. Loop
  BY <1>1, <1>3, <1>4, ProcWorkAssumption DEF Loop, Batches
<1> QED  BY <1>1, <1>2, <1>5 DEF IInv

LEMMA FlushedItem ==
  ASSUME NEW i \in ItemType
  PROVE  /\ Flushed(i) \in ItemType /\ Flushed(i).st = i.st /\ Flushed(i).cb = i.cb
         /\ i = Item("CLOSED") => Flushed(i) = i
<1>1. Flushed(i) \in ItemType /\ Flushed(i).st = i.st /\ Flushed(i).cb = i.cb
  BY DEF Flushed, ItemType
<1>2. i = Item("CLOSED") => Flushed(i) = i
  <2> SUFFICES ASSUME i = Item("CLOSED")
               PROVE  Flushed(i) = i
    OBVIOUS
  <2>1. i.listed = FALSE
    BY ItemClosed
  <2>2. [i EXCEPT !.listed = FALSE] = i
    BY <2>1 DEF ItemType
  <2> QED  BY <2>1, <2>2, Zenon DEF Flushed
<1> QED  BY <1>1, <1>2

LEMMA LoopStep ==
  ASSUME IInv, NEW b \in Batches, _worker_loop(b)
  PROVE  IInv'
<1> DEFINE it == [e \in End |-> Flushed(x.item[e])]
           s == [x EXCEPT !.item = it]
<1>1. Wired(x) /\ Linked(x, taskq) /\ Loop /\ Memory(x)
  BY DEF IInv, Wired
<1>2. /\ phase = "wait" /\ phase' = "poll" /\ x' = s /\ batch' = b
      /\ \A e \in End : b[e] \in Events(s, e)
      /\ UNCHANGED <<taskq, nlive, puts, hung, nsess>>
  BY DEF _worker_loop
<1>3. \A e \in End : /\ it[e] \in ItemType /\ it[e].st = x.item[e].st /\ it[e].cb = x.item[e].cb
                     /\ x.item[e] = Item("CLOSED") => it[e] = Item("CLOSED")
  BY <1>1, FlushedItem DEF Memory, Session
<1>4. it \in [End -> ItemType]
  BY <1>3
<1> HIDE DEF it
<1>5. /\ Memory(s) /\ SamePackets(x, s) /\ SameRest(x, s) /\ s.item = it
  BY <1>1, <1>4 DEF Memory, Session, SamePackets, SameRest
<1> HIDE DEF s
<1>6. /\ s.live = x.live /\ s.fd = x.fd /\ s.flags = x.flags /\ s.task = x.task
      /\ s.inq = x.inq /\ s.out = x.out /\ s.nalloced = x.nalloced
  BY <1>5 DEF SamePackets, SameRest
<1>7. ASSUME NEW e \in End
      PROVE  Fits(s, e)
  <2>1. Fits(x, e) /\ s.item[e].st = x.item[e].st /\ s.item[e].cb = x.item[e].cb
    BY <1>1, <1>3, <1>5 DEF Wired
  <2>2. x.item[e] = Item("CLOSED") => s.item[e] = Item("CLOSED")
    BY <1>3, <1>5, Zenon
  <2> QED  BY <1>6, <2>1, <2>2 DEF Fits, Halted, Suits
<1>8. s.nalloced = NPackets(s)
  BY <1>1, <1>5, CountSame
<1>9. Wired(s)
  BY <1>1, <1>5, <1>6, <1>7, <1>8, Zenon DEF Wired
<1>10. taskq = <<>> /\ taskq' = <<>>
  BY <1>1, <1>2 DEF Loop
<1>11. \A e \in End : ~Queued(taskq, e) /\ ~Queued(taskq', e)
  BY <1>10, Unqueued
<1>12. \A e \in End : s.inq[e] = <<>>
  BY <1>1, <1>6, <1>11, Zenon DEF Linked
<1>13. Wired(x') /\ Linked(x', taskq')
  BY <1>2, <1>9, <1>10, <1>12, EmptyLinked
<1>14. Wired(x)' /\ Linked(x, taskq)'
  BY <1>13 DEF Wired, Linked, Memory, NPackets, Fits, Halted, Suits, Runs, BothShut, Queued, Session
<1>15. /\ hung' \subseteq End /\ nlive' \in 0 .. Word - 1 /\ nsess' \in 0 .. MaxSess
       /\ puts' = (IF x'.live THEN 0 ELSE 1) /\ batch' \in Batches /\ phase' = "poll"
  BY <1>1, <1>2, <1>6 DEF Loop
<1>16. ~x'.live => \A e \in End : batch'[e] = {}
  <2> SUFFICES ASSUME ~s.live, NEW e \in End
               PROVE  b[e] = {}
    BY <1>2
  <2>1. s.item[e].pev = {}
    BY <1>9, NoPacketLeft, WiredSound, ItemClosed
  <2> QED  BY <1>2, <2>1 DEF Events
<1>17. \A e \in End : x'.live => x'.fd[e]
  BY <1>1, <1>2, <1>6 DEF Loop
<1>18. \A e \in End : ~Queued(taskq, e)'
  BY <1>11 DEF Queued
<1>19. Loop'
  BY <1>15, <1>16, <1>17, <1>18 DEF Loop
<1> QED  BY <1>14, <1>19 DEF IInv


\* The socket of e is there.
Open(s, e) == [s EXCEPT !.fd[e] = TRUE, !.item[e].st = "READY"]

\* A session without flags and packets, in which e has no callback yet.
Fresh(s, e) ==
  /\ Wired(s) /\ s.live /\ s.item[e].cb = "NULL"
  /\ \A f \in End : s.flags[f] = {} /\ s.inq[f] = <<>>

LEMMA OpenFresh ==
  ASSUME NEW s, NEW e \in End, Fresh(s, e)
  PROVE  LET t == Open(s, e)
         IN /\ Fresh(t, e) /\ t.fd[e] = TRUE /\ t.fd[Peer(e)] = s.fd[Peer(e)]
            /\ t.item[Peer(e)] = s.item[Peer(e)] /\ t.item[e].st = "READY"
<1> DEFINE t == Open(s, e)
           i == [s.item[e] EXCEPT !.st = "READY"]
<1>0. /\ Memory(s) /\ Wired(s) /\ s.live /\ s.item[e].cb = "NULL" /\ Fits(s, Peer(e)) /\ Fits(s, e)
      /\ \A f \in End : s.flags[f] = {} /\ s.inq[f] = <<>>
  BY PeerEnd DEF Fresh, Wired
<1>1. s.item[e] \in ItemType
  BY <1>0 DEF Memory, Session
<1>2. i \in ItemType /\ i.st = "READY" /\ i.cb = "NULL"
  BY <1>0, <1>1 DEF ItemType
<1>3. t = [s EXCEPT !.fd[e] = TRUE, !.item[e] = i]
  BY <1>0 DEF Open, Memory, Session
<1> HIDE DEF i, t
<1>4. Memory(t) /\ SamePackets(s, t) /\ t.live = s.live /\ t.flags = s.flags
  <2>1. t \in Session({t.sent})
    BY <1>0, <1>2, <1>3 DEF Memory, Session
  <2>2. SamePackets(s, t) /\ t.live = s.live /\ t.flags = s.flags
    BY <1>0, <1>3 DEF Memory, Session, SamePackets
  <2> QED  BY <2>1, <2>2 DEF Memory
<1>5. /\ t.fd[e] = TRUE /\ t.fd[Peer(e)] = s.fd[Peer(e)]
      /\ t.item[e] = i /\ t.item[Peer(e)] = s.item[Peer(e)]
  <2>1. s.fd \in [End -> BOOLEAN] /\ s.item \in [End -> ItemType]
    BY <1>0 DEF Memory, Session
  <2>2. t.fd = [s.fd EXCEPT ![e] = TRUE] /\ t.item = [s.item EXCEPT ![e] = i]
    BY <1>0, <1>3 DEF Memory, Session
  <2> QED  BY <2>1, <2>2, PeerEnd
<1>6. \A f \in End : t.flags[f] = {} /\ t.inq[f] = <<>>
  BY <1>0, <1>4, Zenon DEF SamePackets
<1>7. Fits(t, e)
  BY <1>2, <1>5, <1>6, PeerEnd DEF Fits, Halted, Suits
<1>8. Fits(t, Peer(e))
  <2>1. Suits(s, Peer(e))
    BY <1>0, PeerEnd DEF Wired, Fits
  <2>2. Suits(t, Peer(e))
    BY <1>4, <1>5, <2>1, PeerEnd DEF Suits, SamePackets
  <2>3. Halted(t, Peer(e))
    BY <1>6, PeerEnd DEF Halted
  <2> QED  BY <2>2, <2>3 DEF Fits
<1>9. t.nalloced = NPackets(t)
  BY <1>0, <1>4, CountSame
<1>10. Wired(t)
  BY <1>0, <1>4, <1>7, <1>8, <1>9, BothEnds, Zenon DEF Wired
<1> QED  BY <1>0, <1>2, <1>4, <1>5, <1>6, <1>10, Zenon DEF Fresh, t

LEMMA ReadFresh ==
  ASSUME NEW s, NEW e \in End, Fresh(s, e), s.fd[e]
  PROVE  LET t == fd_epoll_alloc_update(s, e, READ, "recv")
         IN /\ Wired(t) /\ t.live /\ t.fd = s.fd /\ t.flags = s.flags /\ t.inq = s.inq
            /\ t.item[Peer(e)] = s.item[Peer(e)]
<1> DEFINE t == fd_epoll_alloc_update(s, e, READ, "recv")
<1>0. /\ Memory(s) /\ Wired(s) /\ s.live /\ Fits(s, e) /\ Fits(s, Peer(e))
      /\ \A f \in End : s.flags[f] = {} /\ s.inq[f] = <<>>
  BY PeerEnd DEF Fresh, Wired
<1>1. /\ Memory(t) /\ SamePackets(s, t) /\ SameRest(s, t)
      /\ t.item[e].st = s.item[e].st /\ t.item[e].cb = "recv"
      /\ t.item[Peer(e)] = s.item[Peer(e)]
  BY <1>0, UpdateShape, FlagTypes
<1> HIDE DEF t
<1>2. t.live = s.live /\ t.fd = s.fd /\ t.flags = s.flags /\ t.inq = s.inq /\ t.out = s.out
  BY <1>1 DEF SamePackets, SameRest
<1>3. Fits(t, e)
  BY <1>0, <1>1, <1>2, PeerEnd DEF Fits, Halted, Suits
<1>4. Fits(t, Peer(e))
  BY <1>0, <1>1, <1>2, PeerEnd, FitsSame, Zenon
<1>5. t.nalloced = NPackets(t)
  BY <1>0, <1>1, CountSame
<1>6. Wired(t)
  BY <1>0, <1>1, <1>2, <1>3, <1>4, <1>5, BothEnds, Zenon DEF Wired
<1> QED  BY <1>0, <1>1, <1>2, <1>6, Zenon DEF t

LEMMA AcceptedWired ==
  /\ Fresh(Accepted, "svr") /\ Accepted.fd["cli"] = TRUE
<1> DEFINE i == session_init
           o == Open(i, "cli")
<1>0. "cli" \in End /\ "svr" \in End /\ Peer("cli") = "svr" /\ Peer("svr") = "cli"
  BY PeerEnd DEF End
<1>1. /\ Memory(i) /\ i.live = TRUE /\ i.nalloced = 0
      /\ \A e \in End : /\ i.fd[e] = FALSE /\ i.inq[e] = <<>> /\ i.out[e] = <<>>
                        /\ i.flags[e] = {} /\ i.item[e] = Item("CLOSED")
  BY InitShape
<1> HIDE DEF i
<1>2. \A e \in End : Fits(i, e)
  BY <1>1, ItemClosed, PeerEnd DEF Fits, Halted, Suits
<1>3. NPackets(i) = 0
  <2>1. i.inq["cli"] = <<>> /\ i.out["cli"] = <<>> /\ i.inq["svr"] = <<>> /\ i.out["svr"] = <<>>
    BY <1>0, <1>1, Zenon
  <2>2. NPackets(i) = Len(<<>>) + Len(<<>>) + Len(<<>>) + Len(<<>>)
    BY <2>1, Zenon DEF NPackets
  <2> QED  BY <2>2
<1>4. Wired(i)
  BY <1>1, <1>2, <1>3 DEF Wired
<1>5. Fresh(i, "cli")
  BY <1>0, <1>1, <1>4, ItemClosed DEF Fresh
<1>6. /\ Fresh(o, "cli") /\ o.fd["cli"] = TRUE /\ o.item["svr"] = i.item["svr"]
  BY <1>0, <1>5, OpenFresh
<1> DEFINE t == fd_epoll_alloc_update(o, "cli", READ, "recv")
<1>7. Accepted = t
  BY DEF Accepted, Open, i
<1> HIDE DEF o
<1>8. /\ Wired(t) /\ t.live /\ t.fd = o.fd /\ t.flags = o.flags /\ t.inq = o.inq
      /\ t.item["svr"] = o.item["svr"]
  BY <1>0, <1>6, ReadFresh
<1> HIDE DEF t
<1>9. t.item["svr"].cb = "NULL"
  BY <1>0, <1>1, <1>6, <1>8, ItemClosed, Zenon
<1>10. Fresh(t, "svr") /\ t.fd["cli"] = TRUE
  BY <1>6, <1>8, <1>9, Zenon DEF Fresh
<1> QED  BY <1>7, <1>10, Zenon

LEMMA ConnectedWired ==
  ASSUME NEW wait \in BOOLEAN
  PROVE  LET t == Connected(Accepted, wait)
         IN Wired(t) /\ t.live /\ \A f \in End : t.fd[f] /\ t.inq[f] = <<>>
<1> DEFINE o == Open(Accepted, "svr")
<1>0. "cli" \in End /\ "svr" \in End /\ Peer("cli") = "svr" /\ Peer("svr") = "cli"
  BY PeerEnd DEF End
<1>1. /\ Fresh(o, "svr") /\ o.fd["svr"] = TRUE /\ o.fd["cli"] = TRUE /\ o.item["svr"].st = "READY"
  <2> DEFINE a == Accepted
  <2>1. Fresh(a, "svr") /\ a.fd["cli"] = TRUE
    BY AcceptedWired
  <2> HIDE DEF a
  <2>2. LET t == Open(a, "svr")
        IN /\ Fresh(t, "svr") /\ t.fd["svr"] = TRUE /\ t.fd[Peer("svr")] = a.fd[Peer("svr")]
           /\ t.item[Peer("svr")] = a.item[Peer("svr")] /\ t.item["svr"].st = "READY"
    BY <1>0, <2>1, OpenFresh
  <2> QED  BY <1>0, <2>1, <2>2, Zenon DEF a
<1>2. CASE wait = FALSE
  <2> DEFINE t == fd_epoll_alloc_update(o, "svr", READ, "recv")
  <2>1. Connected(Accepted, wait) = t
    BY <1>2 DEF Connected, Open
  <2> HIDE DEF o
  <2>2. /\ Wired(t) /\ t.live /\ t.fd = o.fd /\ t.flags = o.flags /\ t.inq = o.inq
        /\ t.item["cli"] = o.item["cli"]
    BY <1>0, <1>1, ReadFresh
  <2> HIDE DEF t
  <2>3. \A f \in End : t.fd[f] /\ t.inq[f] = <<>>
    BY <1>1, <2>2 DEF Fresh, End
  <2> QED  BY <2>1, <2>2, <2>3, Zenon
<1>3. CASE wait = TRUE
  <2> DEFINE F == o.flags["svr"] \cup {"HANDSHAKE"}
             u == [o EXCEPT !.flags["svr"] = F]
             t == fd_epoll_alloc_update(u, "svr", WRITE, "handshake")
  <2>1. Connected(Accepted, wait) = t
    BY <1>3 DEF Connected, Open
  <2> HIDE DEF o
  <2>2. /\ Memory(o) /\ Wired(o) /\ o.live /\ Fits(o, "cli")
        /\ \A f \in End : o.flags[f] = {} /\ o.inq[f] = <<>>
    BY <1>0, <1>1 DEF Fresh, Wired
  <2>3. F \in SUBSET Flag /\ F = {"HANDSHAKE"}
    BY <1>0, <2>2 DEF Flag
  <2> HIDE DEF F
  <2>4. /\ Memory(u) /\ SamePackets(o, u)
        /\ u.live = o.live /\ u.fd = o.fd /\ u.task = o.task /\ u.item = o.item
        /\ u.flags["svr"] = F /\ u.flags["cli"] = o.flags["cli"]
    BY <1>0, <2>2, <2>3 DEF Memory, Session, SamePackets
  <2> HIDE DEF u
  <2>5. /\ Memory(t) /\ SamePackets(u, t) /\ SameRest(u, t)
        /\ t.item["svr"].st = u.item["svr"].st /\ t.item["svr"].cb = "handshake"
        /\ t.item["cli"] = u.item["cli"]
    BY <1>0, <2>4, UpdateShape, FlagTypes
  <2> HIDE DEF t
  <2>6. /\ t.live = o.live /\ t.fd = o.fd /\ SamePackets(o, t)
        /\ t.flags["svr"] = {"HANDSHAKE"} /\ t.flags["cli"] = {}
        /\ t.item["svr"].cb = "handshake" /\ t.item["cli"] = o.item["cli"]
    BY <1>0, <2>2, <2>3, <2>4, <2>5, Zenon DEF SamePackets, SameRest
  <2>7. Fits(t, "svr")
    BY <1>0, <1>1, <2>6 DEF Fits, Halted, Suits
  <2>8. Fits(t, "cli")
    BY <1>0, <1>1, <2>2, <2>6 DEF Fits, Halted, Suits, SamePackets
  <2>9. t.nalloced = NPackets(t)
    BY <2>2, <2>6, CountSame
  <2>10. Wired(t) /\ t.live
    BY <1>0, <2>2, <2>5, <2>6, <2>7, <2>8, <2>9, BothEnds, Zenon DEF Wired
  <2>11. \A f \in End : t.fd[f] /\ t.inq[f] = <<>>
    BY <1>1, <2>2, <2>6 DEF SamePackets, End
  <2> QED  BY <2>1, <2>10, <2>11, Zenon
<1> QED  BY <1>2, <1>3

LEMMA AcceptStep ==
  ASSUME IInv, _worker_accept_client
  PROVE  IInv'
<1>1. Wired(x) /\ Linked(x, taskq) /\ Loop
  BY DEF IInv
<1>2. /\ phase = "poll" /\ ~x.live /\ nsess < MaxSess /\ nsess' = nsess + 1 /\ hung' = {}
      /\ taskq' = taskq /\ phase' = phase /\ batch' = batch
  BY DEF _worker_accept_client
<1>3. taskq = <<>>
  BY <1>1, <1>2 DEF Linked
<1>4. \/ \E wait \in BOOLEAN : x' = Connected(Accepted, wait) /\ nlive' = (nlive + 1) % Word /\ puts' = 0
      \/ /\ x' = _worker_free_session(Accepted, taskq, "cli")
         /\ nlive' = (nlive - 1) % Word /\ puts' = 1
  BY Zenon DEF _worker_accept_client
<1>5. /\ Wired(x') /\ \A f \in End : x'.inq[f] = <<>> /\ (x'.live => x'.fd[f])
      /\ puts' = (IF x'.live THEN 0 ELSE 1)
      /\ nlive' = (nlive + 1) % Word \/ nlive' = (nlive - 1) % Word
  <2>1. ASSUME NEW wait \in BOOLEAN, x' = Connected(Accepted, wait),
               nlive' = (nlive + 1) % Word, puts' = 0
        PROVE  /\ Wired(x') /\ \A f \in End : x'.inq[f] = <<>> /\ (x'.live => x'.fd[f])
               /\ puts' = (IF x'.live THEN 0 ELSE 1)
               /\ nlive' = (nlive + 1) % Word \/ nlive' = (nlive - 1) % Word
    <3> DEFINE t == Connected(Accepted, wait)
    <3>1. Wired(t) /\ t.live /\ \A f \in End : t.fd[f] /\ t.inq[f] = <<>>
      BY ConnectedWired
    <3> HIDE DEF t
    <3>2. x' = t
      BY <2>1 DEF t
    <3> QED  BY <2>1, <3>1, <3>2, Zenon
  <2>2. ASSUME x' = _worker_free_session(Accepted, taskq, "cli"),
               nlive' = (nlive - 1) % Word, puts' = 1
        PROVE  /\ Wired(x') /\ \A f \in End : x'.inq[f] = <<>> /\ (x'.live => x'.fd[f])
               /\ puts' = (IF x'.live THEN 0 ELSE 1)
               /\ nlive' = (nlive + 1) % Word \/ nlive' = (nlive - 1) % Word
    <3> DEFINE a == Accepted
               t == _worker_free_session(a, taskq, "cli")
    <3>1. Wired(a) /\ "cli" \in End
      BY AcceptedWired DEF Fresh, End
    <3> HIDE DEF a
    <3>2. ~Queued(taskq, Peer("cli"))
      BY <1>3, Unqueued, PeerEnd, <3>1
    <3>3. Wired(t) /\ t.live = FALSE
      <4>1. Freed(a, t, taskq, "cli")
        BY <3>1, FreeWired, WiredSound
      <4> QED  BY <3>2, <4>1 DEF Freed
    <3> HIDE DEF t
    <3>4. \A f \in End : t.inq[f] = <<>>
      BY <3>3, NoPacketLeft, WiredSound
    <3>5. x' = t
      BY <2>2 DEF t, a
    <3> QED  BY <2>2, <3>3, <3>4, <3>5, Zenon
  <2> QED  BY <1>4, <2>1, <2>2, Zenon
<1>6. Linked(x', taskq')
  BY <1>2, <1>3, <1>5, EmptyLinked
<1>7. Wired(x)' /\ Linked(x, taskq)'
  BY <1>5, <1>6 DEF Wired, Linked, Memory, NPackets, Fits, Halted, Suits, Runs, BothShut, Queued, Session
<1>8. /\ phase' = "poll" /\ batch' \in Batches /\ (\A e \in End : batch'[e] = {}) /\ hung' \subseteq End
      /\ nsess' \in 0 .. MaxSess /\ nlive \in Int
  BY <1>1, <1>2, ProcWorkAssumption DEF Loop
<1>9. nlive' \in 0 .. Word - 1
  BY <1>5, <1>8, ModWord
<1>10. \A e \in End : ~Queued(taskq, e)'
  <2>1. \A e \in End : ~Queued(taskq', e)
    BY <1>2, <1>3, Unqueued
  <2> QED  BY <2>1 DEF Queued
<1>11. Loop'
  BY <1>5, <1>8, <1>9, <1>10 DEF Loop
<1> QED  BY <1>7, <1>11 DEF IInv

\* The steps that leave the session and the queue alone.
LEMMA PhaseStep ==
  ASSUME IInv, x' = x, taskq' = taskq, batch' = batch, nlive' = nlive, puts' = puts, nsess' = nsess,
         hung' \subseteq End,
         \/ phase' = phase
         \/ phase = "poll" /\ phase' = "task" /\ \A e \in End : batch[e] = {}
         \/ phase = "task" /\ phase' = "wait" /\ taskq = <<>>
  PROVE  IInv'
<1>1. Wired(x) /\ Linked(x, taskq) /\ Loop
  BY DEF IInv
<1>2. Wired(x') /\ Linked(x', taskq')
  BY <1>1, Zenon
<1>3. Wired(x)' /\ Linked(x, taskq)'
  BY <1>2 DEF Wired, Linked, Memory, NPackets, Fits, Halted, Suits, Runs, BothShut, Queued, Session
<1>4. \A e \in End : Queued(taskq, e)' <=> Queued(taskq, e)
  BY DEF Queued
<1>5. Loop'
  <2>1. CASE phase' = phase
    BY <1>1, <1>4, <2>1 DEF Loop
  <2>2. CASE phase = "poll" /\ phase' = "task" /\ \A e \in End : batch[e] = {}
    BY <1>1, <1>4, <2>2 DEF Loop
  <2>3. CASE phase = "task" /\ phase' = "wait" /\ taskq = <<>>
    <3>1. \A e \in End : taskq # <<Peer(e)>>
      BY <2>3
    <3>2. \A e \in End : x.live => x.fd[e]
      BY <1>1, <3>1, Zenon DEF Loop
    <3> QED  BY <1>1, <1>4, <2>3, <3>2 DEF Loop
  <2> QED  BY <2>1, <2>2, <2>3
<1> QED  BY <1>3, <1>5 DEF IInv

LEMMA NextInv ==
  ASSUME IInv, [Next]_vars
  PROVE  IInv'
<1>0. hung \subseteq End
  BY DEF IInv, Loop
<1>1. ASSUME NEW b \in Batches, _worker_loop(b)
      PROVE  IInv'
  BY <1>1, LoopStep
<1>2. ASSUME NEW e \in End, fd_epoll_poll(e)
      PROVE  IInv'
  BY <1>2, PollStep
<1>3. ASSUME NEW e \in End, _worker_run_task(e)
      PROVE  IInv'
  BY <1>3, TaskStep
<1>4. CASE task_run_queue
  BY <1>0, <1>4, PhaseStep DEF task_run_queue
<1>5. CASE RoundEnds
  BY <1>0, <1>5, PhaseStep DEF RoundEnds
<1>6. CASE _worker_accept_client
  BY <1>6, AcceptStep
<1>7. ASSUME NEW e \in End, HangUp(e)
      PROVE  IInv'
  BY <1>0, <1>7, PhaseStep DEF HangUp
<1>8. CASE UNCHANGED vars
  BY <1>0, <1>8, PhaseStep DEF vars
<1> QED  BY <1>1, <1>2, <1>3, <1>4, <1>5, <1>6, <1>7, <1>8 DEF Next, Worker

-----------------------------------------------------------------------------
(* Packets that follow each other.  FlattenSeq is a recursive function, so   *)
(* what it yields is shown by the least packet at which it would differ.    *)

\* The bytes after a up to b.
Run(a, b) == [i \in 1 .. b - a |-> a + i]

\* Packet i of q holds the bytes after off[i - 1] up to off[i].
Cuts(q, a, b, off) ==
  /\ off \in [0 .. Len(q) -> Nat] /\ off[0] = a /\ off[Len(q)] = b
  /\ \A i, j \in 0 .. Len(q) : i <= j => off[i] <= off[j]
  /\ \A i \in 1 .. Len(q) : q[i] = Run(off[i - 1], off[i])

\* The packets of q follow each other without a gap, from a to b.
Contig(q, a, b) == \E off : Cuts(q, a, b, off)

Below == {z \in Nat \X Nat : z[1] < z[2]}

LEMMA BelowWellFounded == IsWellFoundedOn(Below, Nat)
<1>1. IsWellFoundedOn(OpToRel(<, Nat), Nat)
  BY NatLessThanWellFounded
<1>2. Below \cap (Nat \X Nat) \subseteq OpToRel(<, Nat)
  BY DEF Below, OpToRel
<1> QED  BY <1>1, <1>2, IsWellFoundedOnSubrelation

\* The least element of a set of numbers: induction, as an argument about the
\* first place where a property fails.
LEMMA Least ==
  ASSUME NEW T, T \subseteq Nat, T # {}
  PROVE  \E n \in T : \A m \in T : n <= m
<1>1. PICK n \in T : \A m \in T : ~ (<<m, n>> \in Below)
  BY BelowWellFounded, WFMin
<1>2. ASSUME NEW m \in T, m < n PROVE FALSE
  <2>1. <<m, n>> \in Nat \X Nat /\ <<m, n>>[1] = m /\ <<m, n>>[2] = n
    OBVIOUS
  <2> QED  BY <1>1, <1>2, <2>1 DEF Below
<1>3. n \in Nat /\ \A m \in T : m \in Nat
  OBVIOUS
<1> QED  BY <1>2, <1>3

LEMMA RunType ==
  ASSUME NEW a \in Nat, NEW b \in Nat, a <= b
  PROVE  /\ Run(a, b) \in Seq(Nat) /\ Len(Run(a, b)) = b - a
         /\ \A i \in 1 .. b - a : Run(a, b)[i] = a + i
  BY DEF Run

LEMMA RunNone ==
  ASSUME NEW a \in Nat
  PROVE  Run(a, a) = <<>>
  BY DEF Run

LEMMA RunJoin ==
  ASSUME NEW a \in Nat, NEW b \in Nat, NEW c \in Nat, a <= b, b <= c
  PROVE  Run(a, b) \o Run(b, c) = Run(a, c)
<1> DEFINE r == Run(a, b)
           s == Run(b, c)
           t == Run(a, c)
<1>1. r \in Seq(Nat) /\ Len(r) = b - a /\ \A i \in 1 .. b - a : r[i] = a + i
  BY RunType
<1>2. s \in Seq(Nat) /\ Len(s) = c - b /\ \A i \in 1 .. c - b : s[i] = b + i
  BY RunType
<1>3. t \in Seq(Nat) /\ Len(t) = c - a /\ \A i \in 1 .. c - a : t[i] = a + i
  BY RunType
<1> HIDE DEF r, s, t
<1>4. /\ r \o s \in Seq(Nat) /\ Len(r \o s) = Len(r) + Len(s)
      /\ \A i \in 1 .. Len(r) + Len(s) : (r \o s)[i] =
                  IF i <= Len(r) THEN r[i] ELSE s[i - Len(r)]
  BY <1>1, <1>2, ConcatProperties
<1>5. Len(r) + Len(s) = c - a
  BY <1>1, <1>2
<1>6. \A i \in 1 .. c - a : (r \o s)[i] = t[i]
  <2> SUFFICES ASSUME NEW i \in 1 .. c - a PROVE (r \o s)[i] = a + i
    BY <1>3
  <2>1. CASE i <= b - a
    BY <1>1, <1>4, <1>5, <2>1
  <2>2. CASE ~(i <= b - a)
    <3>1. i - (b - a) \in 1 .. c - b /\ b + (i - (b - a)) = a + i
      BY <2>2
    <3> QED  BY <1>1, <1>2, <1>4, <1>5, <2>2, <3>1
  <2> QED  BY <2>1, <2>2
<1>7. r \o s = t
  BY <1>3, <1>4, <1>5, <1>6, SeqEqual
<1> QED  BY <1>7 DEF r, s, t

\* Joining packets that follow each other gives the bytes they cover: at the
\* first packet where that fails, it holds for the ones before.
LEMMA FlattenRun ==
  ASSUME NEW q \in Seq(Seq(Nat)), NEW a \in Nat, NEW b \in Nat, Contig(q, a, b)
  PROVE  FlattenSeq(q) = Run(a, b) /\ a <= b
<1>1. PICK off : Cuts(q, a, b, off)
  BY DEF Contig
<1> DEFINE n == Len(q)
<1>2. n \in Nat /\ off \in [0 .. n -> Nat] /\ off[0] = a /\ off[n] = b
  BY <1>1 DEF Cuts
<1>a. \A i, j \in 0 .. n : i <= j => off[i] <= off[j]
  BY <1>1 DEF Cuts
<1>b. \A i \in 1 .. n : q[i] = Run(off[i - 1], off[i])
  BY <1>1 DEF Cuts
<1>0. a <= b
  BY <1>2, <1>a
<1>3. CASE n = 0
  <2>1. a = b /\ q = <<>>
    BY <1>2, <1>3
  <2>2. FlattenSeq(q) = q
    BY <1>3 DEF FlattenSeq
  <2> QED  BY <1>0, <2>1, <2>2, RunNone
<1>4. CASE n # 0
  <2> DEFINE step(f) == [i \in 1 .. n |-> IF i = 1 THEN q[i] ELSE f[i - 1] \o q[i]]
             flatten == CHOOSE f : f = step(f)
             g == [i \in 1 .. n |-> Run(a, off[i])]
  <2>1. FlattenSeq(q) = flatten[n]
    BY <1>4 DEF FlattenSeq
  <2> HIDE DEF n
  <2>a. \A i \in 1 .. n : /\ a <= off[i] /\ off[i] \in Nat
                          /\ i - 1 \in 0 .. n /\ off[i - 1] \in Nat /\ a <= off[i - 1] /\ off[i - 1] <= off[i]
    BY <1>2, <1>a
  <2>2. g = step(g)
    <3>1. ASSUME NEW i \in 1 .. n, i # 1
          PROVE  Run(a, off[i]) = Run(a, off[i - 1]) \o q[i]
      <4>1. Run(a, off[i - 1]) \o Run(off[i - 1], off[i]) = Run(a, off[i])
        BY <2>a, RunJoin
      <4> QED  BY <1>b, <4>1
    <3>2. 1 \in 1 .. n /\ Run(a, off[1]) = q[1]
      BY <1>2, <1>4, <1>b
    <3>3. \A i \in 1 .. n : i # 1 => i - 1 \in 1 .. n
      BY <1>2
    <3> QED  BY <3>1, <3>2, <3>3
  <2>3. flatten = step(flatten)
    BY <2>2
  <2> HIDE DEF flatten
  <2>4. \A i \in 1 .. n : flatten[i] = IF i = 1 THEN q[i] ELSE flatten[i - 1] \o q[i]
    BY <2>3
  <2> DEFINE Bad == {i \in 1 .. n : flatten[i] # Run(a, off[i])}
  <2>5. Bad = {}
    <3> SUFFICES ASSUME Bad # {} PROVE FALSE
      OBVIOUS
    <3>0. Bad \subseteq Nat
      BY <1>2
    <3>1. PICK i \in Bad : \A j \in Bad : i <= j
      <4> HIDE DEF Bad
      <4> QED  BY <3>0, Least
    <3>2. i \in 1 .. n /\ flatten[i] # Run(a, off[i])
      OBVIOUS
    <3>3. CASE i = 1
      BY <1>2, <1>b, <2>4, <3>2, <3>3
    <3>4. CASE i # 1
      <4>1. i - 1 \in 1 .. n /\ ~(i <= i - 1)
        BY <1>2, <3>2, <3>4
      <4>2. flatten[i - 1] = Run(a, off[i - 1])
        BY <3>1, <4>1
      <4>3. Run(a, off[i - 1]) \o Run(off[i - 1], off[i]) = Run(a, off[i])
        BY <2>a, <3>2, RunJoin
      <4> QED  BY <1>b, <2>4, <3>2, <3>4, <4>2, <4>3
    <3> QED  BY <3>3, <3>4
  <2>6. n \in 1 .. n
    BY <1>2, <1>4
  <2> QED  BY <1>0, <1>2, <2>1, <2>5, <2>6
<1> QED  BY <1>3, <1>4

LEMMA ContigNone ==
  ASSUME NEW a \in Nat
  PROVE  Contig(<<>>, a, a)
<1>1. Cuts(<<>>, a, a, [i \in 0 .. 0 |-> a])
  BY DEF Cuts
<1> QED  BY <1>1 DEF Contig

LEMMA ContigOne ==
  ASSUME NEW a \in Nat, NEW b \in Nat, a <= b
  PROVE  Contig(<<Run(a, b)>>, a, b)
<1> DEFINE off == [i \in 0 .. 1 |-> IF i = 0 THEN a ELSE b]
           q == <<Run(a, b)>>
<1>1. Len(q) = 1 /\ q[1] = Run(a, b)
  OBVIOUS
<1> HIDE DEF q
<1>2. Cuts(q, a, b, off)
  BY <1>1 DEF Cuts
<1> QED  BY <1>2 DEF Contig, q

LEMMA ContigJoin ==
  ASSUME NEW q \in Seq(Seq(Nat)), NEW r \in Seq(Seq(Nat)), NEW a \in Nat, NEW b \in Nat, NEW c \in Nat,
         Contig(q, a, b), Contig(r, b, c)
  PROVE  Contig(q \o r, a, c)
<1>1. PICK f : Cuts(q, a, b, f)
  BY DEF Contig
<1>2. PICK g : Cuts(r, b, c, g)
  BY DEF Contig
<1> DEFINE m == Len(q)
           n == Len(r)
           t == q \o r
           h == [i \in 0 .. m + n |-> IF i <= m THEN f[i] ELSE g[i - m]]
<1>3. /\ m \in Nat /\ n \in Nat /\ Len(t) = m + n
      /\ \A i \in 1 .. m + n : t[i] = IF i <= m THEN q[i] ELSE r[i - m]
  BY ConcatProperties
<1>4. /\ f \in [0 .. m -> Nat] /\ f[0] = a /\ f[m] = b
      /\ \A i, j \in 0 .. m : i <= j => f[i] <= f[j]
      /\ \A i \in 1 .. m : q[i] = Run(f[i - 1], f[i])
  BY <1>1 DEF Cuts
<1>5. /\ g \in [0 .. n -> Nat] /\ g[0] = b /\ g[n] = c
      /\ \A i, j \in 0 .. n : i <= j => g[i] <= g[j]
      /\ \A i \in 1 .. n : r[i] = Run(g[i - 1], g[i])
  BY <1>2 DEF Cuts
<1> HIDE DEF m, n, t
<1>6. h \in [0 .. m + n -> Nat] /\ h[0] = a
  BY <1>3, <1>4, <1>5
<1>7. \A i \in 0 .. n : h[m + i] = g[i]
  BY <1>3, <1>4, <1>5
<1>8. \A i \in 0 .. m : h[i] = f[i]
  BY <1>3
<1> HIDE DEF h
<1>9. h[m + n] = c
  <2>1. n \in 0 .. n
    BY <1>3
  <2> QED  BY <1>5, <1>7, <2>1
<1>10. ASSUME NEW i \in 0 .. m + n, NEW j \in 0 .. m + n, i <= j
       PROVE  h[i] <= h[j]
  <2>1. CASE j <= m
    BY <1>3, <1>4, <1>8, <1>10, <2>1
  <2>2. CASE ~(i <= m)
    <3>1. i - m \in 0 .. n /\ j - m \in 0 .. n /\ i - m <= j - m /\ m + (i - m) = i /\ m + (j - m) = j
      BY <1>3, <1>10, <2>2
    <3>2. h[i] = g[i - m] /\ h[j] = g[j - m]
      BY <1>7, <3>1
    <3> QED  BY <1>5, <3>1, <3>2
  <2>3. CASE i <= m /\ ~(j <= m)
    <3>1. i \in 0 .. m /\ j - m \in 0 .. n /\ m + (j - m) = j /\ m \in 0 .. m /\ 0 \in 0 .. n /\ 0 <= j - m
      BY <1>3, <2>3
    <3>2. h[i] = f[i] /\ h[j] = g[j - m]
      BY <1>7, <1>8, <3>1
    <3>3. f[i] <= b /\ b <= g[j - m] /\ f[i] \in Nat /\ g[j - m] \in Nat
      BY <1>4, <1>5, <2>3, <3>1
    <3> QED  BY <3>2, <3>3
  <2> QED  BY <2>1, <2>2, <2>3
<1>11. ASSUME NEW i \in 1 .. m + n
       PROVE  t[i] = Run(h[i - 1], h[i])
  <2>1. CASE i <= m
    <3>1. i \in 1 .. m /\ i \in 0 .. m /\ i - 1 \in 0 .. m
      BY <1>3, <2>1
    <3> QED  BY <1>3, <1>4, <1>8, <2>1, <3>1
  <2>2. CASE ~(i <= m)
    <3>1. i - m \in 1 .. n /\ i - m \in 0 .. n /\ (i - m) - 1 \in 0 .. n
          /\ m + (i - m) = i /\ m + ((i - m) - 1) = i - 1
      BY <1>3, <2>2
    <3>2. h[i] = g[i - m] /\ h[i - 1] = g[(i - m) - 1]
      BY <1>7, <3>1
    <3>3. t[i] = r[i - m]
      BY <1>3, <2>2
    <3> QED  BY <1>5, <3>1, <3>2, <3>3
  <2> QED  BY <2>1, <2>2
<1>12. Cuts(t, a, c, h)
  BY <1>3, <1>6, <1>9, <1>10, <1>11 DEF Cuts
<1> QED  BY <1>12 DEF Contig, t

\* The packets that were sent whole, and the others.
LEMMA ContigSplit ==
  ASSUME NEW q \in Seq(Seq(Nat)), NEW a \in Nat, NEW b \in Nat, Contig(q, a, b),
         NEW k \in 0 .. Len(q)
  PROVE  \E m \in Nat : /\ a <= m /\ m <= b
                        /\ Contig(SubSeq(q, 1, k), a, m)
                        /\ Contig(SubSeq(q, k + 1, Len(q)), m, b)
<1>1. PICK f : Cuts(q, a, b, f)
  BY DEF Contig
<1> DEFINE n == Len(q)
           l == SubSeq(q, 1, k)
           r == SubSeq(q, k + 1, Len(q))
           fl == [i \in 0 .. k |-> f[i]]
           fr == [i \in 0 .. n - k |-> f[k + i]]
<1>2. /\ f \in [0 .. n -> Nat] /\ f[0] = a /\ f[n] = b
      /\ \A i, j \in 0 .. n : i <= j => f[i] <= f[j]
      /\ \A i \in 1 .. n : q[i] = Run(f[i - 1], f[i])
  BY <1>1 DEF Cuts
<1>3. /\ n \in Nat /\ k \in Nat /\ k <= n
      /\ Len(l) = k /\ (\A i \in 1 .. k : l[i] = q[i])
      /\ Len(r) = n - k /\ \A i \in 1 .. n - k : r[i] = q[k + i]
  <2>1. n \in Nat /\ k \in Nat /\ k <= n
    OBVIOUS
  <2>2. Len(l) = k /\ (\A i \in 1 .. k : l[i] = q[i])
    BY <2>1
  <2>3. Len(r) = n - k /\ \A i \in 1 .. n - k : r[i] = q[k + i]
    BY <2>1
  <2> QED  BY <2>1, <2>2, <2>3
<1> HIDE DEF n, l, r
<1>4. Cuts(l, a, f[k], fl)
  <2>1. fl \in [0 .. k -> Nat] /\ fl[0] = a /\ fl[k] = f[k]
    BY <1>2, <1>3
  <2>2. \A i, j \in 0 .. k : i <= j => fl[i] <= fl[j]
    BY <1>2, <1>3
  <2>3. ASSUME NEW i \in 1 .. k PROVE l[i] = Run(fl[i - 1], fl[i])
    <3>1. i \in 1 .. n /\ i - 1 \in 0 .. k /\ i \in 0 .. k
      BY <1>3
    <3> QED  BY <1>2, <1>3, <3>1
  <2> HIDE DEF fl
  <2> QED  BY <1>3, <2>1, <2>2, <2>3 DEF Cuts
<1>5. Cuts(r, f[k], b, fr)
  <2>1. fr \in [0 .. n - k -> Nat] /\ fr[0] = f[k] /\ fr[n - k] = b
    BY <1>2, <1>3
  <2>2. \A i, j \in 0 .. n - k : i <= j => fr[i] <= fr[j]
    BY <1>2, <1>3
  <2>3. ASSUME NEW i \in 1 .. n - k PROVE r[i] = Run(fr[i - 1], fr[i])
    <3>1. k + i \in 1 .. n /\ i - 1 \in 0 .. n - k /\ i \in 0 .. n - k /\ (k + i) - 1 = k + (i - 1)
      BY <1>3
    <3> QED  BY <1>2, <1>3, <3>1
  <2> HIDE DEF fr
  <2> QED  BY <1>3, <2>1, <2>2, <2>3 DEF Cuts
<1>6. f[k] \in Nat /\ a <= f[k] /\ f[k] <= b
  BY <1>2, <1>3
<1> QED  BY <1>4, <1>5, <1>6 DEF Contig, n, l, r

\* The first packet without its first m bytes.
LEMMA ContigAdvance ==
  ASSUME NEW q \in Seq(Seq(Nat)), NEW a \in Nat, NEW b \in Nat, Contig(q, a, b), q # <<>>,
         NEW m \in Nat, m <= Len(q[1])
  PROVE  /\ SubSeq(q[1], 1, m) = Run(a, a + m)
         /\ Contig([q EXCEPT ![1] = SubSeq(q[1], m + 1, Len(q[1]))], a + m, b)
         /\ a + m <= b
<1>1. PICK f : Cuts(q, a, b, f)
  BY DEF Contig
<1> DEFINE n == Len(q)
           p == q[1]
           t == [q EXCEPT ![1] = SubSeq(p, m + 1, Len(p))]
           c == f[1]
           g == [i \in 0 .. n |-> IF i = 0 THEN a + m ELSE f[i]]
<1>2. /\ f \in [0 .. n -> Nat] /\ f[0] = a /\ f[n] = b
      /\ \A i, j \in 0 .. n : i <= j => f[i] <= f[j]
      /\ \A i \in 1 .. n : q[i] = Run(f[i - 1], f[i])
  BY <1>1 DEF Cuts
<1>3. n \in Nat /\ n >= 1 /\ p \in Seq(Nat)
  OBVIOUS
<1>4. c \in Nat /\ a <= c /\ c <= b /\ p = Run(a, c)
  <2>1. 0 \in 0 .. n /\ 1 \in 0 .. n /\ n \in 0 .. n /\ 1 \in 1 .. n /\ 1 - 1 = 0
    BY <1>3
  <2>2. q[1] = Run(f[1 - 1], f[1])
    BY <1>2, <2>1
  <2>3. f[0] <= f[1] /\ f[1] <= f[n] /\ f[1] \in Nat
    <3>1. 0 <= 1 /\ 1 <= n
      BY <1>3
    <3> HIDE DEF n
    <3> QED  BY <1>2, <2>1, <3>1
  <2> QED  BY <1>2, <2>1, <2>2, <2>3
<1> HIDE DEF c
<1>5. Len(p) = c - a /\ \A i \in 1 .. c - a : p[i] = a + i
  <2>1. Len(Run(a, c)) = c - a /\ \A i \in 1 .. c - a : Run(a, c)[i] = a + i
    BY <1>4, RunType
  <2> QED  BY <1>4, <2>1
<1>6. a + m <= c /\ m <= Len(p)
  BY <1>4, <1>5
<1>7. Len(t) = n /\ t[1] = SubSeq(p, m + 1, Len(p)) /\ \A i \in 2 .. n : t[i] = q[i]
  BY <1>3
<1> HIDE DEF n, p, t
<1>8. SubSeq(p, 1, m) = Run(a, a + m)
  BY <1>3, <1>5, <1>6 DEF Run
<1>9. SubSeq(p, m + 1, Len(p)) = Run(a + m, c)
  <2> DEFINE u == SubSeq(p, m + 1, Len(p))
             v == Run(a + m, c)
             d == c - (a + m)
  <2>1. d \in Nat /\ Len(p) - m = d
    BY <1>4, <1>5, <1>6
  <2>2. u \in Seq(Nat) /\ Len(u) = d /\ \A i \in 1 .. d : u[i] = p[m + i]
    BY <1>3, <1>6, <2>1
  <2>3. v \in Seq(Nat) /\ Len(v) = d /\ \A i \in 1 .. d : v[i] = a + m + i
    <3> DEFINE e == a + m
    <3>1. e \in Nat /\ e <= c
      BY <1>6
    <3>2. \A i \in 1 .. d : e + i = a + m + i
      BY <1>4
    <3> HIDE DEF e
    <3>3. /\ Run(e, c) \in Seq(Nat) /\ Len(Run(e, c)) = c - e
          /\ \A i \in 1 .. c - e : Run(e, c)[i] = e + i
      BY <1>4, <3>1, RunType
    <3> QED  BY <3>2, <3>3 DEF e
  <2>4. \A i \in 1 .. d : p[m + i] = a + m + i
    BY <1>4, <1>5, <1>6
  <2> HIDE DEF u, v, d
  <2>5. u = v
    BY <2>2, <2>3, <2>4, SeqEqual
  <2> QED  BY <2>5 DEF u, v
<1>10. Cuts(t, a + m, b, g)
  <2>1. g \in [0 .. n -> Nat] /\ g[0] = a + m /\ g[n] = b
    BY <1>2, <1>3
  <2>2. \A i, j \in 0 .. n : i <= j => g[i] <= g[j]
    <3>1. \A j \in 1 .. n : a + m <= f[j] /\ f[j] \in Nat
      BY <1>2, <1>3, <1>4, <1>6 DEF c
    <3> QED  BY <1>2, <1>3, <3>1
  <2>3. ASSUME NEW i \in 1 .. n PROVE t[i] = Run(g[i - 1], g[i])
    <3>1. CASE i = 1
      <4>1. g[0] = a + m /\ g[1] = c /\ i - 1 = 0
        BY <1>3, <3>1 DEF c
      <4> QED  BY <1>7, <1>9, <3>1, <4>1
    <3>2. CASE i # 1
      <4>1. i \in 2 .. n /\ i - 1 # 0 /\ i - 1 \in 0 .. n /\ i \in 0 .. n /\ i # 0
        BY <1>3, <3>2
      <4> QED  BY <1>2, <1>7, <4>1
    <3> QED  BY <3>1, <3>2
  <2> HIDE DEF g
  <2> QED  BY <1>7, <2>1, <2>2, <2>3 DEF Cuts
<1>11. a + m <= b
  BY <1>4, <1>6
<1> QED  BY <1>8, <1>10, <1>11 DEF Contig, t, p

-----------------------------------------------------------------------------
(* What was received is sent, waits to be sent or waits to be parsed.       *)

\* What went to an end (z), what waits for it (o) and what came from its peer and
\* is not parsed yet (i) are, one after the other, the g bytes that came.
Flow(z, o, i, g) == \E n, m \in Nat : z = Run(0, n) /\ Contig(o, n, m) /\ Contig(i, m, g)

FlowTo(s, e) == Flow(s.sent[e], s.out[e], s.inq[Peer(e)], s.got[Peer(e)])

LeadTo(s, e) == \E n \in 0 .. s.got[Peer(e)] : s.sent[e] = Run(0, n)

AllOpen(s) == \A e \in End : s.fd[e]

\* The queues of a session that is being deleted are dropped: then all that is
\* left is that what was sent is the beginning of what came.
Streams(s) ==
  /\ s.sent \in [End -> Seq(Nat)]
  /\ \A e \in End : LeadTo(s, e)
  /\ AllOpen(s) => \A e \in End : FlowTo(s, e)

Good(s) == Memory(s) /\ Streams(s)

LEMMA FlowLead ==
  ASSUME NEW s, Memory(s), NEW e \in End, FlowTo(s, e)
  PROVE  LeadTo(s, e)
<1>0. Peer(e) \in End
  BY PeerEnd
<1>1. /\ s.out[e] \in Seq(Seq(Nat)) /\ s.inq[Peer(e)] \in Seq(Seq(Nat)) /\ s.got[Peer(e)] \in Nat
  BY <1>0 DEF Memory, Session, Packets
<1>2. PICK n \in Nat, m \in Nat : /\ s.sent[e] = Run(0, n)
                                  /\ Contig(s.out[e], n, m) /\ Contig(s.inq[Peer(e)], m, s.got[Peer(e)])
  BY DEF FlowTo, Flow
<1>3. n <= m /\ m <= s.got[Peer(e)]
  BY <1>1, <1>2, FlattenRun
<1>4. n \in 0 .. s.got[Peer(e)]
  BY <1>1, <1>3
<1> QED  BY <1>2, <1>4 DEF LeadTo

LEMMA FlowStreams ==
  ASSUME NEW s, Memory(s), s.sent \in [End -> Seq(Nat)], NEW e \in End,
         FlowTo(s, e), FlowTo(s, Peer(e))
  PROVE  Good(s)
<1>1. \A f \in End : FlowTo(s, f)
  BY PeerEnd
<1>2. \A f \in End : LeadTo(s, f)
  BY <1>1, FlowLead
<1> QED  BY <1>1, <1>2 DEF Good, Streams

Same(s, t) ==
  t.fd = s.fd /\ t.inq = s.inq /\ t.out = s.out /\ t.got = s.got /\ t.sent = s.sent

LEMMA SameStreams ==
  ASSUME NEW s, NEW t, Streams(s), Same(s, t)
  PROVE  Streams(t)
  BY Zenon DEF Streams, Same, AllOpen, FlowTo, LeadTo

LEMMA SameUpdate ==
  ASSUME NEW s, Good(s), NEW e \in End, NEW ev \in SUBSET Mask, NEW cb \in Callback
  PROVE  Good(fd_epoll_alloc_update(s, e, ev, cb))
<1> DEFINE t == fd_epoll_alloc_update(s, e, ev, cb)
<1>1. Memory(s) /\ Streams(s)
  BY DEF Good
<1>2. Memory(t)
  BY <1>1, UpdateShape
<1>3. Same(s, t)
  BY <1>1 DEF Same, fd_epoll_alloc_update, Memory, Session
<1> QED  BY <1>1, <1>2, <1>3, SameStreams DEF Good

LEMMA SameFlags ==
  ASSUME NEW s, Good(s), NEW e \in End, NEW F \in SUBSET Flag
  PROVE  Good([s EXCEPT !.flags[e] = F])
<1> DEFINE t == [s EXCEPT !.flags[e] = F]
<1>1. Memory(s) /\ Streams(s)
  BY DEF Good
<1>2. Memory(t)
  BY <1>1, FlagShape
<1>3. Same(s, t)
  BY <1>1 DEF Same, Memory, Session
<1> QED  BY <1>1, <1>2, <1>3, SameStreams DEF Good

LEMMA SameTask ==
  ASSUME NEW s, Good(s), NEW e \in End, NEW v \in Task
  PROVE  Good([s EXCEPT !.task[e] = v])
<1> DEFINE t == [s EXCEPT !.task[e] = v]
<1>1. Memory(s) /\ Streams(s)
  BY DEF Good
<1>2. Memory(t)
  BY <1>1, TaskShape
<1>3. Same(s, t)
  BY <1>1 DEF Same, Memory, Session
<1> QED  BY <1>1, <1>2, <1>3, SameStreams DEF Good

LEMMA SameStop ==
  ASSUME NEW s, Good(s), NEW e \in End
  PROVE  Good([s EXCEPT !.item[e].st = "STOP"])
<1> DEFINE t == [s EXCEPT !.item[e].st = "STOP"]
<1>1. Memory(s) /\ Streams(s)
  BY DEF Good
<1>2. Memory(t)
  BY <1>1, StopShape
<1>3. Same(s, t)
  BY <1>1 DEF Same, Memory, Session
<1> QED  BY <1>1, <1>2, <1>3, SameStreams DEF Good

\* Freeing drops the queues; what was received and sent is not touched.
LEMMA FreeStreams ==
  ASSUME NEW s, Good(s), NEW q, NEW e \in End
  PROVE  Good(_worker_free_session(s, q, e))
<1>0. Peer(e) \in End /\ "DELETE" \in Task
  BY PeerEnd DEF Task
<1>1. ASSUME NEW r, Good(r), NEW f \in End
      PROVE  Good(_worker_free_session_data(r, f))
  <2> DEFINE t == _worker_free_session_data(r, f)
  <2>1. Memory(r) /\ Streams(r)
    BY <1>1 DEF Good
  <2>2. Memory(t) /\ t.fd[f] = FALSE
    BY <2>1, FreeDataShape
  <2>3. t.got = r.got /\ t.sent = r.sent
    BY <2>1 DEF _worker_free_session_data, Memory, Session
  <2> HIDE DEF t
  <2>4. ~AllOpen(t)
    BY <2>2 DEF AllOpen
  <2>5. Streams(t)
    BY <2>1, <2>3, <2>4, Zenon DEF Streams, LeadTo
  <2> QED  BY <2>2, <2>5 DEF Good, t
<1> DEFINE t == _worker_free_session_data(s, e)
           u == _worker_free_session_data(t, Peer(e))
           v == [u EXCEPT !.live = FALSE]
<1>2. Good(t)
  BY <1>1
<1> HIDE DEF t
<1>3. Good([t EXCEPT !.task[Peer(e)] = "DELETE"])
  BY <1>0, <1>2, SameTask
<1>4. Good(u)
  BY <1>0, <1>1, <1>2
<1> HIDE DEF u
<1>5. Good(v)
  <2>1. Memory(u) /\ Streams(u)
    BY <1>4 DEF Good
  <2>2. Memory(v) /\ Same(u, v)
    BY <2>1 DEF Same, Memory, Session
  <2> HIDE DEF v
  <2> QED  BY <2>1, <2>2, SameStreams DEF Good
<1> HIDE DEF v
<1>6. _worker_free_session(s, q, e) = IF Delayed(q, e) THEN [t EXCEPT !.task[Peer(e)] = "DELETE"] ELSE v
  BY DEF _worker_free_session, t, u, v
<1> QED  BY <1>3, <1>5, <1>6

\* A queue without bytes ends where it begins.
LEMMA ContigEmpty ==
  ASSUME NEW q, NEW a \in Nat, NEW b \in Nat, Contig(q, a, b), q = <<>> \/ q = << <<>> >>
  PROVE  a = b
<1>1. PICK off : Cuts(q, a, b, off)
  BY DEF Contig
<1>2. CASE q = <<>>
  BY <1>1, <1>2 DEF Cuts
<1>3. CASE q = << <<>> >>
  <2>1. Len(q) = 1 /\ q[1] = <<>>
    BY <1>3
  <2>2. off[0] = a /\ off[1] = b /\ off[0] <= off[1] /\ q[1] = Run(off[0], off[1])
    BY <1>1, <2>1 DEF Cuts
  <2>3. Len(Run(a, b)) = b - a /\ Run(a, b) = <<>>
    BY <2>1, <2>2, RunType
  <2> QED  BY <2>3
<1> QED  BY <1>2, <1>3

LEMMA ReceivedStreams ==
  ASSUME Good(x), AllOpen(x), NEW e \in End, x.inq[e] = <<>>, NEW k \in Nat
  PROVE  Good(Received(e, k))
<1> DEFINE t == Received(e, k)
           p == [i \in 1 .. k |-> x.got[e] + i]
           g == x.got[e]
<1>0. Memory(x) /\ Streams(x) /\ Peer(e) \in End /\ Peer(e) # e /\ Peer(Peer(e)) = e
  BY PeerEnd DEF Good
<1>1. /\ x.sent \in [End -> Seq(Nat)] /\ FlowTo(x, e) /\ FlowTo(x, Peer(e))
      /\ g \in Nat
  BY <1>0 DEF Streams, Memory, Session
<1>2. Memory(t)
  BY <1>0, ReceivedShape
<1>3. /\ t.sent = x.sent /\ t.out = x.out
      /\ t.inq[e] = Append(x.inq[e], p) /\ t.inq[Peer(e)] = x.inq[Peer(e)]
      /\ t.got[e] = g + k /\ t.got[Peer(e)] = x.got[Peer(e)]
  BY <1>0 DEF Received, Memory, Session
<1>4. p = Run(g, g + k)
  BY <1>1 DEF Run
<1> HIDE DEF t, p
<1>5. t.inq[e] = <<Run(g, g + k)>>
  BY <1>3, <1>4
<1>6. FlowTo(t, e)
  BY <1>1, <1>3, Zenon DEF FlowTo
<1>7. FlowTo(t, Peer(e))
  <2>1. PICK n \in Nat, m \in Nat : /\ x.sent[Peer(e)] = Run(0, n)
                                    /\ Contig(x.out[Peer(e)], n, m) /\ Contig(x.inq[e], m, g)
    BY <1>0, <1>1 DEF FlowTo, Flow
  <2>2. m = g
    BY <1>1, <2>1, ContigEmpty
  <2> DEFINE h == g + k
  <2>3. h \in Nat /\ g <= h
    BY <1>1
  <2> HIDE DEF h, g
  <2>4. Contig(<<Run(g, h)>>, g, h)
    BY <1>1, <2>3, ContigOne
  <2> QED  BY <1>0, <1>3, <1>5, <2>1, <2>2, <2>4, Zenon DEF FlowTo, Flow, h
<1>8. t.sent \in [End -> Seq(Nat)]
  BY <1>1, <1>3
<1> QED  BY <1>2, <1>6, <1>7, <1>8, FlowStreams DEF t

LEMMA ParsedStreams ==
  ASSUME NEW s, Good(s), AllOpen(s), NEW e \in End
  PROVE  Good(_worker_parse_data(s, e))
<1> DEFINE t == _worker_parse_data(s, e)
           full == IF s.inq[e] = << <<>> >> THEN <<>> ELSE s.inq[e]
           o == s.out[Peer(e)]
           i == s.inq[e]
           g == s.got[e]
<1>0. Memory(s) /\ Streams(s) /\ Peer(e) \in End /\ Peer(e) # e /\ Peer(Peer(e)) = e
  BY PeerEnd DEF Good
<1>1. /\ s.sent \in [End -> Seq(Nat)] /\ FlowTo(s, e) /\ FlowTo(s, Peer(e))
      /\ g \in Nat /\ o \in Seq(Seq(Nat)) /\ i \in Seq(Seq(Nat))
  BY <1>0 DEF Streams, Memory, Session, Packets
<1>2. /\ Memory(t) /\ t.inq[e] = <<>> /\ t.inq[Peer(e)] = s.inq[Peer(e)] /\ t.out[e] = s.out[e]
  BY <1>0, ParsedShape
<1>3. t.sent = s.sent /\ t.got = s.got /\ t.out[Peer(e)] = o \o full
  BY <1>0 DEF _worker_parse_data, Memory, Session
<1> HIDE DEF t
<1>4. FlowTo(t, e)
  BY <1>1, <1>2, <1>3, Zenon DEF FlowTo
<1>5. FlowTo(t, Peer(e))
  <2>1. PICK n \in Nat, m \in Nat : /\ s.sent[Peer(e)] = Run(0, n)
                                    /\ Contig(o, n, m) /\ Contig(i, m, g)
    BY <1>0, <1>1 DEF FlowTo, Flow
  <2>2. Contig(o \o full, n, g)
    <3>1. CASE i = << <<>> >>
      <4>1. m = g
        BY <1>1, <2>1, <3>1, ContigEmpty
      <4>2. o \o full = o
        BY <1>1, <3>1
      <4> QED  BY <2>1, <4>1, <4>2
    <3>2. CASE i # << <<>> >>
      <4>1. full = i
        BY <3>2
      <4>2. Contig(o \o i, n, g)
        BY <1>1, <2>1, ContigJoin
      <4> QED  BY <4>1, <4>2
    <3> QED  BY <3>1, <3>2
  <2>3. Contig(<<>>, g, g)
    BY <1>1, ContigNone
  <2> HIDE DEF full, o
  <2>4. Flow(t.sent[Peer(e)], t.out[Peer(e)], t.inq[e], t.got[e])
    BY <1>1, <1>2, <1>3, <2>1, <2>2, <2>3, Zenon DEF Flow
  <2> QED  BY <1>0, <2>4, Zenon DEF FlowTo
<1>6. t.sent \in [End -> Seq(Nat)]
  BY <1>1, <1>3
<1> QED  BY <1>2, <1>4, <1>5, <1>6, FlowStreams DEF t

LEMMA SubSeqRest ==
  ASSUME NEW q \in Seq(Seq(Nat)), NEW k \in Nat, k < Len(q)
  PROVE  /\ Len(SubSeq(q, k + 1, Len(q))) = Len(q) - k
         /\ SubSeq(q, k + 1, Len(q))[1] = q[k + 1]
<1>1. Len(q) \in Nat /\ Len(q) \in Int /\ k + 1 \in Int /\ k + 1 <= Len(q)
  OBVIOUS
<1>2. \A i \in k + 1 .. Len(q) : q[i] \in Seq(Nat)
  OBVIOUS
<1> DEFINE j == k + 1
           n == Len(q)
<1> HIDE DEF j, n
<1>3. /\ Len(SubSeq(q, j, n)) = (IF j <= n THEN n - j + 1 ELSE 0)
      /\ \A i \in 1 .. n - j + 1 : SubSeq(q, j, n)[i] = q[j + i - 1]
  <2>1. j \in Int /\ n \in Int /\ \A i \in j .. n : q[i] \in Seq(Nat)
    BY <1>1, <1>2 DEF j, n
  <2> DEFINE S == Seq(Nat)
  <2>2. \A i \in j .. n : q[i] \in S
    BY <2>1
  <2> HIDE DEF S
  <2> QED  BY <2>1, <2>2, SubSeqProperties
<1>4. n - j + 1 = Len(q) - k /\ 1 \in 1 .. n - j + 1 /\ j <= n /\ j + 1 - 1 = k + 1
  BY <1>1 DEF j, n
<1>5. Len(SubSeq(q, j, n)) = Len(q) - k /\ SubSeq(q, j, n)[1] = q[k + 1]
  <2>1. SubSeq(q, j, n)[1] = q[j + 1 - 1]
    BY <1>3, <1>4, Zenon
  <2>2. Len(SubSeq(q, j, n)) = n - j + 1
    BY <1>3, <1>4, Zenon
  <2> QED  BY <1>4, <2>1, <2>2, Zenon
<1> QED  BY <1>5 DEF j, n

LEMMA TakenStreams ==
  ASSUME NEW s, Good(s), AllOpen(s), NEW e \in End, NEW o \in Outcome(s, e)
  PROVE  Good(Taken(s, e, o))
<1> DEFINE t == Taken(s, e, o)
           q == s.out[e]
           left == SubSeq(q, 1, o.k)
           rest == SubSeq(q, o.k + 1, Len(q))
           out == IF o.m > 0 THEN [rest EXCEPT ![1] = Advance(@, o.m)] ELSE rest
           part == IF o.m > 0 THEN SubSeq(q[o.k + 1], 1, o.m) ELSE <<>>
           new == s.sent[e] \o FlattenSeq(left) \o part
           g == s.got[Peer(e)]
<1>0. Memory(s) /\ Streams(s) /\ Peer(e) \in End /\ Peer(e) # e /\ Peer(Peer(e)) = e
  BY PeerEnd DEF Good
<1>1. /\ s.sent \in [End -> Seq(Nat)] /\ FlowTo(s, e) /\ FlowTo(s, Peer(e))
      /\ g \in Nat /\ q \in Seq(Seq(Nat))
  BY <1>0 DEF Streams, Memory, Session, Packets
<1>2. /\ Memory(t) /\ t.inq = s.inq /\ t.out[Peer(e)] = s.out[Peer(e)]
  BY <1>0, TakenShape
<1>3. /\ t.got = s.got /\ t.sent = [s.sent EXCEPT ![e] = new] /\ t.out[e] = out
  BY <1>0 DEF Taken, Memory, Session
<1>4. /\ o.k \in 0 .. Len(q) /\ o.m \in Nat
      /\ o.m > 0 => o.k < Len(q) /\ o.m < Len(q[o.k + 1])
  <2>1. Len(q) \in Nat
    BY <1>1
  <2>2. /\ o.k \in Nat /\ o.m \in Nat /\ o.k <= Len(q)
        /\ \/ "HANDSHAKE" \in s.flags[e] /\ o.k = 0 /\ o.m = 0 /\ o.err = FALSE
           \/ "HANDSHAKE" \notin s.flags[e] /\ o.k = Len(q) /\ o.m = 0 /\ o.err = FALSE
           \/ /\ "HANDSHAKE" \notin s.flags[e] /\ o.k < Len(q) /\ o.err = FALSE
              /\ o.m > 0 /\ o.m < Len(q[o.k + 1])
           \/ "HANDSHAKE" \notin s.flags[e] /\ o.k < Len(q) /\ o.m = 0 /\ o.err = TRUE
    BY <1>0, OutcomeCases
  <2> HIDE DEF q
  <2> QED  BY <2>1, <2>2
<1>5. PICK n \in Nat, m \in Nat : /\ s.sent[e] = Run(0, n)
                                  /\ Contig(q, n, m) /\ Contig(s.inq[Peer(e)], m, g)
  BY <1>1 DEF FlowTo, Flow
<1>6. PICK c \in Nat : n <= c /\ c <= m /\ Contig(left, n, c) /\ Contig(rest, c, m)
  BY <1>1, <1>4, <1>5, ContigSplit
<1>7. left \in Seq(Seq(Nat)) /\ rest \in Seq(Seq(Nat))
  BY <1>1, <1>4
<1>8. s.sent[e] \o FlattenSeq(left) = Run(0, c)
  <2>1. FlattenSeq(left) = Run(n, c)
    BY <1>6, <1>7, FlattenRun
  <2>2. Run(0, n) \o Run(n, c) = Run(0, c)
    <3>1. 0 \in Nat /\ 0 <= n /\ n <= c
      BY <1>6
    <3> QED  BY <3>1, RunJoin
  <2> QED  BY <1>5, <2>1, <2>2
<1>9. \E a \in Nat : new = Run(0, a) /\ Contig(out, a, m)
  <2>1. CASE ~(o.m > 0)
    <3>1. Run(0, c) \o <<>> = Run(0, c)
      BY RunType
    <3> QED  BY <1>6, <1>8, <2>1, <3>1
  <2>2. CASE o.m > 0
    <3>1. rest # <<>> /\ rest[1] = q[o.k + 1] /\ o.m <= Len(rest[1])
      <4>1. Len(q) \in Nat /\ o.k \in Nat /\ o.k < Len(q) /\ o.m < Len(q[o.k + 1])
        BY <1>1, <1>4, <2>2
      <4>2. o.k + 1 \in 1 .. Len(q)
        BY <4>1
      <4>3. q[o.k + 1] \in Seq(Nat)
        BY <1>1, <4>2
      <4>4. Len(rest) = Len(q) - o.k /\ rest[1] = q[o.k + 1]
        BY <1>1, <4>1, SubSeqRest
      <4>5. rest # <<>>
        <5> HIDE DEF rest
        <5> QED  BY <4>1, <4>4
      <4>6. Len(q[o.k + 1]) \in Nat
        BY <4>3
      <4> HIDE DEF rest, q
      <4>7. o.m <= Len(rest[1])
        BY <1>4, <4>1, <4>4, <4>6
      <4> QED  BY <4>4, <4>5, <4>7
    <3>2. out = [rest EXCEPT ![1] = SubSeq(rest[1], o.m + 1, Len(rest[1]))]
      BY <2>2 DEF Advance
    <3>3. part = SubSeq(rest[1], 1, o.m)
      BY <2>2, <3>1
    <3> HIDE DEF rest, out, part
    <3>4. /\ SubSeq(rest[1], 1, o.m) = Run(c, c + o.m)
          /\ Contig([rest EXCEPT ![1] = SubSeq(rest[1], o.m + 1, Len(rest[1]))], c + o.m, m)
      BY <1>4, <1>6, <1>7, <3>1, ContigAdvance
    <3> DEFINE a == c + o.m
    <3>5. a \in Nat /\ c <= a /\ 0 <= c
      BY <1>4
    <3> HIDE DEF a
    <3>6. Run(0, c) \o Run(c, a) = Run(0, a)
      BY <3>5, RunJoin
    <3> QED  BY <1>8, <3>2, <3>3, <3>4, <3>5, <3>6 DEF a
  <2> QED  BY <2>1, <2>2
<1> HIDE DEF t, new, out
<1>10. PICK a \in Nat : new = Run(0, a) /\ Contig(out, a, m)
  BY <1>9
<1>11. t.sent[e] = new /\ t.sent[Peer(e)] = s.sent[Peer(e)] /\ t.sent \in [End -> Seq(Nat)]
  <2>1. new \in Seq(Nat)
    BY <1>10, RunType
  <2> QED  BY <1>0, <1>1, <1>3, <2>1
<1>12. FlowTo(t, e)
  <2>1. Flow(t.sent[e], t.out[e], t.inq[Peer(e)], t.got[Peer(e)])
    BY <1>2, <1>3, <1>5, <1>10, <1>11, Zenon DEF Flow
  <2> QED  BY <2>1 DEF FlowTo
<1>13. FlowTo(t, Peer(e))
  BY <1>1, <1>2, <1>3, <1>11, Zenon DEF FlowTo
<1> QED  BY <1>2, <1>11, <1>12, <1>13, FlowStreams DEF t

LEMMA PassEndStreams ==
  ASSUME NEW s, Good(s), NEW e \in End
  PROVE  Good(PassEnd(s, e))
<1> DEFINE F == s.flags[Peer(e)] \cup {"SHUTWR"}
<1>1. Memory(s) /\ Peer(e) \in End
  BY PeerEnd DEF Good
<1>2. F \in SUBSET Flag
  BY <1>1, FlagsIn, FlagTypes
<1>3. PassEnd(s, e) = [s EXCEPT !.flags[Peer(e)] = F] \/ PassEnd(s, e) = s
  BY DEF PassEnd
<1> HIDE DEF F
<1>4. Good([s EXCEPT !.flags[Peer(e)] = F])
  BY <1>1, <1>2, SameFlags
<1> QED  BY <1>3, <1>4

LEMMA SendNowStreams ==
  ASSUME NEW s, Good(s), AllOpen(s), NEW e \in End, NEW o \in Outcome(s, e)
  PROVE  Good(SendNow(s, e, o).s)
<1> DEFINE t == Taken(s, e, o)
           F == t.flags[e] \cup {"BLOCKED"}
           u == [t EXCEPT !.flags[e] = F]
           v == fd_epoll_alloc_update(u, e, WRITE, "send")
           w == [v EXCEPT !.item[Peer(e)].st = "STOP"]
<1>0. Peer(e) \in End
  BY PeerEnd
<1>1. Good(t)
  BY TakenStreams
<1>2. \/ SendNow(s, e, o).s = t \/ SendNow(s, e, o).s = Blocked(t, e)
      \/ SendNow(s, e, o).s = PassEnd(t, e)
  BY DEF SendNow
<1>3. Blocked(t, e) = v \/ Blocked(t, e) = w
  BY DEF Blocked
<1> HIDE DEF t
<1>4. F \in SUBSET Flag
  BY <1>1, FlagsIn, FlagTypes DEF Good
<1> HIDE DEF F
<1>5. Good(u)
  BY <1>1, <1>4, SameFlags
<1> HIDE DEF u
<1>6. Good(v)
  BY <1>5, SameUpdate, FlagTypes
<1> HIDE DEF v
<1>7. Good(w)
  BY <1>0, <1>6, SameStop
<1> HIDE DEF w
<1>8. Good(PassEnd(t, e))
  BY <1>1, PassEndStreams
<1> QED  BY <1>1, <1>2, <1>3, <1>6, <1>7, <1>8, Zenon

LEMMA AddStreams ==
  ASSUME NEW s, Good(s), NEW q, NEW e \in End, NEW v \in Task, Add(s, q, e, v)
  PROVE  Streams(x')
<1>1. x' = [s EXCEPT !.task[e] = v]
  BY DEF Add
<1>2. Good([s EXCEPT !.task[e] = v])
  BY SameTask
<1> QED  BY <1>1, <1>2, Zenon DEF Good

LEMMA ClosedStreams ==
  ASSUME NEW s, Good(s), NEW e \in End
  PROVE  Good(Closed(s, e))
<1> DEFINE F == s.flags[e] \cup {"SHUTRD"}
           t == [s EXCEPT !.flags[e] = F]
<1>1. F \in SUBSET Flag
  BY FlagsIn, FlagTypes DEF Good
<1>2. Closed(s, e) = fd_epoll_alloc_update(t, e, {}, "NULL")
  BY DEF Closed
<1> HIDE DEF F
<1>3. Good(t)
  BY <1>1, SameFlags
<1> HIDE DEF t
<1> QED  BY <1>2, <1>3, SameUpdate, FlagTypes

LEMMA PollStreams ==
  ASSUME IInv, Streams(x), NEW e \in End, fd_epoll_poll(e)
  PROVE  Streams(x')
<1>1. phase = "poll" /\ batch[e] # {}
  BY DEF fd_epoll_poll
<1>2. Good(x) /\ AllOpen(x) /\ x.inq[e] = <<>> /\ x.item[e].cb \in Callback
  <2>1. Memory(x) /\ x.inq[e] = <<>> /\ \A f \in End : x.fd[f]
    BY <1>1, PollState
  <2>2. x.item[e].cb \in Callback
    BY <2>1 DEF Memory, Session, ItemType
  <2> QED  BY <2>1, <2>2, Zenon DEF Good, AllOpen
<1>3. "DELETE" \in Task /\ "SEND" \in Task /\ "PARSE" \in Task
  BY DEF Task
<1>4. CASE ~Calls(e)
  BY <1>4, Zenon DEF fd_epoll_poll
<1>5. CASE Calls(e) /\ x.item[e].cb = "handshake"
  <2> DEFINE F == x.flags[e] \ {"HANDSHAKE"}
             u == [x EXCEPT !.flags[e] = F]
             t == fd_epoll_alloc_update(u, e, READ, "recv")
  <2>1. PICK ok \in {TRUE, ~MayFail} : _worker_handshake(e, batch[e], ok)
    BY <1>5 DEF fd_epoll_poll
  <2>2. Add(x, taskq, e, "DELETE") \/ Add(t, taskq, e, "DELETE") \/ Add(t, taskq, e, "SEND")
    BY <2>1, Zenon DEF _worker_handshake
  <2>3. F \in SUBSET Flag
    BY <1>2, FlagsIn, FlagTypes DEF Good
  <2> HIDE DEF F
  <2>4. Good(u)
    BY <1>2, <2>3, SameFlags
  <2> HIDE DEF u
  <2>5. Good(t)
    BY <2>4, SameUpdate, FlagTypes
  <2> HIDE DEF t
  <2> QED  BY <1>2, <1>3, <2>2, <2>5, AddStreams
<1>6. CASE Calls(e) /\ x.item[e].cb = "recv"
  <2>1. \E n \in 0 .. Cap, fail \in {"none"} \cup (IF MayFail THEN {"recv", "alloc"} ELSE {}) :
          /\ n <= N[e] - x.got[e]
          /\ _worker_recv_data(e, batch[e], n, fail)
    BY <1>6 DEF fd_epoll_poll
  <2>2. PICK n \in 0 .. Cap, fail \in {"none"} \cup (IF MayFail THEN {"recv", "alloc"} ELSE {}) :
          _worker_recv_data(e, batch[e], n, fail)
    BY <2>1, Zenon
  <2> DEFINE t == Received(e, n)
             c == Closed(t, e)
             z == Received(e, 0)
  <2>3. \/ Add(x, taskq, e, "DELETE") \/ Add(z, taskq, e, "DELETE")
        \/ Add(c, taskq, e, "DELETE") \/ Add(c, taskq, e, "PARSE")
        \/ Add(t, taskq, e, "PARSE")
    BY <2>2, Zenon DEF _worker_recv_data, Failed
  <2>4. n \in Nat /\ 0 \in Nat
    BY ProcWorkAssumption
  <2>5. Good(t) /\ Good(z)
    BY <1>2, <2>4, ReceivedStreams
  <2> HIDE DEF t, z
  <2>6. Good(c)
    BY <2>5, ClosedStreams
  <2> HIDE DEF c
  <2> QED  BY <1>2, <1>3, <2>3, <2>5, <2>6, AddStreams
<1>7. CASE Calls(e) /\ x.item[e].cb = "send"
  <2>1. PICK o \in Outcome(x, e) : _worker_send_data(e, o)
    BY <1>7 DEF fd_epoll_poll
  <2> DEFINE t == Taken(x, e, o)
             F == t.flags[e] \cup {"BLOCKED"}
  <2>2. \/ x' = [t EXCEPT !.task[e] = "DELETE"] \/ x' = [t EXCEPT !.flags[e] = F]
        \/ x' = PassEnd(t, e)
    BY <2>1 DEF _worker_send_data, SendFailed
  <2>3. Good(t)
    BY <1>2, TakenStreams
  <2> HIDE DEF t
  <2>4. F \in SUBSET Flag
    BY <2>3, FlagsIn, FlagTypes DEF Good
  <2> HIDE DEF F
  <2>5. /\ Good([t EXCEPT !.task[e] = "DELETE"]) /\ Good([t EXCEPT !.flags[e] = F])
        /\ Good(PassEnd(t, e))
    BY <1>3, <2>3, <2>4, SameTask, SameFlags, PassEndStreams
  <2> QED  BY <2>2, <2>5, Zenon DEF Good
<1> QED  BY <1>2, <1>4, <1>5, <1>6, <1>7 DEF Calls, Callback

LEMMA FinishStreams ==
  ASSUME NEW s, Good(s), NEW q, NEW e \in End, NEW n,
         \/ Finish(s, q, e, n)
         \/ Becomes(_worker_free_session(s, q, e), q, n)
  PROVE  Streams(x')
<1>1. x' = s \/ x' = _worker_free_session(s, q, e)
  BY Zenon DEF Finish, Becomes
<1>2. Good(_worker_free_session(s, q, e))
  BY FreeStreams
<1> QED  BY <1>1, <1>2, Zenon DEF Good

LEMMA TaskStreams ==
  ASSUME IInv, Streams(x), NEW e \in End, _worker_run_task(e)
  PROVE  Streams(x')
<1> DEFINE q == Tail(taskq)
           parsed == _worker_parse_data(x, e)
<1>0. phase = "task" /\ taskq # <<>> /\ Head(taskq) = e
  BY DEF _worker_run_task
<1>1. /\ Wired(x) /\ Runs(x, e) /\ (x.task[e] # "DELETE" => \A f \in End : x.fd[f])
  BY <1>0, TaskState
<1>2. /\ x.task[e] \in {"DELETE", "PARSE", "SEND"} /\ Peer(e) \in End
      /\ Good(x) /\ (x.task[e] # "DELETE" => AllOpen(x))
  <2>1. x.task[e] \in {"DELETE", "PARSE", "SEND"} /\ Peer(e) \in End
    BY <1>1, PeerEnd DEF Wired, Memory, Session, Runs, Task
  <2>2. Good(x) /\ (x.task[e] # "DELETE" => AllOpen(x))
    BY <1>1, Zenon DEF Wired, Good, AllOpen
  <2> QED  BY <2>1, <2>2
<1>3. ASSUME NEW s, Good(s), AllOpen(s), NEW g \in End,
             \E o \in Outcome(s, g) :
               LET r == SendNow(s, g, o)
               IN IF r.ok THEN Finish(r.s, q, e, 0)
                  ELSE Becomes(_worker_free_session(r.s, q, e), q, Puts(q, e))
      PROVE  Streams(x')
  <2>1. PICK o \in Outcome(s, g) :
               LET r == SendNow(s, g, o)
               IN IF r.ok THEN Finish(r.s, q, e, 0)
                  ELSE Becomes(_worker_free_session(r.s, q, e), q, Puts(q, e))
    BY <1>3, Zenon
  <2> DEFINE r == SendNow(s, g, o)
  <2>2. Good(r.s)
    BY <1>3, SendNowStreams
  <2>3. Finish(r.s, q, e, 0) \/ Becomes(_worker_free_session(r.s, q, e), q, Puts(q, e))
    BY <2>1, Zenon
  <2> HIDE DEF r
  <2> QED  BY <2>2, <2>3, FinishStreams
<1>4. CASE x.task[e] = "DELETE"
  <2> DEFINE t == _worker_free_session(x, q, e)
  <2>1. Finish(t, q, e, Puts(q, e))
    BY <1>4 DEF _worker_run_task
  <2>2. Good(t)
    BY <1>2, FreeStreams
  <2> HIDE DEF t
  <2> QED  BY <2>1, <2>2, FinishStreams
<1>5. CASE x.task[e] = "PARSE"
  <2>1. \E o \in Outcome(parsed, Peer(e)) :
           LET r == SendNow(parsed, Peer(e), o)
           IN IF r.ok THEN Finish(r.s, q, e, 0)
              ELSE Becomes(_worker_free_session(r.s, q, e), q, Puts(q, e))
    BY <1>5 DEF _worker_run_task
  <2>2. AllOpen(x)
    BY <1>2, <1>5
  <2>3. Good(parsed)
    BY <1>2, <2>2, ParsedStreams
  <2>4. SameRest(x, parsed)
    BY <1>2, ParsedShape DEF Good
  <2>5. AllOpen(parsed)
    BY <2>2, <2>4, Zenon DEF AllOpen, SameRest
  <2> HIDE DEF parsed, q
  <2> QED  BY <1>2, <1>3, <2>1, <2>3, <2>5, Zenon
<1>6. CASE x.task[e] = "SEND"
  <2>1. \E o \in Outcome(x, e) :
           LET r == SendNow(x, e, o)
           IN IF r.ok THEN Finish(r.s, q, e, 0)
              ELSE Becomes(_worker_free_session(r.s, q, e), q, Puts(q, e))
    BY <1>6 DEF _worker_run_task
  <2>2. AllOpen(x)
    BY <1>2, <1>6
  <2> HIDE DEF q
  <2> QED  BY <1>2, <1>3, <2>1, <2>2, Zenon
<1> QED  BY <1>2, <1>4, <1>5, <1>6

\* A session that has not moved a byte.
Blank(s) ==
  /\ Memory(s)
  /\ s.sent = [e \in End |-> <<>>] /\ s.got = [e \in End |-> 0]
  /\ s.inq = [e \in End |-> <<>>] /\ s.out = [e \in End |-> <<>>]

LEMMA BlankGood ==
  ASSUME NEW s, Blank(s)
  PROVE  Good(s)
<1>1. Run(0, 0) = <<>> /\ Contig(<<>>, 0, 0)
  BY RunNone, ContigNone
<1>2. ASSUME NEW e \in End PROVE FlowTo(s, e)
  <2>1. s.sent[e] = <<>> /\ s.out[e] = <<>> /\ s.inq[Peer(e)] = <<>> /\ s.got[Peer(e)] = 0
    BY PeerEnd DEF Blank
  <2>2. Flow(<<>>, <<>>, <<>>, 0)
    BY <1>1 DEF Flow
  <2> QED  BY <2>1, <2>2, Zenon DEF FlowTo
<1>3. s.sent \in [End -> Seq(Nat)] /\ Memory(s)
  BY DEF Blank
<1> QED  BY <1>2, <1>3, FlowStreams, PeerEnd DEF End

LEMMA BlankKept ==
  ASSUME NEW s, NEW t, Blank(s), Memory(t),
         t.sent = s.sent, t.got = s.got, t.inq = s.inq, t.out = s.out
  PROVE  Blank(t)
  BY Zenon DEF Blank

LEMMA BlankUpdate ==
  ASSUME NEW s, Blank(s), NEW e \in End, NEW ev \in SUBSET Mask, NEW cb \in Callback
  PROVE  Blank(fd_epoll_alloc_update(s, e, ev, cb))
<1> DEFINE t == fd_epoll_alloc_update(s, e, ev, cb)
<1>1. Memory(s)
  BY DEF Blank
<1>2. Memory(t)
  BY <1>1, UpdateShape
<1>3. t.sent = s.sent /\ t.got = s.got /\ t.inq = s.inq /\ t.out = s.out
  BY <1>1 DEF fd_epoll_alloc_update, Memory, Session
<1> HIDE DEF t
<1>4. Blank(t)
  BY <1>2, <1>3, BlankKept
<1> QED  BY <1>4 DEF t

LEMMA BlankOpen ==
  ASSUME NEW s, Blank(s), NEW e \in End
  PROVE  Blank(Open(s, e))
<1> DEFINE t == Open(s, e)
           i == [s.item[e] EXCEPT !.st = "READY"]
<1>1. Memory(s)
  BY DEF Blank
<1>2. i \in ItemType
  <2>1. s.item[e] \in ItemType
    BY <1>1 DEF Memory, Session
  <2> QED  BY <2>1 DEF ItemType
<1>3. t = [s EXCEPT !.fd[e] = TRUE, !.item[e] = i]
  BY <1>1 DEF Open, Memory, Session
<1> HIDE DEF i, t
<1>4. t \in Session({t.sent})
  BY <1>1, <1>2, <1>3 DEF Memory, Session
<1>5. t.sent = s.sent /\ t.got = s.got /\ t.inq = s.inq /\ t.out = s.out
  BY <1>1, <1>3 DEF Memory, Session
<1>6. Blank(t)
  BY <1>4, <1>5, BlankKept DEF Memory
<1> QED  BY <1>6 DEF t

LEMMA BlankFlags ==
  ASSUME NEW s, Blank(s), NEW e \in End, NEW F \in SUBSET Flag
  PROVE  Blank([s EXCEPT !.flags[e] = F])
<1> DEFINE t == [s EXCEPT !.flags[e] = F]
<1>1. Memory(s)
  BY DEF Blank
<1>2. Memory(t)
  BY <1>1, FlagShape
<1>3. t.sent = s.sent /\ t.got = s.got /\ t.inq = s.inq /\ t.out = s.out
  BY <1>1 DEF Memory, Session
<1> HIDE DEF t
<1>4. Blank(t)
  BY <1>2, <1>3, BlankKept
<1> QED  BY <1>4 DEF t

LEMMA InitBlank == Blank(session_init)
<1>1. Memory(session_init)
  BY InitShape
<1>2. /\ session_init.sent = [e \in End |-> <<>>] /\ session_init.got = [e \in End |-> 0]
      /\ session_init.inq = [e \in End |-> <<>>] /\ session_init.out = [e \in End |-> <<>>]
  BY DEF session_init
<1> QED  BY <1>1, <1>2, Zenon DEF Blank

LEMMA NoSessionStreams == Streams(NoSession)
<1> DEFINE i == session_init
           s == [i EXCEPT !.live = FALSE]
<1>1. Blank(i) /\ Memory(i)
  BY InitBlank DEF Blank
<1> HIDE DEF i
<1>2. /\ Memory(s) /\ s.sent = i.sent /\ s.got = i.got /\ s.inq = i.inq /\ s.out = i.out
  BY <1>1 DEF Memory, Session
<1> HIDE DEF s
<1>3. Good(s)
  BY <1>1, <1>2, BlankKept, BlankGood
<1> QED  BY <1>3 DEF Good, NoSession, s, i

LEMMA AcceptStreams ==
  ASSUME _worker_accept_client
  PROVE  Streams(x')
<1>0. "cli" \in End /\ "svr" \in End
  BY DEF End
<1>1. Blank(Accepted)
  <2> DEFINE o == Open(session_init, "cli")
  <2>1. Blank(o)
    BY <1>0, InitBlank, BlankOpen
  <2>2. Accepted = fd_epoll_alloc_update(o, "cli", READ, "recv")
    BY DEF Accepted, Open
  <2> HIDE DEF o
  <2> QED  BY <1>0, <2>1, <2>2, BlankUpdate, FlagTypes
<1> DEFINE o == Open(Accepted, "svr")
           F == o.flags["svr"] \cup {"HANDSHAKE"}
           u == [o EXCEPT !.flags["svr"] = F]
           a == fd_epoll_alloc_update(o, "svr", READ, "recv")
           b == fd_epoll_alloc_update(u, "svr", WRITE, "handshake")
           d == _worker_free_session(Accepted, taskq, "cli")
<1>2. \A wait \in BOOLEAN : Connected(Accepted, wait) = IF wait THEN b ELSE a
  BY DEF Connected, Open
<1>3. x' = a \/ x' = b \/ x' = d
  <2> HIDE DEF a, b, d
  <2>1. (\E wait \in BOOLEAN : x' = Connected(Accepted, wait)) \/ x' = d
    BY Zenon DEF _worker_accept_client, d
  <2> QED  BY <1>2, <2>1, Zenon
<1>4. Good(d)
  BY <1>0, <1>1, BlankGood, FreeStreams
<1>5. Blank(o)
  BY <1>0, <1>1, BlankOpen
<1> HIDE DEF o, d
<1>6. F \in SUBSET Flag
  BY <1>0, <1>5, FlagsIn, FlagTypes DEF Blank
<1> HIDE DEF F
<1>7. Blank(u)
  BY <1>0, <1>5, <1>6, BlankFlags
<1> HIDE DEF u
<1>8. Good(a) /\ Good(b)
  BY <1>0, <1>5, <1>7, BlankUpdate, BlankGood, FlagTypes
<1> HIDE DEF a, b
<1> QED  BY <1>3, <1>4, <1>8, Zenon DEF Good

LEMMA NextStreams ==
  ASSUME IInv, Streams(x), [Next]_vars
  PROVE  Streams(x')
<1>1. ASSUME NEW b \in Batches, _worker_loop(b)
      PROVE  Streams(x')
  <2> DEFINE t == [x EXCEPT !.item = [e \in End |-> Flushed(x.item[e])]]
  <2>1. x' = t
    BY <1>1 DEF _worker_loop
  <2>2. Same(x, t)
    BY DEF Same, IInv, Wired, Memory, Session
  <2> HIDE DEF t
  <2>3. Streams(t)
    BY <2>2, SameStreams
  <2> QED  BY <2>1, <2>3, Zenon
<1>2. ASSUME NEW e \in End, fd_epoll_poll(e)
      PROVE  Streams(x')
  BY <1>2, PollStreams
<1>3. ASSUME NEW e \in End, _worker_run_task(e)
      PROVE  Streams(x')
  BY <1>3, TaskStreams
<1>4. CASE _worker_accept_client
  BY <1>4, AcceptStreams
<1>5. ASSUME x' = x
      PROVE  Streams(x')
  BY <1>5, Zenon
<1>6. task_run_queue \/ RoundEnds \/ (\E e \in End : HangUp(e)) \/ UNCHANGED vars => x' = x
  BY DEF task_run_queue, RoundEnds, HangUp, vars
<1> QED  BY <1>1, <1>2, <1>3, <1>4, <1>5, <1>6, Zenon DEF Next, Worker

-----------------------------------------------------------------------------
(* The theorems.                                                           *)

\* The inductive invariant of a worker process, for every instance: the flags,
\* callbacks and packets of the session fit (Wired), the task queue links each
\* task once and only what may run (Linked), and the loop's phases are kept.
THEOREM InductiveInvariant == Spec => []IInv
<1>1. Init => IInv
  BY InitInv
<1>2. IInv /\ [Next]_vars => IInv'
  BY NextInv
<1> QED  BY <1>1, <1>2, PTL DEF Spec

LEMMA LifetimesImplied == IInv => Lifetimes
<1> SUFFICES ASSUME IInv
             PROVE  Lifetimes
  OBVIOUS
<1>1. /\ Wired(x) /\ Linked(x, taskq) /\ Loop /\ Memory(x) /\ taskq \in Queues
  BY DEF IInv, Wired, Linked
<1>2. taskq \in Seq(End) /\ Len(taskq) <= 2 /\ IsInjective(taskq)
  BY <1>1, QueueType
<1>3. TasksSound
  BY <1>1, <1>2 DEF TasksSound, Linked
<1>4. FreedOnce
  BY <1>1 DEF FreedOnce, Loop
<1>5. NallocedExact
  BY <1>1, Zenon DEF NallocedExact, Wired, NPackets
<1>6. x.nalloced \in Nat
  <2> DEFINE a == Len(x.inq["cli"])
             b == Len(x.out["cli"])
             c == Len(x.inq["svr"])
             d == Len(x.out["svr"])
  <2>1. x.nalloced = a + b + c + d
    BY <1>5 DEF NallocedExact
  <2>2. a \in Nat /\ b \in Nat /\ c \in Nat /\ d \in Nat
    BY <1>1, QueueLens DEF End
  <2> HIDE DEF a, b, c, d
  <2> QED  BY <2>1, <2>2
<1>7. ASSUME NEW e \in End
      PROVE  /\ x.inq[e] \in Seq(Seq(Nat)) /\ Len(x.inq[e]) <= 1
             /\ x.out[e] \in Seq(Seq(Nat))
             /\ x.task[e] \in {"NONE", "PARSE", "SEND", "DELETE"}
             /\ x.flags[e] \subseteq {"SHUTRD", "SHUTWR", "BLOCKED", "HANDSHAKE"}
             /\ x.item[e].st \in {"CLOSED", "READY", "STOP"}
  <2>1. Len(x.inq[e]) <= 1
    BY <1>1 DEF Linked
  <2>2. x.inq[e] \in Packets /\ x.out[e] \in Packets
    BY <1>1, QueueLens
  <2>3. x.task[e] \in Task /\ x.flags[e] \in SUBSET Flag /\ x.item[e] \in ItemType
    BY <1>1 DEF Memory, Session
  <2> QED  BY <2>1, <2>2, <2>3 DEF Packets, Task, Flag, ItemType
<1>8. TypeOK
  BY <1>1, <1>2, <1>6, <1>7 DEF TypeOK, Loop
<1> QED  BY <1>3, <1>4, <1>5, <1>8 DEF Lifetimes

LEMMA EventFitsImplied == IInv => EventFits
<1> SUFFICES ASSUME IInv
             PROVE  EventFits
  OBVIOUS
<1>1. Wired(x) /\ Memory(x)
  BY DEF IInv, Wired
<1>2. ASSUME NEW e \in End, Calls(e), x.live, phase = "poll"
      PROVE  CASE x.item[e].cb = "recv" -> /\ x.flags[e] \cap {"SHUTRD", "HANDSHAKE"} = {}
                                           /\ "BLOCKED" \notin x.flags[Peer(e)]
               [] x.item[e].cb = "send" -> "BLOCKED" \in x.flags[e]
               [] x.item[e].cb = "handshake" -> "HANDSHAKE" \in x.flags[e]
  <2>1. Fits(x, e) /\ x.item[e].cb \in Callback /\ x.item[e].cb # "NULL" /\ x.item[e].st = "READY"
    BY <1>1, <1>2 DEF Wired, Memory, Session, ItemType, Calls
  <2>2. CASE x.item[e].cb = "recv"
    <3>1. "SHUTRD" \notin x.flags[e] /\ "HANDSHAKE" \notin x.flags[e]
          /\ "BLOCKED" \notin x.flags[Peer(e)]
      <4>1. x.fd[Peer(e)]
        BY <1>2, PeerEnd DEF IInv, Loop
      <4> QED  BY <2>1, <2>2, <4>1 DEF Fits, Halted, Suits
    <3> QED  BY <2>2, <3>1
  <2>3. CASE x.item[e].cb = "send"
    BY <2>1, <2>3 DEF Fits, Halted, Suits
  <2>4. CASE x.item[e].cb = "handshake"
    BY <2>1, <2>4 DEF Fits, Halted, Suits
  <2> QED  BY <2>1, <2>2, <2>3, <2>4 DEF Callback
<1> QED  BY <1>2 DEF EventFits

\* Packets, tasks and sessions go back exactly once on every path that ends a
\* session (_worker_free_session, _worker_run_task), and nothing of it stays.
THEOREM LifetimesCorrect == Spec => []Lifetimes
  BY InductiveInvariant, LifetimesImplied, PTL

\* Whenever fd_epoll_poll calls back, the callback belongs to the state of the
\* socket: nothing is read from an end that is closed or whose peer is blocked.
THEOREM EventFitsCorrect == Spec => []EventFits
  BY InductiveInvariant, EventFitsImplied, PTL

\* The streams of both directions, in every state.
FInv == Streams(x)

LEMMA RelayedImplied == IInv /\ FInv => Relayed
<1> SUFFICES ASSUME IInv, FInv, NEW e \in End
             PROVE  \E n \in 0 .. x.got[Peer(e)] : x.sent[e] = [i \in 1 .. n |-> i]
  BY DEF Relayed
<1>1. PICK n \in 0 .. x.got[Peer(e)] : x.sent[e] = Run(0, n)
  BY DEF FInv, Streams, LeadTo
<1>2. x.got[Peer(e)] \in Nat
  BY PeerEnd DEF IInv, Wired, Memory, Session
<1>3. Run(0, n) = [i \in 1 .. n |-> i]
  BY <1>2 DEF Run
<1> QED  BY <1>1, <1>3

\* What a worker sends to one end is the beginning of what came from the other,
\* in order and without a gap, across the handshake, partial sends of several
\* packets, blocking, the end of the stream and the deletion of the session.
THEOREM RelayedCorrect == Spec => []Relayed
<1>1. Init => FInv
  BY NoSessionStreams DEF Init, FInv
<1>2. IInv /\ FInv /\ [Next]_vars => FInv'
  <2> SUFFICES ASSUME IInv, FInv, [Next]_vars
               PROVE  FInv'
    OBVIOUS
  <2>1. Streams(x')
    BY NextStreams DEF FInv
  <2> QED  BY <2>1 DEF FInv, Streams, AllOpen, LeadTo, FlowTo, Flow, Contig, Cuts, Run
<1>3. IInv /\ FInv => Relayed
  BY RelayedImplied
<1> QED  BY <1>1, <1>2, <1>3, InductiveInvariant, PTL DEF Spec

----------------------------------------------------------------------------
(***************************************************************************)
(* The main process, which forks the workers and stops them: module        *)
(* ProcMain, for any number of children and of pids.                       *)
(*                                                                         *)
(* NoneLeft is not inductive: it is about the end of main, and has to be   *)
(* known of the loops before it.  Owned says how: cproc_create has entered *)
(* every child that lives in _g_workers, below its loop variable while     *)
(* _create_workers runs, and from it on while _destroy_workers does.  A    *)
(* pid that another program took over may stand anywhere.                  *)
(***************************************************************************)

(* Entry n of _g_workers has not been dealt with by the loop that runs. *)
Entered(n) ==
  /\ pc = "create" => n < slot
  /\ pc \in {"destroy", "wait"} => n >= slot

(* Every child that lives is in _g_workers, where the loop of main has left it or will  *)
(* still find it.                                                                     *)
Owned ==
  /\ pc \in {"init", "done"} => Children = {}
  /\ \A p \in Children : \E n \in 1 .. NChild : pid[n] = p /\ Entered(n)
  /\ pc = "wait" => slot <= NChild

MainInv == ProcTypeOK /\ Owned

----------------------------------------------------------------------------
(* The initial states: no child, and an empty _g_workers. *)
LEMMA InitMain == ASSUME ProcInit PROVE MainInv
<1>1. Children = {}
  BY DEF ProcInit, Children
<1>2. ProcTypeOK
  <2>1. pid \in [1 .. NChild -> Pid \cup {0}]
    BY DEF ProcInit
  <2>2. proc \in [Pid -> {"none", "other", "new", "run"}]
    BY DEF ProcInit
  <2>3. /\ stop \in BOOLEAN /\ stray \in BOOLEAN /\ killed \in BOOLEAN
        /\ kind \in Kind /\ cstop \subseteq Children
    BY Zenon DEF ProcInit
  <2>4. slot \in 1 .. NChild + 1 /\ pc = "init"
    BY ProcAssumption DEF ProcInit
  <2>. QED BY <2>1, <2>2, <2>3, <2>4 DEF ProcTypeOK
<1>. QED BY <1>1, <1>2 DEF ProcInit, MainInv, Owned

(* A step that takes some children away and leaves the loop of main where it was. *)
LEMMA FewerOwned ==
  ASSUME Owned, UNCHANGED <<pc, slot, pid>>, Children' \subseteq Children
  PROVE  Owned'
  BY DEF Owned, Entered

(* Every step of main, of a child and of other programs keeps the invariant. *)
LEMMA NextMain == ASSUME MainInv, [ProcNext]_procvars PROVE MainInv'
<1> USE ProcAssumption DEF MainInv
<1>1. CASE _initiate
  BY <1>1 DEF _initiate, ProcTypeOK, Owned, Entered, Children
<1>2. CASE cproc_create
  <2>1. pc = "create" /\ pc' = "create" /\ slot \in 1 .. NChild /\ slot' = slot + 1
    BY <1>2 DEF cproc_create, MoreChildren, ProcTypeOK
  <2>2. CASE UNCHANGED <<pid, proc>>
    BY <1>2, <2>1, <2>2 DEF cproc_create, ProcTypeOK, Owned, Entered, Children
  <2>3. ASSUME NEW p \in Pid, proc[p] = "none",
               pid' = [pid EXCEPT ![slot] = p], proc' = [proc EXCEPT ![p] = "new"]
        PROVE  MainInv'
    <3>1. ProcTypeOK'
      BY <1>2, <2>1, <2>3 DEF cproc_create, ProcTypeOK, Children
    <3>2. ASSUME NEW q \in Children' PROVE \E n \in 1 .. NChild : pid'[n] = q /\ n < slot'
      <4>1. CASE q = p
        BY <2>1, <2>3, <4>1 DEF ProcTypeOK
      <4>2. CASE q # p
        <5>1. q \in Children
          BY <2>3, <3>2, <4>2 DEF Children, ProcTypeOK
        <5>2. PICK n \in 1 .. NChild : pid[n] = q /\ n < slot
          BY <2>1, <5>1 DEF Owned, Entered
        <5>. QED BY <2>1, <2>3, <5>2 DEF ProcTypeOK
      <4>. QED BY <4>1, <4>2
    <3>. QED BY <2>1, <3>1, <3>2 DEF Owned, Entered
  <2>. QED BY <1>2, <2>2, <2>3 DEF cproc_create
<1>3. CASE _create_workers
  BY <1>3 DEF _create_workers, ProcTypeOK, Owned, Entered, Children
<1>4. CASE _do_loop
  BY <1>4 DEF _do_loop, ProcTypeOK, Owned, Entered, Children
<1>5. CASE cproc_destroy
  <2>1. pc = "destroy" /\ slot \in 1 .. NChild /\ UNCHANGED <<pid, stop, kind>>
    BY <1>5 DEF cproc_destroy, ProcTypeOK
  <2>2. CASE pid[slot] \notin Children /\ pc' = pc /\ slot' = slot + 1 /\ UNCHANGED <<proc, cstop, killed>>
             /\ stray' \in BOOLEAN
    BY <2>1, <2>2 DEF ProcTypeOK, Owned, Entered, Children
  <2>3. CASE /\ pid[slot] # 0 /\ pid[slot] \in Children
             /\ Waits(pid[slot]) /\ StopChild(pid[slot]) /\ UNCHANGED stray
    <3>1. Children' \subseteq Children /\ ProcTypeOK'
      BY <2>1, <2>3 DEF Waits, StopChild, ProcTypeOK, Children
    <3>2. Owned'
      BY <2>1, <2>3, <3>1 DEF Waits, Owned, Entered
    <3>. QED BY <3>1, <3>2
  <2>. QED BY <1>5, <2>2, <2>3 DEF cproc_destroy, ProcTypeOK, Children
<1>6. CASE waitpid
  BY <1>6 DEF waitpid, ProcTypeOK, Owned, Entered, Children
<1>7. CASE _destroy_workers
  <2>1. Children = {}
    BY <1>7 DEF _destroy_workers, ProcTypeOK, Owned, Entered
  <2>2. ProcTypeOK' /\ Children' = Children
    BY <1>7 DEF _destroy_workers, ProcTypeOK, Children
  <2>. QED BY <1>7, <2>1, <2>2 DEF _destroy_workers, Owned
<1>8. ASSUME NEW group \in BOOLEAN, SigInt(group) PROVE MainInv'
  <2>1. ProcTypeOK' /\ Children' = Children /\ UNCHANGED <<slot, pid>>
    BY <1>8 DEF SigInt, _sig_stop, ProcTypeOK, Children
  <2>2. CASE pc = "init" /\ pc' = "done"
    BY <2>1, <2>2 DEF Owned
  <2>3. CASE UNCHANGED pc
    BY <2>1, <2>3, FewerOwned
  <2>. QED BY <1>8, <2>2, <2>3 DEF SigInt, _sig_stop
<1>9. ASSUME NEW p \in Pid, Child(p) \/ ChildFails(p) \/ OtherStarts(p) \/ OtherEnds(p)
      PROVE  MainInv'
  <2>1. ProcTypeOK' /\ Children' \subseteq Children /\ UNCHANGED <<pc, slot, pid>>
    <3>1. CASE _proxy_init(p)
      BY <3>1 DEF _proxy_init, Ends, ProcTypeOK, Children
    <3>2. CASE proxy_main(p) \/ ChildFails(p)
      BY <3>2 DEF proxy_main, ChildFails, Ends, ProcTypeOK, Children
    <3>3. CASE OtherStarts(p)
      BY <3>3 DEF OtherStarts, ProcTypeOK, Children
    <3>4. CASE OtherEnds(p)
      BY <3>4 DEF OtherEnds, ProcTypeOK, Children
    <3>. QED BY <1>9, <3>1, <3>2, <3>3, <3>4 DEF Child
  <2>. QED BY <2>1, FewerOwned
<1>10. CASE UNCHANGED procvars
  BY <1>10 DEF procvars, ProcTypeOK, Owned, Entered, Children
<1>. QED
  BY <1>1, <1>2, <1>3, <1>4, <1>5, <1>6, <1>7, <1>8, <1>9, <1>10 DEF ProcNext, Main

(* The invariant of main and its children, for any number of both: _g_workers holds     *)
(* every child that lives.                                                            *)
THEOREM OwnedInv == ProcSpec => []MainInv
  BY InitMain, NextMain, PTL DEF ProcSpec

(* The state keeps its types, whichever processes come and go. *)
THEOREM ProcTypeCorrect == ProcSpec => []ProcTypeOK
  BY OwnedInv, PTL DEF MainInv

(* _destroy_workers misses no child: when main has ended there is none, although kill    *)
(* fails for those that crashed and may reach another program that took the pid.       *)
THEOREM NoneLeftCorrect == ProcSpec => []NoneLeft
<1>1. MainInv => NoneLeft
  BY DEF MainInv, Owned, NoneLeft
<1>. QED BY OwnedInv, <1>1, PTL
=============================================================================
