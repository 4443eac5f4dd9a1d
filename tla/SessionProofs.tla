--------------------------- MODULE SessionProofs ---------------------------
(***************************************************************************)
(* Proofs about Session, for every packet size, send buffer, number of     *)
(* bytes, number of sessions and choice of SSL: the memory keeps its type, *)
(* nalloced is exact, deleted sessions leave nothing behind, and a task is *)
(* linked once.  Each handler is an operator from memory to memory, so the *)
(* lemmas say what a handler keeps, and compose along its definition.      *)
(* The second part is about events: one that waits in the batch stays      *)
(* valid.  The third is about the bytes: the session implements the relay  *)
(* of two streams, and no write side is shut down before its data.  The    *)
(* fourth is about the references of a session to its policy and server:   *)
(* given back once, when both its events fit into one batch; back pressure *)
(* follows from the same invariant.                                        *)
(***************************************************************************)
EXTENDS Session, SequenceTheorems, FiniteSetTheorems, TLAPS, NaturalsInduction, WellFoundedInduction

-----------------------------------------------------------------------------
(* The shape of one update of the memory.                                  *)

LEMMA PeerConn ==
  ASSUME NEW c \in Conn
  PROVE  /\ Peer(c) \in Conn /\ Peer(c) # c /\ Peer(Peer(c)) = c
         /\ \A x \in Conn : x = c \/ x = Peer(c)
  BY DEF Peer, Conn, Client, Server

LEMMA SetQueue ==
  ASSUME NEW s \in Memory, NEW c \in Conn, NEW v \in Seq(Packet)
  PROVE  /\ [s EXCEPT !.inq[c] = v] \in Memory
         /\ [s EXCEPT !.mid[c] = v] \in Memory
         /\ [s EXCEPT !.out[c] = v] \in Memory
  BY DEF Memory

LEMMA SetCount ==
  ASSUME NEW s \in Memory, NEW v \in Int
  PROVE  /\ [s EXCEPT !.nalloced = v] \in Memory
         /\ [s EXCEPT !.plref = v] \in Memory
         /\ [s EXCEPT !.svrref = v] \in Memory
         /\ [s EXCEPT !.nssl = v] \in Memory
  BY DEF Memory

LEMMA SetTask ==
  ASSUME NEW s \in Memory, NEW c \in Conn, NEW v \in TaskType
  PROVE  [s EXCEPT !.task[c] = v] \in Memory
  BY DEF Memory

LEMMA SetTaskq ==
  ASSUME NEW s \in Memory, NEW q \in Seq(Conn)
  PROVE  [s EXCEPT !.taskq = q] \in Memory
  BY DEF Memory

LEMMA SetEvent ==
  ASSUME NEW s \in Memory, NEW c \in Conn, NEW e \in SUBSET Mask, NEW cb \in Callback
  PROVE  /\ [s EXCEPT !.ev[c] = e] \in Memory
         /\ [s EXCEPT !.cb[c] = cb] \in Memory
  BY DEF Memory

LEMMA SetFlags ==
  ASSUME NEW s \in Memory, NEW c \in Conn, NEW f \in SUBSET Flag
  PROVE  [s EXCEPT !.flags[c] = f] \in Memory
  BY DEF Memory

LEMMA SetBool ==
  ASSUME NEW s \in Memory, NEW c \in Conn, NEW v \in BOOLEAN
  PROVE  /\ [s EXCEPT !.fd[c] = v] \in Memory
         /\ [s EXCEPT !.alive = v] \in Memory
         /\ [s EXCEPT !.svrdata = v] \in Memory
  BY DEF Memory

LEMMA SetSSL ==
  ASSUME NEW s \in Memory, NEW c \in Conn, NEW v \in {"NULL", "nofd", "fd"}
  PROVE  [s EXCEPT !.ssl[c] = v] \in Memory
  BY DEF Memory

LEMMA LenZero ==
  ASSUME NEW S, NEW q \in Seq(S)
  PROVE  Len(q) = 0 <=> q = <<>>
  OBVIOUS

-----------------------------------------------------------------------------
(* What most updates keep.                                                 *)

\* From s to t the session lives on, with the same sockets, parsed packets
\* and task queue, and nalloced moved with the number of packets.
Keeps(s, t) ==
  /\ t \in Memory
  /\ t.alive = s.alive /\ t.fd = s.fd /\ t.mid = s.mid /\ t.taskq = s.taskq
  /\ s.nalloced = NPackets(s) => t.nalloced = NPackets(t)

LEMMA KeepsTrans ==
  ASSUME NEW s, NEW t, NEW u, Keeps(s, t), Keeps(t, u)
  PROVE  Keeps(s, u)
  BY DEF Keeps

LEMMA KeepsSelf ==
  ASSUME NEW s \in Memory
  PROVE  Keeps(s, s)
  BY DEF Keeps

\* The packets are not touched at all.
LEMMA KeepsPackets ==
  ASSUME NEW s \in Memory, NEW t \in Memory,
         t.alive = s.alive, t.fd = s.fd, t.mid = s.mid, t.taskq = s.taskq,
         t.inq = s.inq, t.out = s.out, t.nalloced = s.nalloced
  PROVE  Keeps(s, t)
  BY DEF Keeps, NPackets

LEMMA AddEventKeeps ==
  ASSUME NEW s \in Memory, NEW c \in Conn, NEW e \in SUBSET Mask, NEW cb \in Callback
  PROVE  Keeps(s, AddEvent(s, c, e, cb))
<1> DEFINE t == AddEvent(s, c, e, cb)
<1>1. t \in Memory
  BY SetEvent, Zenon DEF AddEvent
<1>2. /\ t.alive = s.alive /\ t.fd = s.fd /\ t.mid = s.mid /\ t.taskq = s.taskq
      /\ t.inq = s.inq /\ t.out = s.out /\ t.nalloced = s.nalloced
  BY DEF AddEvent, Memory
<1> QED  BY <1>1, <1>2, KeepsPackets

LEMMA FlagKeeps ==
  ASSUME NEW s \in Memory, NEW c \in Conn, NEW f \in SUBSET Flag
  PROVE  Keeps(s, [s EXCEPT !.flags[c] = f])
<1> DEFINE t == [s EXCEPT !.flags[c] = f]
<1>1. t \in Memory
  BY SetFlags
<1>2. /\ t.alive = s.alive /\ t.fd = s.fd /\ t.mid = s.mid /\ t.taskq = s.taskq
      /\ t.inq = s.inq /\ t.out = s.out /\ t.nalloced = s.nalloced
  BY DEF Memory
<1> QED  BY <1>1, <1>2, KeepsPackets

LEMMA RaiseClearKeeps ==
  ASSUME NEW s \in Memory, NEW c \in Conn, NEW f \in Flag
  PROVE  Keeps(s, Raise(s, c, f)) /\ Keeps(s, Clear(s, c, f))
<1>1. s.flags[c] \union {f} \in SUBSET Flag /\ s.flags[c] \ {f} \in SUBSET Flag
  BY DEF Memory
<1> QED  BY <1>1, FlagKeeps DEF Raise, Clear

\* The six queues, seen from connection c.
LEMMA CountByPeer ==
  ASSUME NEW s \in Memory, NEW c \in Conn
  PROVE  LET p == Peer(c)
         IN  /\ Len(s.inq[c]) \in Nat /\ Len(s.inq[p]) \in Nat
             /\ Len(s.mid[c]) \in Nat /\ Len(s.mid[p]) \in Nat
             /\ Len(s.out[c]) \in Nat /\ Len(s.out[p]) \in Nat
             /\ NPackets(s) = Len(s.inq[c]) + Len(s.inq[p]) + Len(s.mid[c])
                              + Len(s.mid[p]) + Len(s.out[c]) + Len(s.out[p])
<1>1. /\ s.inq \in [Conn -> Seq(Packet)] /\ s.out \in [Conn -> Seq(Packet)]
      /\ s.mid \in [Conn -> Seq(Packet)]
  BY DEF Memory
<1>2. \A q \in Seq(Packet) : Len(q) \in Nat
  OBVIOUS
<1>3. \A x \in Conn : /\ Len(s.inq[x]) \in Nat /\ Len(s.mid[x]) \in Nat
                       /\ Len(s.out[x]) \in Nat
  BY <1>1, <1>2
<1>4. /\ Client \in Conn /\ Server \in Conn
      /\ \/ (c = Client /\ Peer(c) = Server)
         \/ (c = Server /\ Peer(c) = Client)
  BY DEF Peer, Client, Server, Conn
<1> DEFINE i0 == Len(s.inq[Client])
           i1 == Len(s.inq[Server])
           m0 == Len(s.mid[Client])
           m1 == Len(s.mid[Server])
           o0 == Len(s.out[Client])
           o1 == Len(s.out[Server])
<1>5. i0 \in Nat /\ i1 \in Nat /\ m0 \in Nat /\ m1 \in Nat /\ o0 \in Nat /\ o1 \in Nat
  BY <1>3, <1>4
<1>6. i0 + i1 + m0 + m1 + o0 + o1 = i1 + i0 + m1 + m0 + o1 + o0
  <2> HIDE DEF i0, i1, m0, m1, o0, o1
  <2> QED  BY <1>5
<1>7. NPackets(s) = i0 + i1 + m0 + m1 + o0 + o1
  BY DEF NPackets
<1> QED  BY <1>4, <1>5, <1>6, <1>7

\* Packets added to or taken from the queues of c are counted.
LEMMA CountMoves ==
  ASSUME NEW s \in Memory, NEW t \in Memory, NEW c \in Conn,
         t.inq[Peer(c)] = s.inq[Peer(c)], t.out[Peer(c)] = s.out[Peer(c)],
         t.mid = s.mid,
         t.nalloced = s.nalloced + (Len(t.inq[c]) - Len(s.inq[c]))
                                 + (Len(t.out[c]) - Len(s.out[c])),
         s.nalloced = NPackets(s)
  PROVE  t.nalloced = NPackets(t)
<1> DEFINE ic == Len(s.inq[c])
           ip == Len(s.inq[Peer(c)])
           mc == Len(s.mid[c])
           mp == Len(s.mid[Peer(c)])
           oc == Len(s.out[c])
           op == Len(s.out[Peer(c)])
           a  == Len(t.inq[c])
           b  == Len(t.out[c])
<1>1. /\ ic \in Nat /\ ip \in Nat /\ mc \in Nat /\ mp \in Nat
      /\ oc \in Nat /\ op \in Nat
      /\ NPackets(s) = ic + ip + mc + mp + oc + op
  BY CountByPeer, Zenon
<1>2. /\ a \in Nat /\ b \in Nat
      /\ NPackets(t) = a + ip + mc + mp + b + op
  BY CountByPeer
<1>3. t.nalloced = NPackets(s) + (a - ic) + (b - oc)
  OBVIOUS
<1> HIDE DEF ic, ip, mc, mp, oc, op, a, b
<1>4. (ic + ip + mc + mp + oc + op) + (a - ic) + (b - oc) = a + ip + mc + mp + b + op
  BY <1>1, <1>2
<1> QED  BY <1>1, <1>2, <1>3, <1>4, Zenon

LEMMA KeepsCount ==
  ASSUME NEW s \in Memory, NEW t \in Memory, NEW c \in Conn,
         NEW a \in Seq(Packet), NEW b \in Seq(Packet),
         t.alive = s.alive, t.fd = s.fd, t.mid = s.mid, t.taskq = s.taskq,
         t.inq = [s.inq EXCEPT ![c] = a], t.out = [s.out EXCEPT ![c] = b],
         t.nalloced = s.nalloced + (Len(a) - Len(s.inq[c]))
                                 + (Len(b) - Len(s.out[c]))
  PROVE  Keeps(s, t)
<1>1. s.inq \in [Conn -> Seq(Packet)] /\ s.out \in [Conn -> Seq(Packet)]
  BY DEF Memory
<1>2. /\ t.inq[c] = a /\ t.out[c] = b
      /\ t.inq[Peer(c)] = s.inq[Peer(c)] /\ t.out[Peer(c)] = s.out[Peer(c)]
  BY <1>1, PeerConn
<1>3. t.nalloced = s.nalloced + (Len(t.inq[c]) - Len(s.inq[c]))
                              + (Len(t.out[c]) - Len(s.out[c]))
  BY <1>2
<1>4. ASSUME s.nalloced = NPackets(s)
      PROVE  t.nalloced = NPackets(t)
  BY <1>2, <1>3, <1>4, CountMoves, ZenonT(60)
<1> QED  BY <1>4, Zenon DEF Keeps

LEMMA InqKeeps ==
  ASSUME NEW s \in Memory, NEW c \in Conn, NEW v \in Seq(Packet), NEW n \in Int,
         n = s.nalloced + (Len(v) - Len(s.inq[c]))
  PROVE  Keeps(s, [s EXCEPT !.inq[c] = v, !.nalloced = n])
<1> DEFINE d == [s EXCEPT !.inq[c] = v]
           t == [d EXCEPT !.nalloced = n]
<1>1. /\ s.inq[c] \in Seq(Packet) /\ s.out[c] \in Seq(Packet) /\ s.nalloced \in Int
      /\ s.inq \in [Conn -> Seq(Packet)] /\ s.out \in [Conn -> Seq(Packet)]
  BY DEF Memory
<1>2. d \in Memory
  BY SetQueue
<1>3. /\ d.alive = s.alive /\ d.fd = s.fd /\ d.mid = s.mid /\ d.taskq = s.taskq
      /\ d.inq = [s.inq EXCEPT ![c] = v] /\ d.out = s.out
  BY DEF Memory
<1> HIDE DEF d
<1>4. t \in Memory
  BY <1>2, SetCount
<1>5. /\ t.alive = d.alive /\ t.fd = d.fd /\ t.mid = d.mid /\ t.taskq = d.taskq
      /\ t.inq = d.inq /\ t.out = d.out /\ t.nalloced = n
  BY <1>2 DEF Memory
<1>6. [s EXCEPT !.inq[c] = v, !.nalloced = n] = t
  BY Zenon DEF d
<1> HIDE DEF t
<1>7. /\ t.alive = s.alive /\ t.fd = s.fd /\ t.mid = s.mid /\ t.taskq = s.taskq
      /\ t.inq = [s.inq EXCEPT ![c] = v] /\ t.out = s.out
  BY <1>3, <1>5, Zenon
<1>8. /\ t.inq[c] = v /\ t.inq[Peer(c)] = s.inq[Peer(c)]
      /\ t.out[c] = s.out[c] /\ t.out[Peer(c)] = s.out[Peer(c)]
  BY <1>1, <1>7, PeerConn
<1>9. t.nalloced = s.nalloced + (Len(t.inq[c]) - Len(s.inq[c]))
                              + (Len(t.out[c]) - Len(s.out[c]))
  BY <1>1, <1>5, <1>8
<1>10. s.nalloced = NPackets(s) => t.nalloced = NPackets(t)
  BY <1>4, <1>7, <1>8, <1>9, CountMoves
<1>11. Keeps(s, t)
  BY <1>4, <1>7, <1>10 DEF Keeps
<1> QED  BY <1>6, <1>11, Zenon

LEMMA OutKeeps ==
  ASSUME NEW s \in Memory, NEW c \in Conn, NEW v \in Seq(Packet), NEW n \in Int,
         n = s.nalloced + (Len(v) - Len(s.out[c]))
  PROVE  Keeps(s, [s EXCEPT !.out[c] = v, !.nalloced = n])
<1> DEFINE d == [s EXCEPT !.out[c] = v]
           t == [d EXCEPT !.nalloced = n]
<1>1. /\ s.inq[c] \in Seq(Packet) /\ s.out[c] \in Seq(Packet) /\ s.nalloced \in Int
      /\ s.inq \in [Conn -> Seq(Packet)] /\ s.out \in [Conn -> Seq(Packet)]
  BY DEF Memory
<1>2. d \in Memory
  BY SetQueue
<1>3. /\ d.alive = s.alive /\ d.fd = s.fd /\ d.mid = s.mid /\ d.taskq = s.taskq
      /\ d.out = [s.out EXCEPT ![c] = v] /\ d.inq = s.inq
  BY DEF Memory
<1> HIDE DEF d
<1>4. t \in Memory
  BY <1>2, SetCount
<1>5. /\ t.alive = d.alive /\ t.fd = d.fd /\ t.mid = d.mid /\ t.taskq = d.taskq
      /\ t.inq = d.inq /\ t.out = d.out /\ t.nalloced = n
  BY <1>2 DEF Memory
<1>6. [s EXCEPT !.out[c] = v, !.nalloced = n] = t
  BY Zenon DEF d
<1> HIDE DEF t
<1>7. /\ t.alive = s.alive /\ t.fd = s.fd /\ t.mid = s.mid /\ t.taskq = s.taskq
      /\ t.out = [s.out EXCEPT ![c] = v] /\ t.inq = s.inq
  BY <1>3, <1>5, Zenon
<1>8. /\ t.out[c] = v /\ t.out[Peer(c)] = s.out[Peer(c)]
      /\ t.inq[c] = s.inq[c] /\ t.inq[Peer(c)] = s.inq[Peer(c)]
  BY <1>1, <1>7, PeerConn
<1>9. t.nalloced = s.nalloced + (Len(t.inq[c]) - Len(s.inq[c]))
                              + (Len(t.out[c]) - Len(s.out[c]))
  BY <1>1, <1>5, <1>8
<1>10. s.nalloced = NPackets(s) => t.nalloced = NPackets(t)
  BY <1>4, <1>7, <1>8, <1>9, CountMoves
<1>11. Keeps(s, t)
  BY <1>4, <1>7, <1>10 DEF Keeps
<1> QED  BY <1>6, <1>11, Zenon

\* Taking the packets of a connection leaves both its queues empty.
LEMMA FreePacketsKeeps ==
  ASSUME NEW s \in Memory, NEW c \in Conn
  PROVE  LET t == FreePackets(s, c)
         IN  /\ Keeps(s, t)
             /\ t.inq = [s.inq EXCEPT ![c] = <<>>]
             /\ t.out = [s.out EXCEPT ![c] = <<>>]
<1> DEFINE t == FreePackets(s, c)
<1>0. /\ s.inq[c] \in Seq(Packet) /\ s.out[c] \in Seq(Packet)
      /\ s.nalloced \in Int /\ <<>> \in Seq(Packet)
  BY DEF Memory
<1>1. s.nalloced - Len(s.inq[c]) - Len(s.out[c]) \in Int
  BY <1>0
<1>2. t \in Memory
  BY <1>0, <1>1, SetQueue, SetCount, Zenon DEF FreePackets
<1>3. /\ t.alive = s.alive /\ t.fd = s.fd /\ t.mid = s.mid /\ t.taskq = s.taskq
      /\ t.inq = [s.inq EXCEPT ![c] = <<>>] /\ t.out = [s.out EXCEPT ![c] = <<>>]
      /\ t.nalloced = s.nalloced - Len(s.inq[c]) - Len(s.out[c])
  BY DEF FreePackets, Memory
<1>4. t.nalloced = s.nalloced + (Len(<<>>) - Len(s.inq[c]))
                              + (Len(<<>>) - Len(s.out[c]))
  BY <1>0, <1>3
<1> HIDE DEF t
<1>5. Keeps(s, t)
  BY <1>0, <1>2, <1>3, <1>4, KeepsCount, ZenonT(60)
<1> QED  BY <1>3, <1>5, Zenon DEF t

-----------------------------------------------------------------------------
(* Deleting a session.                                                     *)

\* The memory between two tasks or callbacks: no packet is between the two
\* connections, nalloced is exact, a task is linked once, and a deleted
\* session has no packet, no socket and no task.
Sound(s) ==
  /\ s \in Memory
  /\ s.nalloced = NPackets(s)
  /\ \A c \in Conn : s.mid[c] = <<>>
  /\ \A i, j \in 1..Len(s.taskq) : s.taskq[i] = s.taskq[j] => i = j
  /\ ~s.alive => /\ s.nalloced = 0 /\ s.taskq = <<>>
                 /\ \A c \in Conn : ~s.fd[c]

LEMMA KeepsSound ==
  ASSUME NEW s, NEW t, Sound(s), Keeps(s, t), s.alive
  PROVE  Sound(t) /\ t.alive
  BY DEF Sound, Keeps

LEMMA ConnFree ==
  ASSUME NEW s \in Memory, NEW c \in Conn
  PROVE  LET t == conn_free(s, c)
         IN  /\ t \in Memory
             /\ s.nalloced = NPackets(s) => t.nalloced = NPackets(t)
             /\ t.alive = s.alive /\ t.mid = s.mid /\ t.taskq = s.taskq
             /\ t.fd = [s.fd EXCEPT ![c] = FALSE]
             /\ t.inq = [s.inq EXCEPT ![c] = <<>>]
             /\ t.out = [s.out EXCEPT ![c] = <<>>]
<1> DEFINE a == FreePackets(s, c)
           b == AddEvent(a, c, {}, "NULL")
           d == [b EXCEPT !.fd[c] = FALSE]
           t == [d EXCEPT !.task[c] = "NONE"]
<1>1. /\ Keeps(s, a) /\ a \in Memory
      /\ a.inq = [s.inq EXCEPT ![c] = <<>>] /\ a.out = [s.out EXCEPT ![c] = <<>>]
  BY FreePacketsKeeps DEF Keeps
<1>2. {} \in SUBSET Mask /\ "NULL" \in Callback /\ "NONE" \in TaskType
  BY DEF Callback, TaskType
<1> HIDE DEF a
<1>3. Keeps(a, b) /\ b \in Memory
  BY <1>1, <1>2, AddEventKeeps DEF Keeps
<1>4. b.inq = a.inq /\ b.out = a.out
  BY <1>1 DEF AddEvent, Memory
<1>5. Keeps(s, b)
  BY <1>1, <1>3, KeepsTrans
<1>6. conn_free(s, c) = t
  BY Zenon DEF conn_free, a
<1> HIDE DEF b
<1>7. d \in Memory
  BY <1>3, SetBool, Zenon
<1>8. /\ d.alive = b.alive /\ d.mid = b.mid /\ d.taskq = b.taskq
      /\ d.fd = [b.fd EXCEPT ![c] = FALSE]
      /\ d.inq = b.inq /\ d.out = b.out /\ d.nalloced = b.nalloced
  BY <1>3 DEF Memory
<1> HIDE DEF d
<1>10. t \in Memory
  BY <1>2, <1>7, SetTask
<1>9. /\ t.alive = d.alive /\ t.mid = d.mid /\ t.taskq = d.taskq
      /\ t.fd = d.fd /\ t.inq = d.inq /\ t.out = d.out /\ t.nalloced = d.nalloced
  BY <1>7 DEF Memory
<1> HIDE DEF t
<1> QED  BY <1>1, <1>4, <1>5, <1>6, <1>8, <1>9, <1>10 DEF Keeps, NPackets

\* Without packets left, the count is zero.
LEMMA NoPackets ==
  ASSUME NEW s \in Memory, s.nalloced = NPackets(s),
         \A c \in Conn : s.inq[c] = <<>> /\ s.mid[c] = <<>> /\ s.out[c] = <<>>
  PROVE  s.nalloced = 0
<1>1. Client \in Conn /\ Server \in Conn
  BY DEF Conn
<1>2. /\ Len(s.inq[Client]) = 0 /\ Len(s.inq[Server]) = 0
      /\ Len(s.mid[Client]) = 0 /\ Len(s.mid[Server]) = 0
      /\ Len(s.out[Client]) = 0 /\ Len(s.out[Server]) = 0
  BY <1>1
<1>3. NPackets(s) = 0 + 0 + 0 + 0 + 0 + 0
  BY <1>2, Zenon DEF NPackets
<1> QED  BY <1>3

\* The assertion of session_free holds in every sound memory.
LEMMA SessionFree ==
  ASSUME NEW s, Sound(s), NEW c \in Conn, ~task_in_queue(s, c)
  PROVE  LET t == session_free(s, c)
         IN  Sound(t) /\ t.taskq = s.taskq /\ (t.alive => s.alive)
<1> DEFINE p == Peer(c)
           a == conn_free(s, c)
           b == conn_free(a, p)
           x == [a EXCEPT !.task[p] = "DELETE"]
           r == IF s.svrdata THEN b.svrref - 1 ELSE b.svrref
           d == [b EXCEPT !.alive = FALSE]
           e == [d EXCEPT !.plref = b.plref - 1]
           y == [e EXCEPT !.svrref = r]
<1>1. s \in Memory /\ p \in Conn /\ p # c /\ \A z \in Conn : z = c \/ z = p
  BY PeerConn DEF Sound
<1>2. /\ a \in Memory /\ a.nalloced = NPackets(a)
      /\ a.alive = s.alive /\ a.mid = s.mid /\ a.taskq = s.taskq
      /\ a.fd = [s.fd EXCEPT ![c] = FALSE]
      /\ a.inq = [s.inq EXCEPT ![c] = <<>>] /\ a.out = [s.out EXCEPT ![c] = <<>>]
  BY <1>1, ConnFree DEF Sound
<1> HIDE DEF a, p
<1>3. CASE task_in_queue(a, p)
  <2>1. session_free(s, c) = x
    BY <1>3, Zenon DEF session_free, a, p
  <2>2. x \in Memory
    BY <1>1, <1>2, SetTask DEF TaskType
  <2>3. /\ x.alive = a.alive /\ x.mid = a.mid /\ x.taskq = a.taskq /\ x.fd = a.fd
        /\ x.inq = a.inq /\ x.out = a.out /\ x.nalloced = a.nalloced
    BY <1>2 DEF Memory
  <2> HIDE DEF x
  <2>4. x.nalloced = NPackets(x)
    BY <1>2, <2>3 DEF NPackets
  <2>5. s.taskq # <<>>
    BY <1>2, <1>3 DEF task_in_queue
  <2>6. s.alive
    BY <2>5 DEF Sound
  <2> QED  BY <1>2, <2>1, <2>2, <2>3, <2>4, <2>6 DEF Sound
<1>4. CASE ~task_in_queue(a, p)
  <2>1. /\ b \in Memory /\ b.nalloced = NPackets(b)
        /\ b.mid = a.mid /\ b.taskq = a.taskq
        /\ b.fd = [a.fd EXCEPT ![p] = FALSE]
        /\ b.inq = [a.inq EXCEPT ![p] = <<>>] /\ b.out = [a.out EXCEPT ![p] = <<>>]
    BY <1>1, <1>2, ConnFree
  <2> HIDE DEF b
  <2>2. b.plref - 1 \in Int /\ r \in Int
    BY <2>1 DEF Memory
  <2> HIDE DEF r
  <2>3. d \in Memory
    BY <1>1, <2>1, SetBool, Zenon
  <2>4. /\ d.mid = b.mid /\ d.taskq = b.taskq /\ d.fd = b.fd /\ ~d.alive
        /\ d.inq = b.inq /\ d.out = b.out /\ d.nalloced = b.nalloced
        /\ d.plref = b.plref /\ d.svrref = b.svrref
    BY <2>1 DEF Memory
  <2> HIDE DEF d
  <2>5. e \in Memory
    BY <2>2, <2>3, SetCount
  <2>6. /\ e.mid = d.mid /\ e.taskq = d.taskq /\ e.fd = d.fd /\ e.alive = d.alive
        /\ e.inq = d.inq /\ e.out = d.out /\ e.nalloced = d.nalloced
        /\ e.svrref = d.svrref
    BY <2>3 DEF Memory
  <2> HIDE DEF e
  <2>7. y \in Memory
    BY <2>2, <2>5, SetCount
  <2>8. /\ y.mid = e.mid /\ y.taskq = e.taskq /\ y.fd = e.fd /\ y.alive = e.alive
        /\ y.inq = e.inq /\ y.out = e.out /\ y.nalloced = e.nalloced
    BY <2>5 DEF Memory
  <2>9. session_free(s, c) = y
    BY <1>4, Zenon DEF session_free, a, b, p, d, e, r
  <2> HIDE DEF y
  <2>10. \A z \in Conn : /\ y.inq[z] = <<>> /\ y.out[z] = <<>>
                         /\ y.mid[z] = <<>> /\ ~y.fd[z]
    <3>1. \A z \in Conn : s.mid[z] = <<>>
      BY DEF Sound
    <3>2. /\ s.inq \in [Conn -> Seq(Packet)] /\ s.out \in [Conn -> Seq(Packet)]
          /\ s.fd \in [Conn -> BOOLEAN]
      BY <1>1 DEF Memory
    <3>3. y.inq = [[s.inq EXCEPT ![c] = <<>>] EXCEPT ![p] = <<>>]
      BY <1>2, <2>1, <2>4, <2>6, <2>8, Zenon
    <3>4. y.out = [[s.out EXCEPT ![c] = <<>>] EXCEPT ![p] = <<>>]
      BY <1>2, <2>1, <2>4, <2>6, <2>8, Zenon
    <3>5. y.fd = [[s.fd EXCEPT ![c] = FALSE] EXCEPT ![p] = FALSE]
      BY <1>2, <2>1, <2>4, <2>6, <2>8, Zenon
    <3>6. y.mid = s.mid
      BY <1>2, <2>1, <2>4, <2>6, <2>8, Zenon
    <3> QED  BY <1>1, <3>1, <3>2, <3>3, <3>4, <3>5, <3>6
  <2>11. y.nalloced = NPackets(y)
    <3>1. /\ y.inq = b.inq /\ y.out = b.out /\ y.mid = b.mid
          /\ y.nalloced = b.nalloced
      BY <2>4, <2>6, <2>8, Zenon
    <3>2. NPackets(y) = NPackets(b)
      BY <3>1, Zenon DEF NPackets
    <3> QED  BY <2>1, <3>1, <3>2, Zenon
  <2>12. y.nalloced = 0
    BY <2>7, <2>10, <2>11, NoPackets
  <2>13. y.taskq = s.taskq
    BY <1>2, <2>1, <2>4, <2>6, <2>8, Zenon
  <2>14. s.taskq = <<>>
    <3>1. s.taskq \in Seq(Conn)
      BY <1>1 DEF Memory
    <3>2. \A i \in 1..Len(s.taskq) : s.taskq[i] # c /\ s.taskq[i] # p
      BY <1>2, <1>4 DEF task_in_queue
    <3>3. ~(1 \in 1..Len(s.taskq))
      BY <1>1, <3>1, <3>2
    <3> QED  BY <3>1, <3>3
  <2>15. ~y.alive
    BY <2>4, <2>6, <2>8, Zenon
  <2> QED  BY <2>7, <2>9, <2>10, <2>11, <2>12, <2>13, <2>14, <2>15 DEF Sound
<1> QED  BY <1>3, <1>4

-----------------------------------------------------------------------------
(* Linking a task.                                                         *)

\* From s to t the task of c may have been linked, and nothing else happened
\* to what Keeps names.
Links(s, c, t) ==
  /\ t \in Memory
  /\ t.alive = s.alive /\ t.fd = s.fd /\ t.mid = s.mid
  /\ t.taskq = s.taskq \/ t.taskq = Append(s.taskq, c)
  /\ s.nalloced = NPackets(s) => t.nalloced = NPackets(t)

LEMMA KeepsLinks ==
  ASSUME NEW s, NEW t, NEW u, NEW c, Keeps(s, t), Links(t, c, u)
  PROVE  Links(s, c, u)
  BY DEF Keeps, Links

LEMMA KeepsIsLinks ==
  ASSUME NEW s, NEW t, NEW c, Keeps(s, t)
  PROVE  Links(s, c, t)
  BY DEF Keeps, Links

LEMMA TaskLinks ==
  ASSUME NEW s \in Memory, NEW c \in Conn, NEW v \in TaskType, NEW q \in Seq(Conn),
         q = s.taskq \/ q = Append(s.taskq, c)
  PROVE  Links(s, c, [s EXCEPT !.task[c] = v, !.taskq = q])
<1> DEFINE d == [s EXCEPT !.task[c] = v]
           t == [d EXCEPT !.taskq = q]
<1>1. d \in Memory
  BY SetTask
<1>2. /\ d.alive = s.alive /\ d.fd = s.fd /\ d.mid = s.mid
      /\ d.inq = s.inq /\ d.out = s.out /\ d.nalloced = s.nalloced
  BY DEF Memory
<1> HIDE DEF d
<1>3. t \in Memory
  BY <1>1, SetTaskq
<1>4. /\ t.alive = d.alive /\ t.fd = d.fd /\ t.mid = d.mid /\ t.taskq = q
      /\ t.inq = d.inq /\ t.out = d.out /\ t.nalloced = d.nalloced
  BY <1>1 DEF Memory
<1>5. [s EXCEPT !.task[c] = v, !.taskq = q] = t
  BY Zenon DEF d
<1> HIDE DEF t
<1> QED  BY <1>2, <1>3, <1>4, <1>5 DEF Links, NPackets

LEMMA AddTaskLinks ==
  ASSUME NEW s \in Memory, NEW c \in Conn, NEW v \in TaskType
  PROVE  Links(s, c, AddTask(s, c, v)) /\ Links(s, c, AddTaskAlways(s, c, v))
<1> DEFINE q == IF task_in_queue(s, c) THEN s.taskq ELSE Append(s.taskq, c)
           r == Append(s.taskq, c)
<1>1. s.taskq \in Seq(Conn)
  BY DEF Memory
<1>2. /\ q \in Seq(Conn) /\ (q = s.taskq \/ q = Append(s.taskq, c))
      /\ r \in Seq(Conn) /\ r = Append(s.taskq, c)
  BY <1>1
<1>3. /\ AddTask(s, c, v) = [s EXCEPT !.task[c] = v, !.taskq = q]
      /\ AddTaskAlways(s, c, v) = [s EXCEPT !.task[c] = v, !.taskq = r]
  BY DEF AddTask, AddTaskAlways
<1> HIDE DEF q, r
<1>4. Links(s, c, [s EXCEPT !.task[c] = v, !.taskq = q])
  BY <1>2, TaskLinks
<1>5. Links(s, c, [s EXCEPT !.task[c] = v, !.taskq = r])
  BY <1>2, TaskLinks
<1> QED  BY <1>3, <1>4, <1>5, Zenon

LEMMA LinksSound ==
  ASSUME NEW s, NEW t, NEW c \in Conn, Sound(s), Links(s, c, t), s.alive,
         ~task_in_queue(s, c)
  PROVE  Sound(t) /\ t.alive
<1>1. s.taskq \in Seq(Conn)
  BY DEF Sound, Memory
<1>2. \A i, j \in 1..Len(t.taskq) : t.taskq[i] = t.taskq[j] => i = j
  <2> DEFINE q == s.taskq
  <2>1. \A i, j \in 1..Len(q) : q[i] = q[j] => i = j
    BY DEF Sound
  <2>2. \A i \in 1..Len(q) : q[i] # c
    BY DEF task_in_queue
  <2>3. t.taskq = q \/ t.taskq = Append(q, c)
    BY DEF Links
  <2>4. q \in Seq(Conn)
    BY <1>1
  <2> HIDE DEF q
  <2>5. \A i, j \in 1..Len(Append(q, c)) : Append(q, c)[i] = Append(q, c)[j] => i = j
    <3>1. /\ Len(Append(q, c)) = Len(q) + 1 /\ Len(q) \in Nat
          /\ \A i \in 1..Len(q) : Append(q, c)[i] = q[i]
          /\ Append(q, c)[Len(q) + 1] = c
      BY <2>4
    <3> SUFFICES ASSUME NEW i \in 1..Len(q) + 1, NEW j \in 1..Len(q) + 1,
                        Append(q, c)[i] = Append(q, c)[j]
                 PROVE  i = j
      BY <3>1
    <3>2. (i \in 1..Len(q) \/ i = Len(q) + 1) /\ (j \in 1..Len(q) \/ j = Len(q) + 1)
      BY <3>1
    <3> QED  BY <2>1, <2>2, <3>1, <3>2
  <2> QED  BY <2>1, <2>3, <2>5
<1> QED  BY <1>2 DEF Sound, Links

-----------------------------------------------------------------------------
(* Receiving.                                                              *)

\* The piece of d that pass i of n reads is a piece of d.
LEMMA ChunksType ==
  ASSUME NEW d \in Seq(Nat), NEW n \in Nat \ {0},
         n = 1 \/ (n - 1) * PktMax < Len(d)
  PROVE  Chunks(d, n) \in Seq(Packet) /\ Len(Chunks(d, n)) = n
<1> DEFINE lo(i) == (i - 1) * PktMax + 1
           hi(i) == IF i = n THEN Len(d) ELSE i * PktMax
           pkt(i) == [data |-> SubSeq(d, lo(i), hi(i)), sendpos |-> 0]
<1>1. PktMax \in Nat \ {0} /\ Len(d) \in Nat
  BY SessionAssumption
<1>2. ASSUME NEW i \in 1..n
      PROVE  pkt(i) \in Packet
  <2>1. (i - 1) * PktMax \in Nat
    BY <1>1
  <2>2. i # n => i * PktMax \in Int /\ i * PktMax <= (n - 1) * PktMax
    BY <1>1
  <2>3. lo(i) \in Nat /\ lo(i) >= 1 /\ hi(i) \in Int /\ hi(i) <= Len(d)
    <3>1. CASE i = n
      BY <3>1, <1>1, <2>1
    <3>2. CASE i # n
      <4>1. n # 1
        BY <3>2
      <4>2. (n - 1) * PktMax \in Int /\ (n - 1) * PktMax < Len(d)
        BY <4>1, <1>1
      <4> QED  BY <3>2, <1>1, <2>1, <2>2, <4>2
    <3> QED  BY <3>1, <3>2
  <2> HIDE DEF lo, hi
  <2>4. \A j \in lo(i)..hi(i) : d[j] \in Nat
    BY <2>3
  <2>5. SubSeq(d, lo(i), hi(i)) \in Seq(Nat)
    BY <2>3, <2>4, SubSeqProperties
  <2> QED  BY <2>5 DEF Packet
<1>3. Chunks(d, n) = [i \in 1..n |-> pkt(i)]
  BY DEF Chunks
<1> HIDE DEF pkt
<1> QED  BY <1>2, <1>3

LEMMA RecvOutcomeType ==
  ASSUME NEW s \in Memory, NEW kc \in Socket, NEW c \in Conn,
         NEW r \in RecvOutcome(s, kc, c)
  PROVE  /\ r.data \in Seq(Nat) /\ Len(r.data) \in 0..Len(kc.rcv)
         /\ r.passes \in Nat \ {0}
         /\ r.passes = 1 \/ HasRoom(s, c) \/ (r.passes - 1) * PktMax < Len(r.data)
<1> DEFINE q == kc.rcv
<1>1. q \in Seq(Nat) /\ Len(q) \in Nat
  BY DEF Socket
<1>2. \A m \in 0..Len(q) : SubSeq(q, 1, m) \in Seq(Nat) /\ Len(SubSeq(q, 1, m)) = m
  BY <1>1
<1> HIDE DEF q
<1>3. CASE r.n = "data"
  <2>1. /\ r.data \in {SubSeq(q, 1, m) : m \in 0..Len(q)}
        /\ r.passes \in 1..(Len(q) + 1)
        /\ Passes(s, c, Len(r.data), r.passes)
    BY <1>3 DEF RecvOutcome, q
  <2>2. r.data \in Seq(Nat) /\ Len(r.data) \in 0..Len(q)
    BY <1>2, <2>1
  <2>3. r.passes \in Nat \ {0}
    BY <1>1, <2>1
  <2> QED  BY <2>1, <2>2, <2>3 DEF Passes, q
<1>4. CASE r.n # "data"
  <2>1. r.data = <<>> /\ r.passes = 1
    BY <1>4 DEF RecvOutcome
  <2> QED  BY <1>1, <2>1 DEF q
<1> QED  BY <1>3, <1>4

LEMMA ReceivedKeeps ==
  ASSUME NEW s \in Memory, NEW kc \in Socket, NEW c \in Conn,
         NEW r \in RecvOutcome(s, kc, c)
  PROVE  Keeps(s, Received(s, c, r))
<1> DEFINE old == s.inq[c]
           new == IF r.data = <<>> THEN <<PKT_INIT>> ELSE Chunks(r.data, r.passes)
           fil == [old EXCEPT ![1].data = old[1].data \o r.data]
<1>0. old \in Seq(Packet) /\ s.nalloced \in Int
  BY DEF Memory
<1>1. r.data \in Seq(Nat)
  BY RecvOutcomeType
<1>2. CASE HasRoom(s, c)
  <2>1. old # <<>>
    BY <1>2 DEF HasRoom
  <2>2. fil \in Seq(Packet) /\ Len(fil) = Len(old)
    <3> HIDE DEF old
    <3>1. 1 \in 1..Len(old) /\ old[1] \in Packet
      BY <1>0, <2>1
    <3>2. old[1].data \o r.data \in Seq(Nat)
      BY <1>1, <3>1 DEF Packet
    <3>3. [old[1] EXCEPT !.data = old[1].data \o r.data] \in Packet
      BY <3>1, <3>2 DEF Packet
    <3>4. fil = [old EXCEPT ![1] = [old[1] EXCEPT !.data = old[1].data \o r.data]]
      OBVIOUS
    <3> QED  BY <1>0, <3>1, <3>3, <3>4
  <2>3. Received(s, c, r) = [s EXCEPT !.inq[c] = fil]
    BY <1>2, Zenon DEF Received
  <2> HIDE DEF fil
  <2>4. s.nalloced = s.nalloced + (Len(fil) - Len(s.inq[c]))
    BY <1>0, <2>2
  <2>5. [s EXCEPT !.inq[c] = fil]
          = [s EXCEPT !.inq[c] = fil, !.nalloced = s.nalloced]
    BY DEF Memory
  <2>6. Keeps(s, [s EXCEPT !.inq[c] = fil, !.nalloced = s.nalloced])
    BY <1>0, <2>2, <2>4, InqKeeps
  <2> QED  BY <2>3, <2>5, <2>6, Zenon
<1>3. CASE ~HasRoom(s, c)
  <2> DEFINE q == old \o new
             n == s.nalloced + Len(new)
  <2>1. new \in Seq(Packet)
    <3>1. CASE r.data = <<>>
      BY <3>1 DEF PKT_INIT, Packet
    <3>2. CASE r.data # <<>>
      BY <3>2, <1>3, <1>1, RecvOutcomeType, ChunksType
    <3> QED  BY <3>1, <3>2
  <2>2. Received(s, c, r) = [s EXCEPT !.inq[c] = q, !.nalloced = n]
    BY <1>3 DEF Received
  <2> HIDE DEF new
  <2>3. q \in Seq(Packet) /\ Len(q) = Len(old) + Len(new) /\ n \in Int
    BY <1>0, <2>1
  <2>4. Len(new) \in Nat /\ Len(old) \in Nat
    BY <1>0, <2>1
  <2>5. n = s.nalloced + (Len(q) - Len(s.inq[c]))
    BY <1>0, <2>3, <2>4
  <2> HIDE DEF q, n
  <2>6. Keeps(s, [s EXCEPT !.inq[c] = q, !.nalloced = n])
    BY <2>3, <2>5, InqKeeps
  <2> QED  BY <2>2, <2>6, Zenon
<1> QED  BY <1>2, <1>3

LEMMA DropEmptyKeeps ==
  ASSUME NEW s \in Memory, NEW c \in Conn
  PROVE  Keeps(s, DropEmpty(s, c))
<1> DEFINE q == s.inq[c]
           h == SubSeq(q, 1, Len(q) - 1)
<1>1. q \in Seq(Packet) /\ s.nalloced \in Int
  BY DEF Memory
<1>2. CASE q # <<>> /\ q[Len(q)].data = <<>>
  <2> DEFINE n == s.nalloced - 1
  <2>1. DropEmpty(s, c) = [s EXCEPT !.inq[c] = h, !.nalloced = n]
    BY <1>2, Zenon DEF DropEmpty
  <2>2. h \in Seq(Packet) /\ Len(h) = Len(q) - 1 /\ Len(q) \in Nat
    BY <1>1, <1>2
  <2> HIDE DEF h
  <2>3. n = s.nalloced + (Len(h) - Len(s.inq[c])) /\ n \in Int
    BY <1>1, <2>2
  <2> HIDE DEF n
  <2>4. Keeps(s, [s EXCEPT !.inq[c] = h, !.nalloced = n])
    BY <2>2, <2>3, InqKeeps
  <2> QED  BY <2>1, <2>4, Zenon
<1>3. CASE ~(q # <<>> /\ q[Len(q)].data = <<>>)
  BY <1>3, KeepsSelf, Zenon DEF DropEmpty
<1> QED  BY <1>2, <1>3

\* The constants the handlers use have their types.
LEMMA HandlerConstants ==
  /\ FD_IN \in SUBSET Mask /\ FD_OUT \in SUBSET Mask /\ {} \in SUBSET Mask
  /\ {"NULL", "recv", "send", "handshake", "shutdown"} \subseteq Callback
  /\ {"ERROR", "HSK", "SSLHSK", "SHUTRD", "SHUTWR", "SSLSHUT", "BLOCKED"} \subseteq Flag
  /\ {"NONE", "PARSE", "SEND", "DELETE"} \subseteq TaskType
  BY DEF FD_IN, FD_OUT, Mask, Callback, Flag, TaskType

LEMMA RecvLinks ==
  ASSUME NEW s \in Memory, NEW kc \in Socket, NEW c \in Conn, NEW mask,
         NEW r \in RecvOutcome(s, kc, c)
  PROVE  Links(s, c, conn_recv_data(s, c, mask, r))
<1> DEFINE s1 == Received(s, c, r)
           s2 == Raise(s1, c, "SHUTRD")
           s4 == Raise(s2, c, "SSLSHUT")
           s3 == IF s.ssl[c] # "NULL" THEN AddEvent(s4, c, FD_OUT, "shutdown")
                 ELSE AddEvent(s2, c, {}, "NULL")
           s5 == IF r.closed \/ "RDHUP" \in mask THEN DropEmpty(s3, c) ELSE s1
           e0 == Raise(s, c, "ERROR")
           e1 == Raise(s1, c, "ERROR")
<1>1. conn_recv_data(s, c, mask, r) \in
        {AddTask(e0, c, "DELETE"), AddTask(s, c, "DELETE"),
         AddTask(e1, c, "DELETE"), AddTask(s5, c, "PARSE")}
  BY Zenon DEF conn_recv_data
<1>2. Keeps(s, s) /\ Keeps(s, s1) /\ s1 \in Memory
  BY KeepsSelf, ReceivedKeeps DEF Keeps
<1> HIDE DEF s1
<1>3. Keeps(s, e0) /\ Keeps(s1, e1) /\ Keeps(s1, s2) /\ s2 \in Memory
  BY <1>2, RaiseClearKeeps, HandlerConstants DEF Keeps
<1> HIDE DEF s2, e0, e1
<1>4. Keeps(s2, s4) /\ s4 \in Memory
  BY <1>3, RaiseClearKeeps, HandlerConstants DEF Keeps
<1> HIDE DEF s4
<1>5. Keeps(s, e1) /\ Keeps(s, s2) /\ Keeps(s, s4)
  BY <1>2, <1>3, <1>4, KeepsTrans
<1>6. Keeps(s, s3) /\ s3 \in Memory
  <2>1. /\ Keeps(s4, AddEvent(s4, c, FD_OUT, "shutdown"))
        /\ Keeps(s2, AddEvent(s2, c, {}, "NULL"))
    BY <1>3, <1>4, AddEventKeeps, HandlerConstants
  <2>2. Keeps(s, s3)
    BY <1>5, <2>1, KeepsTrans
  <2> QED  BY <2>2 DEF Keeps
<1> HIDE DEF s3
<1>7. Keeps(s, s5)
  BY <1>2, <1>6, DropEmptyKeeps, KeepsTrans
<1> HIDE DEF s5
<1>8. \A t : Keeps(s, t) => /\ Links(s, c, AddTask(t, c, "DELETE"))
                            /\ Links(s, c, AddTask(t, c, "PARSE"))
  <2> SUFFICES ASSUME NEW t, Keeps(s, t)
               PROVE  /\ Links(s, c, AddTask(t, c, "DELETE"))
                      /\ Links(s, c, AddTask(t, c, "PARSE"))
    OBVIOUS
  <2>1. t \in Memory
    BY DEF Keeps
  <2>2. Links(t, c, AddTask(t, c, "DELETE")) /\ Links(t, c, AddTask(t, c, "PARSE"))
    BY <2>1, AddTaskLinks, HandlerConstants
  <2> QED  BY <2>2, KeepsLinks
<1> QED  BY <1>1, <1>2, <1>3, <1>5, <1>7, <1>8, Zenon

-----------------------------------------------------------------------------
(* Sending.                                                                *)

LEMMA ConsumeKeeps ==
  ASSUME NEW s \in Memory, NEW c \in Conn, NEW o \in SendResult(s.out[c])
  PROVE  Keeps(s, Consume(s, c, o))
<1> DEFINE q == s.out[c]
           h == SubSeq(q, o.full + 1, Len(q))
           f == [h EXCEPT ![1].sendpos = h[1].sendpos + o.part]
           v == IF o.part = 0 THEN h ELSE f
           n == s.nalloced - o.full
<1>1. q \in Seq(Packet) /\ s.nalloced \in Int /\ Len(q) \in Nat
  BY DEF Memory
<1>2. o.full \in 0..Len(q) /\ o.part \in 0..SndBuf /\ o.part \in Nat
  BY SessionAssumption DEF SendResult
<1>3. h \in Seq(Packet) /\ Len(h) = Len(q) - o.full
  BY <1>1, <1>2
<1>4. Consume(s, c, o) = [s EXCEPT !.out[c] = v, !.nalloced = n]
  BY DEF Consume
<1> HIDE DEF h
<1>5. f \in Seq(Packet) /\ Len(f) = Len(h)
  <2>1. CASE h = <<>>
    <3>1. DOMAIN h = 1..0
      BY <2>1
    <3>2. DOMAIN f = 1..0 /\ f = [i \in 1..0 |-> f[i]]
      BY <3>1
    <3> HIDE DEF f
    <3>3. f \in [1..0 -> Packet]
      BY <3>2
    <3> QED  BY <3>3, <2>1
  <2>2. CASE h # <<>>
    <3>1. 1 \in 1..Len(h) /\ h[1] \in Packet
      BY <1>3, <2>2
    <3>2. h[1].sendpos + o.part \in Nat
      BY <1>2, <3>1 DEF Packet
    <3>3. [h[1] EXCEPT !.sendpos = h[1].sendpos + o.part] \in Packet
      BY <3>1, <3>2 DEF Packet
    <3>4. f = [h EXCEPT ![1] = [h[1] EXCEPT !.sendpos = h[1].sendpos + o.part]]
      OBVIOUS
    <3> QED  BY <1>3, <3>1, <3>3, <3>4
  <2> QED  BY <2>1, <2>2
<1> HIDE DEF f
<1>6. v \in Seq(Packet) /\ Len(v) = Len(q) - o.full
  BY <1>3, <1>5
<1> HIDE DEF v
<1>7. n \in Int /\ n = s.nalloced + (Len(v) - Len(s.out[c]))
  BY <1>1, <1>2, <1>6
<1> HIDE DEF n
<1>8. Keeps(s, [s EXCEPT !.out[c] = v, !.nalloced = n])
  BY <1>6, <1>7, OutKeeps
<1> QED  BY <1>4, <1>8, Zenon

LEMMA BlockKeeps ==
  ASSUME NEW s \in Memory, NEW c \in Conn
  PROVE  Keeps(s, Block(s, c)) /\ Keeps(s, Unblock(s, c)) /\ Keeps(s, ShutWrite(s, c))
<1> DEFINE p  == Peer(c)
           b1 == AddEvent(s, c, FD_OUT, "send")
           b2 == AddEvent(b1, p, {}, "NULL")
           u1 == AddEvent(s, c, FD_IN, "recv")
           u2 == AddEvent(u1, p, FD_IN, "recv")
           r1 == Raise(s, c, "SSLSHUT")
<1>1. p \in Conn /\ Keeps(s, s)
  BY PeerConn, KeepsSelf
<1> HIDE DEF p
<1>2. Keeps(s, b1) /\ Keeps(s, u1) /\ Keeps(s, r1)
  BY AddEventKeeps, RaiseClearKeeps, HandlerConstants
<1> HIDE DEF b1, u1, r1
<1>3. b1 \in Memory /\ u1 \in Memory /\ r1 \in Memory
  BY <1>2 DEF Keeps
<1>4. /\ Keeps(b1, b2) /\ Keeps(u1, u2) /\ Keeps(r1, AddEvent(r1, c, FD_OUT, "shutdown"))
      /\ Keeps(s, Raise(s, c, "SHUTWR"))
  BY <1>1, <1>3, AddEventKeeps, RaiseClearKeeps, HandlerConstants
<1>5. /\ Keeps(s, b2) /\ Keeps(s, u2) /\ Keeps(s, AddEvent(r1, c, FD_OUT, "shutdown"))
  BY <1>2, <1>4, KeepsTrans
<1> HIDE DEF b2, u2
<1>6. b2 \in Memory /\ u2 \in Memory
  BY <1>5 DEF Keeps
<1>7. Keeps(b2, Raise(b2, c, "BLOCKED")) /\ Keeps(u2, Clear(u2, c, "BLOCKED"))
  BY <1>6, RaiseClearKeeps, HandlerConstants
<1>8. Keeps(s, Raise(b2, c, "BLOCKED")) /\ Keeps(s, Clear(u2, c, "BLOCKED"))
  BY <1>5, <1>7, KeepsTrans
<1>9. Keeps(s, Block(s, c))
  BY <1>1, <1>8, Zenon DEF Block, b1, b2, p
<1>10. Keeps(s, Unblock(s, c))
  BY <1>1, <1>8, Zenon DEF Unblock, u1, u2, p
<1>11. Keeps(s, ShutWrite(s, c))
  BY <1>1, <1>4, <1>5, Zenon DEF ShutWrite, r1
<1> QED  BY <1>9, <1>10, <1>11

LEMMA SendKeeps ==
  ASSUME NEW s \in Memory, NEW c \in Conn, NEW o \in SendResult(s.out[c])
  PROVE  Keeps(s, conn_send_data(s, c, o))
<1> DEFINE s1 == Consume(s, c, o)
           s2 == Unblock(s1, c)
<1>1. Keeps(s, s1) /\ s1 \in Memory /\ Keeps(s, s)
  BY ConsumeKeeps, KeepsSelf DEF Keeps
<1>2. o.end \in {"all", "part", "err"}
  BY DEF SendResult
<1> HIDE DEF s1
<1>3. Keeps(s1, s2) /\ s2 \in Memory /\ Keeps(s1, Block(s1, c))
  BY <1>1, BlockKeeps DEF Keeps
<1> HIDE DEF s2
<1>4. Keeps(s2, ShutWrite(s2, c)) /\ Keeps(s1, Raise(s1, c, "ERROR"))
  BY <1>1, <1>3, BlockKeeps, RaiseClearKeeps, HandlerConstants
<1>5. /\ Keeps(s, ShutWrite(s2, c)) /\ Keeps(s, Block(s1, c))
      /\ Keeps(s, Raise(s1, c, "ERROR"))
  BY <1>1, <1>3, <1>4, KeepsTrans
<1>6. conn_send_data(s, c, o) \in
        {s, Raise(s1, c, "ERROR"), Block(s1, c), ShutWrite(s2, c)}
  BY <1>2 DEF conn_send_data, s1, s2
<1> QED  BY <1>1, <1>5, <1>6, Zenon

LEMMA SendEventLinks ==
  ASSUME NEW s \in Memory, NEW c \in Conn, NEW o \in SendResult(s.out[c])
  PROVE  Links(s, c, SendEvent(s, c, o))
<1> DEFINE t == conn_send_data(s, c, o)
<1>1. Keeps(s, t) /\ t \in Memory
  BY SendKeeps DEF Keeps
<1> HIDE DEF t
<1>2. Links(t, c, AddTaskAlways(t, c, "DELETE"))
  BY <1>1, AddTaskLinks, HandlerConstants
<1>3. Links(s, c, t) /\ Links(s, c, AddTaskAlways(t, c, "DELETE"))
  BY <1>1, <1>2, KeepsLinks, KeepsIsLinks
<1> QED  BY <1>3, Zenon DEF SendEvent, t

-----------------------------------------------------------------------------
(* Handshake and shutdown.                                                 *)

LEMMA RearmKeeps ==
  ASSUME NEW s \in Memory, NEW c \in Conn, NEW mask, NEW wait
  PROVE  Keeps(s, Rearm(s, c, mask, wait, "handshake"))
<1>1. /\ Keeps(s, s) /\ Keeps(s, AddEvent(s, c, FD_IN, "handshake"))
      /\ Keeps(s, AddEvent(s, c, FD_OUT, "handshake"))
  BY KeepsSelf, AddEventKeeps, HandlerConstants
<1>2. Rearm(s, c, mask, wait, "handshake") \in
        {s, AddEvent(s, c, FD_IN, "handshake"), AddEvent(s, c, FD_OUT, "handshake")}
  BY DEF Rearm
<1> QED  BY <1>1, <1>2, Zenon

\* Whatever Keeps relates to s stays related when a task of c is linked.
LEMMA LinksAfter ==
  ASSUME NEW s, NEW t, NEW c \in Conn, NEW v \in TaskType, Keeps(s, t)
  PROVE  Links(s, c, AddTask(t, c, v))
<1>1. t \in Memory
  BY DEF Keeps
<1>2. Links(t, c, AddTask(t, c, v))
  BY <1>1, AddTaskLinks
<1> QED  BY <1>2, KeepsLinks

LEMMA HandshakeLinks ==
  ASSUME NEW s \in Memory, NEW c \in Conn, NEW mask, NEW kc, NEW h
  PROVE  Links(s, c, conn_handshake(s, c, mask, kc, h))
<1> DEFINE F  == (s.flags[c] \ {"HSK"})
                   \union (IF s.ssl[c] # "NULL" THEN {"SSLHSK"} ELSE {})
           f1 == [s EXCEPT !.flags[c] = F]
           s1 == IF "HSK" \in s.flags[c] THEN f1 ELSE s
           s2 == Clear(s1, c, "SSLHSK")
           e0 == Raise(s, c, "ERROR")
           r1 == AddEvent(s1, c, FD_IN, "recv")
           r2 == AddEvent(s2, c, FD_IN, "recv")
           w1 == Rearm(s1, c, mask, h, "handshake")
<1>1. conn_handshake(s, c, mask, kc, h) \in
        {AddTask(s, c, "DELETE"), AddTask(e0, c, "DELETE"), AddTask(s1, c, "DELETE"),
         AddTask(r1, c, "SEND"), AddTask(r2, c, "SEND"), w1}
  BY DEF conn_handshake
<1>2. F \in SUBSET Flag
  BY DEF Memory, Flag
<1> HIDE DEF F
<1>3. Keeps(s, f1) /\ Keeps(s, s) /\ Keeps(s, e0)
  BY <1>2, FlagKeeps, KeepsSelf, RaiseClearKeeps, HandlerConstants
<1>4. Keeps(s, s1) /\ s1 \in Memory
  BY <1>3 DEF Keeps
<1> HIDE DEF s1, e0
<1>5. Keeps(s1, s2) /\ Keeps(s1, r1) /\ Keeps(s1, w1)
  BY <1>4, RaiseClearKeeps, AddEventKeeps, RearmKeeps, HandlerConstants
<1> HIDE DEF r1, w1, s2
<1>6. Keeps(s, s2) /\ s2 \in Memory /\ Keeps(s, r1) /\ Keeps(s, w1)
  BY <1>4, <1>5, KeepsTrans DEF Keeps
<1>7. Keeps(s2, r2)
  BY <1>6, AddEventKeeps, HandlerConstants
<1> HIDE DEF r2
<1>8. Keeps(s, r2)
  BY <1>6, <1>7, KeepsTrans
<1>9. /\ Links(s, c, AddTask(s, c, "DELETE")) /\ Links(s, c, AddTask(e0, c, "DELETE"))
      /\ Links(s, c, AddTask(s1, c, "DELETE"))
  BY <1>3, <1>4, LinksAfter, HandlerConstants
<1>10. /\ Links(s, c, AddTask(r1, c, "SEND")) /\ Links(s, c, AddTask(r2, c, "SEND"))
  BY <1>6, <1>8, LinksAfter, HandlerConstants
<1>11. Links(s, c, w1)
  BY <1>6, KeepsIsLinks
<1> QED  BY <1>1, <1>9, <1>10, <1>11, Zenon

LEMMA ShutdownLinks ==
  ASSUME NEW s \in Memory, NEW c \in Conn, NEW mask, NEW z
  PROVE  Links(s, c, conn_shutdown(s, c, mask, z))
<1> DEFINE a == AddEvent(s, c, {}, "NULL")
           d == [a EXCEPT !.ssl[c] = "NULL"]
           t == [d EXCEPT !.nssl = a.nssl - 1]
           v == Rearm(s, c, mask, z, "handshake")
<1>1. Keeps(s, a) /\ Keeps(s, s) /\ a \in Memory /\ Keeps(s, v)
  BY AddEventKeeps, KeepsSelf, RearmKeeps, HandlerConstants DEF Keeps
<1> HIDE DEF a
<1>2. d \in Memory
  BY <1>1, SetSSL
<1>3. /\ d.alive = a.alive /\ d.fd = a.fd /\ d.mid = a.mid /\ d.taskq = a.taskq
      /\ d.inq = a.inq /\ d.out = a.out /\ d.nalloced = a.nalloced /\ d.nssl = a.nssl
  BY <1>1 DEF Memory
<1>4. a.nssl - 1 \in Int
  BY <1>1 DEF Memory
<1> HIDE DEF d
<1>5. t \in Memory
  BY <1>2, <1>4, SetCount
<1>6. /\ t.alive = d.alive /\ t.fd = d.fd /\ t.mid = d.mid /\ t.taskq = d.taskq
      /\ t.inq = d.inq /\ t.out = d.out /\ t.nalloced = d.nalloced
  BY <1>2 DEF Memory
<1>7. conn_shutdown(s, c, mask, z) \in {AddTask(s, c, "DELETE"), a, t, v}
  <2>1. t = [a EXCEPT !.ssl[c] = "NULL", !.nssl = @ - 1]
    BY <1>3 DEF d
  <2> HIDE DEF t
  <2> QED  BY <2>1, Zenon DEF conn_shutdown, a
<1> HIDE DEF t, v
<1>8. Keeps(a, t)
  BY <1>1, <1>3, <1>5, <1>6, KeepsPackets
<1>9. Keeps(s, t)
  BY <1>1, <1>8, KeepsTrans
<1>10. Links(s, c, AddTask(s, c, "DELETE"))
  BY <1>1, LinksAfter, HandlerConstants
<1>11. Links(s, c, a) /\ Links(s, c, t) /\ Links(s, c, v)
  BY <1>1, <1>9, KeepsIsLinks
<1> QED  BY <1>7, <1>10, <1>11, Zenon

-----------------------------------------------------------------------------
(* Parsing and forwarding.                                                 *)

\* From s to t sockets may have been opened; packets and tasks are as before.
Opens(s, t) ==
  /\ t \in Memory
  /\ t.alive = s.alive /\ t.mid = s.mid /\ t.taskq = s.taskq
  /\ s.nalloced = NPackets(s) => t.nalloced = NPackets(t)

LEMMA OpensTrans ==
  ASSUME NEW s, NEW t, NEW u, Opens(s, t), Opens(t, u)
  PROVE  Opens(s, u)
  BY DEF Opens

LEMMA KeepsOpens ==
  ASSUME NEW s, NEW t, Keeps(s, t)
  PROVE  Opens(s, t)
  BY DEF Keeps, Opens

LEMMA OpensSound ==
  ASSUME NEW s, NEW t, Sound(s), s.alive, Opens(s, t)
  PROVE  Sound(t) /\ t.alive
  BY DEF Opens, Sound

LEMMA OpensFd ==
  ASSUME NEW s \in Memory, NEW c \in Conn
  PROVE  Opens(s, [s EXCEPT !.fd[c] = TRUE])
<1> DEFINE t == [s EXCEPT !.fd[c] = TRUE]
<1>1. t \in Memory
  BY SetBool, Zenon
<1>2. /\ t.alive = s.alive /\ t.mid = s.mid /\ t.taskq = s.taskq
      /\ t.inq = s.inq /\ t.out = s.out /\ t.nalloced = s.nalloced
  BY DEF Memory
<1> HIDE DEF t
<1>3. Opens(s, t)
  BY <1>1, <1>2 DEF Opens, NPackets
<1> QED  BY <1>3 DEF t

LEMMA OpensSSL ==
  ASSUME NEW s \in Memory, NEW c \in Conn, NEW v \in {"NULL", "nofd", "fd"}
  PROVE  Opens(s, [s EXCEPT !.ssl[c] = v])
<1> DEFINE t == [s EXCEPT !.ssl[c] = v]
<1>1. t \in Memory
  BY SetSSL
<1>2. /\ t.alive = s.alive /\ t.mid = s.mid /\ t.taskq = s.taskq
      /\ t.inq = s.inq /\ t.out = s.out /\ t.nalloced = s.nalloced
  BY DEF Memory
<1> HIDE DEF t
<1>3. Opens(s, t)
  BY <1>1, <1>2 DEF Opens, NPackets
<1> QED  BY <1>3 DEF t

LEMMA OpensServer ==
  ASSUME NEW s \in Memory, NEW c \in Conn
  PROVE  Opens(s, [s EXCEPT !.svrdata = TRUE])
<1> DEFINE t == [s EXCEPT !.svrdata = TRUE]
<1>1. t \in Memory
  BY SetBool, Zenon
<1>2. /\ t.alive = s.alive /\ t.mid = s.mid /\ t.taskq = s.taskq
      /\ t.inq = s.inq /\ t.out = s.out /\ t.nalloced = s.nalloced
  BY DEF Memory
<1> HIDE DEF t
<1>3. Opens(s, t)
  BY <1>1, <1>2 DEF Opens, NPackets
<1> QED  BY <1>3 DEF t

LEMMA OpensServerRef ==
  ASSUME NEW s \in Memory, NEW i \in Int
  PROVE  Opens(s, [s EXCEPT !.svrref = i])
<1> DEFINE t == [s EXCEPT !.svrref = i]
<1>1. t \in Memory
  BY SetCount
<1>2. /\ t.alive = s.alive /\ t.mid = s.mid /\ t.taskq = s.taskq
      /\ t.inq = s.inq /\ t.out = s.out /\ t.nalloced = s.nalloced
  BY DEF Memory
<1> HIDE DEF t
<1>3. Opens(s, t)
  BY <1>1, <1>2 DEF Opens, NPackets
<1> QED  BY <1>3 DEF t

LEMMA OpensSSLCount ==
  ASSUME NEW s \in Memory, NEW i \in Int
  PROVE  Opens(s, [s EXCEPT !.nssl = i])
<1> DEFINE t == [s EXCEPT !.nssl = i]
<1>1. t \in Memory
  BY SetCount
<1>2. /\ t.alive = s.alive /\ t.mid = s.mid /\ t.taskq = s.taskq
      /\ t.inq = s.inq /\ t.out = s.out /\ t.nalloced = s.nalloced
  BY DEF Memory
<1> HIDE DEF t
<1>3. Opens(s, t)
  BY <1>1, <1>2 DEF Opens, NPackets
<1> QED  BY <1>3 DEF t

\* Parsing and joining move the packets read from c to the output of its
\* peer, and leave none in between.
LEMMA ParseSound ==
  ASSUME NEW s, Sound(s), s.alive, NEW c \in Conn
  PROVE  LET t == Joined(session_fparse(s, c), Peer(c))
         IN  Sound(t) /\ t.alive /\ t.taskq = s.taskq
<1> DEFINE p == Peer(c)
           m == s.mid[c] \o s.inq[c]
           a == [s EXCEPT !.mid[c] = m]
           x == [a EXCEPT !.inq[c] = <<>>]
           q == x.out[p] \o x.mid[c]
           b == [x EXCEPT !.out[p] = q]
           t == [b EXCEPT !.mid[c] = <<>>]
<1>1. p \in Conn /\ p # c /\ Peer(p) = c /\ s \in Memory
  BY PeerConn DEF Sound
<1>2. /\ s.inq \in [Conn -> Seq(Packet)] /\ s.out \in [Conn -> Seq(Packet)]
      /\ s.mid \in [Conn -> Seq(Packet)] /\ s.nalloced \in Int
  BY <1>1 DEF Memory
<1>3. s.mid[c] = <<>> /\ s.mid[p] = <<>>
  BY <1>1 DEF Sound
<1> HIDE DEF p
<1>4. m \in Seq(Packet) /\ m = s.inq[c]
  BY <1>2, <1>3
<1>5. session_fparse(s, c) = x
  <2>1. x = [s EXCEPT !.mid[c] = m, !.inq[c] = <<>>]
    OBVIOUS
  <2> QED  BY <2>1 DEF session_fparse
<1> HIDE DEF m
<1>6. a \in Memory
  BY <1>1, <1>4, SetQueue
<1>7. /\ a.alive = s.alive /\ a.taskq = s.taskq /\ a.nalloced = s.nalloced
      /\ a.fd = s.fd
      /\ a.inq = s.inq /\ a.out = s.out /\ a.mid = [s.mid EXCEPT ![c] = m]
  BY <1>1 DEF Memory
<1> HIDE DEF a
<1>22. <<>> \in Seq(Packet)
  OBVIOUS
<1>8. x \in Memory
  BY <1>6, <1>22, SetQueue, Zenon
<1>9. /\ x.alive = a.alive /\ x.taskq = a.taskq /\ x.nalloced = a.nalloced
      /\ x.fd = a.fd
      /\ x.inq = [a.inq EXCEPT ![c] = <<>>] /\ x.out = a.out /\ x.mid = a.mid
  BY <1>6 DEF Memory
<1> HIDE DEF x
<1>10. q \in Seq(Packet) /\ q = s.out[p] \o s.inq[c]
  <2>1. x.out[p] = s.out[p] /\ x.mid = [s.mid EXCEPT ![c] = m]
    BY <1>7, <1>9, Zenon
  <2>2. x.mid[c] = s.inq[c]
    BY <1>2, <1>4, <2>1
  <2>3. s.out[p] \in Seq(Packet) /\ s.inq[c] \in Seq(Packet)
    BY <1>1, <1>2
  <2>4. s.out[p] \o s.inq[c] \in Seq(Packet)
    BY <2>3
  <2> QED  BY <2>1, <2>2, <2>4, Zenon
<1>11. Joined(x, p) = t
  <2>1. t = [x EXCEPT !.out[p] = q, !.mid[c] = <<>>]
    OBVIOUS
  <2> QED  BY <2>1, <1>1 DEF Joined
<1> HIDE DEF q
<1>12. b \in Memory
  BY <1>1, <1>8, <1>10, SetQueue
<1>13. /\ b.alive = x.alive /\ b.taskq = x.taskq /\ b.nalloced = x.nalloced
       /\ b.fd = x.fd
       /\ b.inq = x.inq /\ b.out = [x.out EXCEPT ![p] = q] /\ b.mid = x.mid
  BY <1>8 DEF Memory
<1> HIDE DEF b
<1>14. t \in Memory
  BY <1>12, <1>22, SetQueue, Zenon
<1>15. /\ t.alive = b.alive /\ t.taskq = b.taskq /\ t.nalloced = b.nalloced
       /\ t.fd = b.fd
       /\ t.inq = b.inq /\ t.out = b.out /\ t.mid = [b.mid EXCEPT ![c] = <<>>]
  <2>1. t.alive = b.alive /\ t.taskq = b.taskq /\ t.nalloced = b.nalloced
    BY <1>12 DEF Memory
  <2>2. t.fd = b.fd /\ t.inq = b.inq /\ t.out = b.out
    BY <1>12 DEF Memory
  <2>3. t.mid = [b.mid EXCEPT ![c] = <<>>]
    BY <1>12 DEF Memory
  <2> QED  BY <2>1, <2>2, <2>3, Zenon
<1> HIDE DEF t
<1>16. /\ t.alive = s.alive /\ t.taskq = s.taskq /\ t.nalloced = s.nalloced
  BY <1>7, <1>9, <1>13, <1>15, ZenonT(60)
<1>17. /\ t.inq = [s.inq EXCEPT ![c] = <<>>] /\ t.out = [s.out EXCEPT ![p] = q]
       /\ t.mid = [[s.mid EXCEPT ![c] = m] EXCEPT ![c] = <<>>]
  <2>1. t.inq = [s.inq EXCEPT ![c] = <<>>]
    BY <1>7, <1>9, <1>13, <1>15, Zenon
  <2>2. t.out = [s.out EXCEPT ![p] = q]
    BY <1>7, <1>9, <1>13, <1>15, Zenon
  <2>3. t.mid = [[s.mid EXCEPT ![c] = m] EXCEPT ![c] = <<>>]
    BY <1>7, <1>9, <1>13, <1>15, Zenon
  <2> QED  BY <2>1, <2>2, <2>3
<1>18. /\ t.inq[c] = <<>> /\ t.inq[p] = s.inq[p] /\ t.out[c] = s.out[c]
       /\ t.out[p] = s.out[p] \o s.inq[c] /\ t.mid[c] = <<>> /\ t.mid[p] = <<>>
  <2>1. t.inq[c] = <<>> /\ t.inq[p] = s.inq[p]
    <3>1. t.inq = [s.inq EXCEPT ![c] = <<>>]
      BY <1>17, Zenon
    <3> QED  BY <1>1, <1>2, <3>1, Zenon
  <2>2. t.out[c] = s.out[c] /\ t.out[p] = q
    <3>1. t.out = [s.out EXCEPT ![p] = q]
      BY <1>17, Zenon
    <3> QED  BY <1>1, <1>2, <3>1, Zenon
  <2>3. t.mid[c] = <<>> /\ t.mid[p] = <<>>
    <3> DEFINE n == [s.mid EXCEPT ![c] = m]
    <3>1. n \in [Conn -> Seq(Packet)] /\ n[p] = s.mid[p]
      BY <1>1, <1>2, <1>4, Zenon
    <3>2. t.mid = [n EXCEPT ![c] = <<>>]
      BY <1>17, Zenon
    <3> HIDE DEF n
    <3> QED  BY <1>1, <1>3, <3>1, <3>2, Zenon
  <2> QED  BY <1>10, <2>1, <2>2, <2>3, Zenon
<1>19. t.nalloced = NPackets(t)
  <2> DEFINE ic == Len(s.inq[c])
             ip == Len(s.inq[p])
             oc == Len(s.out[c])
             op == Len(s.out[p])
  <2>1. /\ ic \in Nat /\ ip \in Nat /\ oc \in Nat /\ op \in Nat
        /\ Len(s.mid[c]) = 0 /\ Len(s.mid[p]) = 0
    BY <1>1, <1>2, <1>3
  <2>2. NPackets(s) = ic + ip + Len(s.mid[c]) + Len(s.mid[p]) + oc + op
    BY <1>1, CountByPeer, Zenon DEF p
  <2>3. /\ Len(t.inq[c]) = 0 /\ Len(t.inq[p]) = ip /\ Len(t.mid[c]) = 0
        /\ Len(t.mid[p]) = 0 /\ Len(t.out[c]) = oc /\ Len(t.out[p]) = op + ic
    BY <1>1, <1>2, <1>18
  <2>4. NPackets(t) = 0 + ip + 0 + 0 + oc + (op + ic)
    <3>1. NPackets(t) = Len(t.inq[c]) + Len(t.inq[p]) + Len(t.mid[c])
                        + Len(t.mid[p]) + Len(t.out[c]) + Len(t.out[p])
      BY <1>14, CountByPeer, Zenon DEF p
    <3> QED  BY <2>3, <3>1, Zenon
  <2>5. NPackets(s) = ic + ip + 0 + 0 + oc + op
    BY <2>1, <2>2, Zenon
  <2> HIDE DEF ic, ip, oc, op
  <2>6. ic + ip + 0 + 0 + oc + op = 0 + ip + 0 + 0 + oc + (op + ic)
    BY <2>1
  <2>7. s.nalloced = NPackets(s)
    BY DEF Sound
  <2> QED  BY <1>16, <2>4, <2>5, <2>6, <2>7, Zenon
<1>20. \A z \in Conn : t.mid[z] = <<>>
  BY <1>1, <1>18, PeerConn DEF p
<1>21. Sound(t)
  BY <1>14, <1>16, <1>19, <1>20 DEF Sound
<1> QED  BY <1>5, <1>11, <1>16, <1>21 DEF p

LEMMA GetServerOpens ==
  ASSUME NEW s \in Memory, NEW c \in Conn
  PROVE  Opens(s, session_get_server(s, c))
<1> DEFINE a == [s EXCEPT !.svrdata = TRUE]
           g == [a EXCEPT !.svrref = s.svrref + 1]
           b == [g EXCEPT !.ssl[c] = "nofd"]
           x == [b EXCEPT !.nssl = g.nssl + 1]
           y == [g EXCEPT !.ssl[c] = "NULL"]
<1>1. s.svrref + 1 \in Int
  BY DEF Memory
<1>2. Opens(s, a) /\ a \in Memory
  BY OpensServer DEF Opens
<1>3. g = [s EXCEPT !.svrdata = TRUE, !.svrref = @ + 1]
  BY DEF Memory
<1> HIDE DEF a
<1>4. Opens(a, g) /\ g \in Memory
  BY <1>1, <1>2, OpensServerRef DEF Opens
<1> HIDE DEF g
<1>5. g.nssl + 1 \in Int
  BY <1>4 DEF Memory
<1>6. Opens(g, b) /\ b \in Memory /\ Opens(g, y)
  BY <1>4, OpensSSL DEF Opens
<1>7. x = [g EXCEPT !.ssl[c] = "nofd", !.nssl = @ + 1]
  BY <1>4 DEF Memory
<1> HIDE DEF b
<1>8. Opens(b, x)
  BY <1>5, <1>6, OpensSSLCount
<1> HIDE DEF x, y
<1>9. Opens(s, x) /\ Opens(s, y)
  BY <1>2, <1>4, <1>6, <1>8, OpensTrans
<1>10. session_get_server(s, c) \in {x, y}
  BY <1>3, <1>7, Zenon DEF session_get_server, y
<1> QED  BY <1>9, <1>10, Zenon

LEMMA ForwardOpens ==
  ASSUME NEW s, NEW c \in Conn, NEW f \in {"noserver", "fail", "wait", "now"},
         Joined(s, c) \in Memory
  PROVE  Opens(Joined(s, c), session_forward(s, c, f))
<1> DEFINE j  == Joined(s, c)
           g  == session_get_server(j, c)
           o  == [g EXCEPT !.fd[c] = TRUE]
           oa == Raise(o, c, "HSK")
           wa == AddEvent(oa, c, FD_OUT, "handshake")
           ss == [o EXCEPT !.ssl[c] = "fd"]
           up == [ss EXCEPT !.flags[c] = o.flags[c] \union {"SSLHSK"}]
           ua == AddEvent(up, c, FD_OUT, "handshake")
           na == AddEvent(o, c, FD_IN, "recv")
<1>1. j \in Memory /\ Opens(j, j)
  BY DEF Opens
<1> HIDE DEF j
<1>2. Opens(j, g) /\ g \in Memory
  BY <1>1, GetServerOpens DEF Opens
<1> HIDE DEF g
<1>3. Opens(g, o) /\ o \in Memory
  BY <1>2, OpensFd DEF Opens
<1> HIDE DEF o
<1>4. Opens(j, o)
  BY <1>2, <1>3, OpensTrans
<1>5. Opens(o, oa) /\ oa \in Memory /\ Opens(o, na)
  <2>0. o \in Memory /\ "HSK" \in Flag
    BY <1>3 DEF Flag
  <2>4. Keeps(o, oa)
    BY <2>0, RaiseClearKeeps
  <2>1. Opens(o, oa)
    BY <2>4, KeepsOpens, Zenon
  <2>2. oa \in Memory
    BY <2>1 DEF Opens
  <2>3. Opens(o, na)
    BY <1>3, AddEventKeeps, KeepsOpens, HandlerConstants
  <2> QED  BY <2>1, <2>2, <2>3, Zenon
<1> HIDE DEF oa, na
<1>6. Opens(oa, wa)
  BY <1>5, AddEventKeeps, KeepsOpens, HandlerConstants
<1>7. Opens(o, ss) /\ ss \in Memory
  BY <1>3, OpensSSL DEF Opens
<1>8. o.flags[c] \union {"SSLHSK"} \in SUBSET Flag
  BY <1>3 DEF Memory, Flag
<1>9. up = [o EXCEPT !.ssl[c] = "fd", !.flags[c] = @ \union {"SSLHSK"}]
  BY <1>3 DEF Memory
<1> HIDE DEF ss
<1>10. Opens(ss, up) /\ up \in Memory
  <2>1. Keeps(ss, up)
    BY <1>7, <1>8, FlagKeeps
  <2>2. Opens(ss, up)
    BY <2>1, KeepsOpens, Zenon
  <2> QED  BY <2>2 DEF Opens
<1> HIDE DEF up
<1>11. Opens(up, ua)
  BY <1>10, AddEventKeeps, KeepsOpens, HandlerConstants
<1> HIDE DEF wa, ua
<1>12. Opens(j, wa) /\ Opens(j, ua) /\ Opens(j, na)
  <2>1. Opens(j, wa)
    BY <1>4, <1>5, <1>6, OpensTrans
  <2>2. Opens(j, up)
    BY <1>4, <1>7, <1>10, OpensTrans
  <2>3. Opens(j, ua)
    BY <1>11, <2>2, OpensTrans
  <2>4. Opens(j, na)
    BY <1>4, <1>5, OpensTrans
  <2> QED  BY <2>1, <2>3, <2>4
<1>13. session_forward(s, c, f) \in {j, g, wa, ua, na}
  BY <1>9 DEF session_forward, j, g, o, oa, wa, ua, na
<1>14. Opens(j, session_forward(s, c, f))
  BY <1>1, <1>2, <1>12, <1>13, Zenon
<1> QED  BY <1>14 DEF j

\* What a PARSE task has when it starts to send.
LEMMA ParsedSound ==
  ASSUME NEW s, Sound(s), s.alive, NEW c \in Conn,
         NEW f \in {"noserver", "fail", "wait", "now"}
  PROVE  LET t == session_forward(session_fparse(s, c), Peer(c), f)
         IN  Sound(t) /\ t.alive /\ t.taskq = s.taskq
<1> DEFINE x == session_fparse(s, c)
           j == Joined(x, Peer(c))
           t == session_forward(x, Peer(c), f)
<1>1. Sound(j) /\ j.alive /\ j.taskq = s.taskq /\ j \in Memory
  BY ParseSound DEF Sound
<1> HIDE DEF x
<1>2. Opens(j, t)
  BY <1>1, PeerConn, ForwardOpens
<1> HIDE DEF j, t
<1>3. Sound(t) /\ t.alive /\ t.taskq = s.taskq
  BY <1>1, <1>2, OpensSound DEF Opens
<1> QED  BY <1>3 DEF t, x

-----------------------------------------------------------------------------
(* Tasks, and a new session.                                               *)

LEMMA ClosedCheckSound ==
  ASSUME NEW s, Sound(s), NEW c \in Conn, ~task_in_queue(s, c)
  PROVE  Sound(ClosedCheck(s, c)) /\ ClosedCheck(s, c).taskq = s.taskq
<1>1. Sound(session_free(s, c)) /\ session_free(s, c).taskq = s.taskq
  BY SessionFree
<1> QED  BY <1>1, Zenon DEF ClosedCheck

LEMMA SentForSound ==
  ASSUME NEW s, Sound(s), s.alive, NEW c \in Conn, ~task_in_queue(s, c),
         NEW o \in SendResult(s.out[Peer(c)])
  PROVE  Sound(SentFor(s, c, o)) /\ SentFor(s, c, o).taskq = s.taskq
<1> DEFINE a == conn_send_data(s, Peer(c), o)
           b == IF o.end = "err" THEN session_free(a, c) ELSE a
<1>1. Keeps(s, a)
  BY PeerConn, SendKeeps DEF Sound
<1> HIDE DEF a
<1>2. Sound(a) /\ a.taskq = s.taskq
  BY <1>1, KeepsSound DEF Keeps
<1>3. ~task_in_queue(a, c)
  BY <1>2 DEF task_in_queue
<1>4. Sound(session_free(a, c)) /\ session_free(a, c).taskq = s.taskq
  BY <1>2, <1>3, SessionFree
<1>5. Sound(b) /\ b.taskq = s.taskq
  BY <1>2, <1>4, Zenon
<1> HIDE DEF b
<1>6. ~task_in_queue(b, c)
  BY <1>5 DEF task_in_queue
<1>7. Sound(ClosedCheck(b, c)) /\ ClosedCheck(b, c).taskq = s.taskq
  BY <1>5, <1>6, ClosedCheckSound
<1> QED  BY <1>7, Zenon DEF SentFor, a, b

LEMMA RunSendSound ==
  ASSUME NEW s, Sound(s), s.alive, NEW c \in Conn, ~task_in_queue(s, c),
         NEW o \in SendResult(s.out[c])
  PROVE  Sound(RunSend(s, c, o)) /\ RunSend(s, c, o).taskq = s.taskq
<1> DEFINE a == conn_send_data(s, c, o)
<1>1. Keeps(s, a)
  BY SendKeeps DEF Sound
<1> HIDE DEF a
<1>2. Sound(a) /\ a.taskq = s.taskq
  BY <1>1, KeepsSound DEF Keeps
<1>3. ~task_in_queue(a, c)
  BY <1>2 DEF task_in_queue
<1>4. /\ Sound(session_free(a, c)) /\ session_free(a, c).taskq = s.taskq
      /\ Sound(ClosedCheck(a, c)) /\ ClosedCheck(a, c).taskq = s.taskq
  BY <1>2, <1>3, SessionFree, ClosedCheckSound
<1> QED  BY <1>4, Zenon DEF RunSend, a

LEMMA SlotSound ==
  ASSUME NEW i \in Int, NEW j \in Int, NEW n \in Int
  PROVE  Sound(Slot(0, <<>>, i, j, n))
<1> DEFINE s == Slot(0, <<>>, i, j, n)
<1>1. s \in Memory
  BY HandlerConstants DEF Slot, Memory, TaskType, Callback
<1>2. /\ s.inq = [c \in Conn |-> <<>>] /\ s.mid = [c \in Conn |-> <<>>]
      /\ s.out = [c \in Conn |-> <<>>] /\ s.fd = [c \in Conn |-> FALSE]
      /\ s.nalloced = 0 /\ s.taskq = <<>>
  BY DEF Slot
<1> HIDE DEF s
<1>3. Client \in Conn /\ Server \in Conn
  BY DEF Conn
<1>4. /\ Len(s.inq[Client]) = 0 /\ Len(s.inq[Server]) = 0
      /\ Len(s.mid[Client]) = 0 /\ Len(s.mid[Server]) = 0
      /\ Len(s.out[Client]) = 0 /\ Len(s.out[Server]) = 0
  BY <1>2, <1>3
<1>5. NPackets(s) = 0 + 0 + 0 + 0 + 0 + 0
  BY <1>4, Zenon DEF NPackets
<1>6. Sound(s)
  BY <1>1, <1>2, <1>5 DEF Sound
<1> QED  BY <1>6 DEF s

\* A new session starts with nothing: the last one left nalloced = 0.
LEMMA AcceptSound ==
  ASSUME NEW s, Sound(s), ~s.alive
  PROVE  LET t == _ltn_accept(s)
         IN  Sound(t) /\ t.alive /\ t.taskq = <<>>
<1> DEFINE cb == IF Client \in SSLConn THEN "handshake" ELSE "recv"
           i == session_init(s)
           n == AddEvent(i, Client, FD_IN, cb)
           l == [n EXCEPT !.alive = TRUE]
           d == [l EXCEPT !.fd[Client] = TRUE]
           a == [d EXCEPT !.plref = n.plref + 1]
           b == [a EXCEPT !.ssl[Client] = "fd"]
           e == [b EXCEPT !.nssl = a.nssl + 1]
           x == [e EXCEPT !.flags[Client] = {"SSLHSK"}]
<1>1. s.plref \in Int /\ s.svrref \in Int /\ s.nssl \in Int /\ Client \in Conn
  BY DEF Sound, Memory, Conn
<1>2. i = Slot(0, <<>>, s.plref, s.svrref, s.nssl)
  BY DEF session_init, Sound
<1>3. Sound(i) /\ i \in Memory
  <2>1. Sound(Slot(0, <<>>, s.plref, s.svrref, s.nssl))
    BY <1>1, SlotSound
  <2>2. Sound(i)
    BY <1>2, <2>1, Zenon
  <2> HIDE DEF i
  <2> QED  BY <2>2 DEF Sound
<1> HIDE DEF i
<1>4. cb \in Callback
  BY DEF Callback
<1> HIDE DEF cb
<1>5. Keeps(i, n) /\ n \in Memory
  BY <1>1, <1>3, <1>4, AddEventKeeps, HandlerConstants DEF Keeps
<1>6. n.taskq = <<>> /\ n.nalloced = NPackets(n) /\ \A c \in Conn : n.mid[c] = <<>>
  <2>1. i.taskq = <<>>
    BY <1>2 DEF Slot
  <2> QED  BY <1>3, <1>5, <2>1 DEF Keeps, Sound
<1> HIDE DEF n
<1>7. l \in Memory
  BY <1>1, <1>5, SetBool, Zenon
<1>8. /\ l.alive = TRUE /\ l.taskq = n.taskq /\ l.nalloced = n.nalloced /\ l.inq = n.inq
      /\ l.mid = n.mid /\ l.out = n.out /\ l.plref = n.plref
  BY <1>5 DEF Memory
<1>9. a = [n EXCEPT !.alive = TRUE, !.fd[Client] = TRUE, !.plref = @ + 1]
  BY <1>5 DEF Memory
<1> HIDE DEF l
<1>10. Opens(l, d) /\ d \in Memory
  BY <1>1, <1>7, OpensFd DEF Opens
<1> HIDE DEF d
<1>11. n.plref + 1 \in Int
  BY <1>5 DEF Memory
<1>12. a \in Memory
  BY <1>10, <1>11, SetCount
<1>13. /\ a.alive = d.alive /\ a.taskq = d.taskq /\ a.nalloced = d.nalloced
       /\ a.inq = d.inq /\ a.mid = d.mid /\ a.out = d.out
  BY <1>10 DEF Memory
<1> HIDE DEF a
<1>14. l.nalloced = NPackets(l)
  BY <1>6, <1>8 DEF NPackets
<1>15. a.nalloced = NPackets(a) /\ a.alive /\ a.taskq = <<>>
       /\ \A c \in Conn : a.mid[c] = <<>>
  BY <1>6, <1>8, <1>10, <1>13, <1>14 DEF Opens, NPackets
<1>16. Sound(a)
  BY <1>12, <1>15 DEF Sound
<1>17. Opens(a, b) /\ b \in Memory
  BY <1>1, <1>12, OpensSSL DEF Opens
<1>18. a.nssl + 1 \in Int
  BY <1>12 DEF Memory
<1>19. x = [a EXCEPT !.ssl[Client] = "fd", !.nssl = @ + 1, !.flags[Client] = {"SSLHSK"}]
  BY <1>12 DEF Memory
<1> HIDE DEF b
<1>20. Opens(b, e) /\ e \in Memory
  BY <1>17, <1>18, OpensSSLCount DEF Opens
<1> HIDE DEF e
<1>21. Opens(e, x)
  BY <1>1, <1>20, FlagKeeps, KeepsOpens DEF Flag
<1> HIDE DEF x
<1>22. Opens(a, x)
  BY <1>17, <1>20, <1>21, OpensTrans
<1>23. Sound(x) /\ x.alive /\ x.taskq = <<>>
  BY <1>15, <1>16, <1>22, OpensSound DEF Opens
<1>24. _ltn_accept(s) \in {a, x}
  BY <1>9, <1>19, Zenon DEF _ltn_accept, n, i, cb
<1> QED  BY <1>15, <1>16, <1>23, <1>24, Zenon

-----------------------------------------------------------------------------
(* The inductive invariant.                                                *)

\* Events that wait to be dispatched are of different sockets; those of the
\* session find it alive, the socket open and the task not linked; the event
\* of the listening socket comes alone, when there is no session.
BatchOK ==
  \A i \in 1..Len(batch) :
    LET c == batch[i].fd
    IN  /\ c \in Conn => w.alive /\ w.fd[c] /\ ~task_in_queue(w, c)
        /\ c = LFD => ~w.alive /\ Len(batch) = 1
        /\ \A j \in 1..Len(batch) : batch[j].fd = c => j = i

\* Where the loop is: callbacks are over before tasks run, tasks are over
\* before events are registered, and what is registered is open.
PhaseOK ==
  /\ phase # "poll" => batch = <<>>
  /\ phase = "poll" => batch # <<>>
  /\ phase \in {"flush", "wait"} => w.taskq = <<>>
  /\ phase = "wait" => \A c \in Conn : pev[c] # {} => w.fd[c]

IInv == TypeOK /\ Sound(w) /\ BatchOK /\ PhaseOK

LEMMA SocketFields ==
  ASSUME NEW x \in Socket, NEW q \in Seq(Nat), NEW st \in {"connecting", "up"}
  PROVE  /\ [x EXCEPT !.rcv = q] \in Socket
         /\ [x EXCEPT !.st = st] \in Socket
         /\ [x EXCEPT !.fin = TRUE] \in Socket
         /\ [x EXCEPT !.rst = TRUE] \in Socket
  BY DEF Socket

LEMMA SocketsType ==
  ASSUME NEW s \in Memory, NEW kk \in [Conn -> Socket]
  PROVE  Sockets(s, kk) \in [Conn -> Socket]
<1>1. NoSock \in Socket
  BY DEF NoSock, Socket
<1>2. \A v \in {"connecting", "up"} : [NoSock EXCEPT !.st = v] \in Socket
  <2>1. <<>> \in Seq(Nat)
    OBVIOUS
  <2> QED  BY <1>1, <2>1, SocketFields, Zenon
<1> QED  BY <1>1, <1>2 DEF Sockets

LEMMA InitInv ==
  Init => IInv
<1> SUFFICES ASSUME Init PROVE IInv
  OBVIOUS
<1>1. Sound(w)
  BY SlotSound DEF Init, NoSession
<1>2. w.nalloced = 0 /\ w.taskq = <<>>
  BY DEF Init, NoSession, Slot
<1>3. TypeOK
  BY <1>1, <1>2, SessionAssumption DEF Init, TypeOK, Sound, NoSock, Socket, Event
<1>4. BatchOK /\ PhaseOK
  BY <1>2 DEF Init, BatchOK, PhaseOK
<1> QED  BY <1>1, <1>3, <1>4 DEF IInv

\* The remote programs and the kernel change nothing the worker holds.
LEMMA EnvironmentInv ==
  IInv /\ Environment => IInv'
<1> SUFFICES ASSUME IInv, NEW c \in Conn,
                    \/ RemoteSend(c) \/ RemoteFin(c) \/ RemoteRead(c)
                    \/ RemoteReset(c) \/ RemoteConnect(c)
             PROVE  IInv'
  BY DEF Environment
<1> USE DEF IInv
<1>1. UNCHANGED <<w, pev, phase, batch, nsess>>
  BY DEF RemoteSend, RemoteFin, RemoteRead, RemoteReset, RemoteConnect
<1>2. Sound(w)' /\ BatchOK' /\ PhaseOK'
  BY <1>1 DEF BatchOK, PhaseOK
<1>3. k[c] \in Socket /\ c \in Conn
  BY DEF TypeOK
<1>4. k' \in [Conn -> Socket]
  <2>1. CASE RemoteSend(c)
    <3>1. sent[c] + 1 \in Nat /\ k[c].rcv \in Seq(Nat)
      BY <1>3 DEF TypeOK, Socket
    <3>2. [k[c] EXCEPT !.rcv = Append(k[c].rcv, sent[c] + 1)] \in Socket
      <4>1. Append(k[c].rcv, sent[c] + 1) \in Seq(Nat) /\ "up" \in {"connecting", "up"}
        BY <3>1
      <4> QED  BY <1>3, <4>1, SocketFields
    <3> QED  BY <2>1, <3>2 DEF RemoteSend, TypeOK
  <2>2. CASE RemoteFin(c)
    <3>1. [k[c] EXCEPT !.fin = TRUE] \in Socket
      BY <1>3 DEF Socket
    <3> QED  BY <2>2, <3>1 DEF RemoteFin, TypeOK
  <2>3. CASE RemoteRead(c)
    BY <2>3 DEF RemoteRead, TypeOK
  <2>4. CASE RemoteReset(c)
    <3>1. [[k[c] EXCEPT !.rst = TRUE] EXCEPT !.rcv = <<>>] \in Socket
      <4>1. <<>> \in Seq(Nat) /\ "up" \in {"connecting", "up"}
        OBVIOUS
      <4>2. [k[c] EXCEPT !.rst = TRUE] \in Socket
        BY <1>3, <4>1, SocketFields
      <4> QED  BY <4>1, <4>2, SocketFields, Zenon
    <3>2. k' = [k EXCEPT ![c] = [[k[c] EXCEPT !.rst = TRUE] EXCEPT !.rcv = <<>>]]
      BY <2>4 DEF RemoteReset, TypeOK
    <3> QED  BY <3>1, <3>2 DEF TypeOK
  <2>5. CASE RemoteConnect(c)
    <3>1. [k[c] EXCEPT !.st = "up"] \in Socket
      BY <1>3 DEF Socket
    <3> QED  BY <2>5, <3>1 DEF RemoteConnect, TypeOK
  <2> QED  BY <2>1, <2>2, <2>3, <2>4, <2>5
<1>5. sndq' \in [Conn -> 0..SndBuf] /\ sent' \in [Conn -> Nat] /\ hung' \in SUBSET Conn
  <2>1. /\ sndq \in [Conn -> 0..SndBuf] /\ sent \in [Conn -> Nat]
        /\ hung \in SUBSET Conn /\ SndBuf \in Nat
    BY SessionAssumption DEF TypeOK
  <2>2. CASE RemoteSend(c)
    BY <2>1, <2>2 DEF RemoteSend
  <2>3. CASE RemoteRead(c)
    BY <2>1, <2>3 DEF RemoteRead
  <2>4. CASE RemoteFin(c) \/ RemoteReset(c) \/ RemoteConnect(c)
    BY <2>1, <2>4 DEF RemoteFin, RemoteReset, RemoteConnect
  <2> QED  BY <2>2, <2>3, <2>4
<1>6. TypeOK'
  BY <1>1, <1>4, <1>5 DEF TypeOK
<1> QED  BY <1>2, <1>6

LEMMA SoundCount ==
  ASSUME NEW s, Sound(s)
  PROVE  s \in Memory /\ s.nalloced >= 0
<1> DEFINE i0 == Len(s.inq[Client])
           i1 == Len(s.inq[Peer(Client)])
           m0 == Len(s.mid[Client])
           m1 == Len(s.mid[Peer(Client)])
           o0 == Len(s.out[Client])
           o1 == Len(s.out[Peer(Client)])
<1>1. s \in Memory /\ s.nalloced = NPackets(s) /\ Client \in Conn
  BY DEF Sound, Conn
<1>2. /\ i0 \in Nat /\ i1 \in Nat /\ m0 \in Nat /\ m1 \in Nat /\ o0 \in Nat /\ o1 \in Nat
      /\ NPackets(s) = i0 + i1 + m0 + m1 + o0 + o1
  BY <1>1, CountByPeer, Zenon
<1> HIDE DEF i0, i1, m0, m1, o0, o1
<1>3. i0 + i1 + m0 + m1 + o0 + o1 >= 0
  BY <1>2
<1> QED  BY <1>1, <1>2, <1>3, Zenon

\* A callback of c that at most links the task of c keeps the invariant.
LEMMA CallbackInv ==
  ASSUME IInv, NEW c \in Conn, NEW s, Dispatch(c), Links(w, c, s), Called(s),
         k' \in [Conn -> Socket], sndq' \in [Conn -> 0..SndBuf],
         UNCHANGED <<sent, hung, nsess>>
  PROVE  IInv'
<1> USE DEF IInv
<1>1. /\ w' = s /\ batch' = Tail(batch) /\ pev' = pev
      /\ phase' = IF Tail(batch) # <<>> THEN "poll"
                  ELSE IF s.taskq # <<>> THEN "task" ELSE "flush"
  BY DEF Called
<1>2. batch \in Seq(Event) /\ batch # <<>> /\ batch[1].fd = c /\ phase = "poll"
  BY DEF Dispatch, TypeOK
<1>3. /\ Tail(batch) \in Seq(Event) /\ Len(Tail(batch)) = Len(batch) - 1
      /\ Len(batch) \in Nat /\ 1 \in 1..Len(batch)
      /\ \A i \in 1..Len(Tail(batch)) :
           i + 1 \in 1..Len(batch) /\ Tail(batch)[i] = batch[i + 1]
  BY <1>2
<1>4. w.alive /\ ~task_in_queue(w, c)
  BY <1>2, <1>3 DEF BatchOK
<1>5. Sound(s) /\ s.alive /\ s.fd = w.fd
      /\ (s.taskq = w.taskq \/ s.taskq = Append(w.taskq, c))
  BY <1>4, LinksSound DEF Links
<1>6. w.taskq \in Seq(Conn)
  BY DEF Sound, Memory
<1>7. BatchOK'
  <2> SUFFICES ASSUME NEW i \in 1..Len(Tail(batch))
               PROVE  LET d == Tail(batch)[i].fd
                      IN  /\ d \in Conn => s.alive /\ s.fd[d] /\ ~task_in_queue(s, d)
                          /\ d = LFD => ~s.alive /\ Len(Tail(batch)) = 1
                          /\ \A j \in 1..Len(Tail(batch)) : Tail(batch)[j].fd = d => j = i
    BY <1>1 DEF BatchOK
  <2> DEFINE d == Tail(batch)[i].fd
  <2>1. d = batch[i + 1].fd /\ i + 1 \in 1..Len(batch) /\ i + 1 # 1
    BY <1>3
  <2>2. d # c
    BY <1>2, <1>3, <2>1 DEF BatchOK
  <2>3. d \in Conn => w.fd[d] /\ ~task_in_queue(w, d)
    BY <2>1 DEF BatchOK
  <2>4. ~task_in_queue(w, d) => ~task_in_queue(s, d)
    <3> HIDE DEF d
    <3> DEFINE q == w.taskq
    <3>1. q \in Seq(Conn) /\ (s.taskq = q \/ s.taskq = Append(q, c))
      BY <1>5, <1>6
    <3> HIDE DEF q
    <3>2. (\A x \in 1..Len(q) : q[x] # d) =>
             \A x \in 1..Len(Append(q, c)) : Append(q, c)[x] # d
      BY <2>2, <3>1
    <3> QED  BY <3>1, <3>2 DEF task_in_queue, q
  <2>5. d # LFD
    BY <1>3, <2>1 DEF BatchOK
  <2>6. \A j \in 1..Len(Tail(batch)) : Tail(batch)[j].fd = d => j = i
    <3> SUFFICES ASSUME NEW j \in 1..Len(Tail(batch)), Tail(batch)[j].fd = d
                 PROVE  j = i
      OBVIOUS
    <3>1. batch[j + 1].fd = batch[i + 1].fd /\ j + 1 \in 1..Len(batch)
      BY <1>3, <2>1
    <3>2. j + 1 = i + 1
      BY <2>1, <3>1 DEF BatchOK
    <3> QED  BY <3>2
  <2> HIDE DEF d
  <2>7. /\ d \in Conn => s.alive /\ s.fd[d] /\ ~task_in_queue(s, d)
        /\ d = LFD => ~s.alive /\ Len(Tail(batch)) = 1
    BY <1>5, <2>3, <2>4, <2>5
  <2> QED  BY <2>6, <2>7 DEF d
<1>8. PhaseOK'
  BY <1>1 DEF PhaseOK
<1>9. TypeOK'
  BY <1>1, <1>3, <1>5, SoundCount DEF TypeOK
<1> QED  BY <1>1, <1>5, <1>7, <1>8, <1>9

\* What session_run_task starts from.
LEMMA UnlinkedSound ==
  ASSUME IInv, NEW c \in Conn, NEW type, Running(c, type)
  PROVE  /\ Sound(Unlinked) /\ Unlinked.alive /\ ~task_in_queue(Unlinked, c)
         /\ Unlinked.taskq = Tail(w.taskq) /\ Unlinked.out = w.out
         /\ Unlinked.fd = w.fd
<1> DEFINE q == w.taskq
           u == [w EXCEPT !.taskq = Tail(q)]
<1>1. w \in Memory /\ q \in Seq(Conn) /\ q # <<>> /\ q[1] = c /\ w.alive
  BY DEF IInv, Sound, Memory, Running
<1>2. /\ Tail(q) \in Seq(Conn) /\ Len(Tail(q)) = Len(q) - 1 /\ Len(q) \in Nat
      /\ \A i \in 1..Len(Tail(q)) : i + 1 \in 1..Len(q) /\ Tail(q)[i] = q[i + 1]
      /\ 1 \in 1..Len(q)
  BY <1>1
<1>3. \A i, j \in 1..Len(q) : q[i] = q[j] => i = j
  BY DEF IInv, Sound
<1>4. u \in Memory
  BY <1>1, <1>2, SetTaskq
<1>5. /\ u.alive = w.alive /\ u.mid = w.mid /\ u.inq = w.inq /\ u.out = w.out
      /\ u.nalloced = w.nalloced /\ u.taskq = Tail(q) /\ u.fd = w.fd
  BY <1>1 DEF Memory
<1> HIDE DEF q, u
<1>6. \A i, j \in 1..Len(Tail(q)) : Tail(q)[i] = Tail(q)[j] => i = j
  <2> SUFFICES ASSUME NEW i \in 1..Len(Tail(q)), NEW j \in 1..Len(Tail(q)),
                      Tail(q)[i] = Tail(q)[j]
               PROVE  i = j
    OBVIOUS
  <2>1. i + 1 = j + 1
    BY <1>2, <1>3
  <2> QED  BY <2>1
<1>7. \A i \in 1..Len(Tail(q)) : Tail(q)[i] # c
  BY <1>1, <1>2, <1>3
<1>8. u.nalloced = NPackets(u)
  BY <1>5 DEF NPackets, IInv, Sound
<1>9. Sound(u)
  BY <1>1, <1>4, <1>5, <1>6, <1>8 DEF IInv, Sound
<1>10. ~task_in_queue(u, c)
  BY <1>5, <1>7 DEF task_in_queue
<1>11. Unlinked = u
  BY DEF Unlinked, u, q
<1> QED  BY <1>1, <1>5, <1>9, <1>10, <1>11 DEF q

\* A task that ends in a sound memory keeps the invariant.
LEMMA TaskInv ==
  ASSUME IInv, NEW c \in Conn, NEW type, Running(c, type),
         NEW s, Sound(s), Ran(s),
         k' \in [Conn -> Socket], sndq' \in [Conn -> 0..SndBuf]
  PROVE  IInv'
<1> USE DEF IInv
<1>1. /\ w' = s /\ batch' = batch /\ phase' = IF s.taskq # <<>> THEN "task" ELSE "flush"
      /\ UNCHANGED <<pev, sent, hung, nsess>>
  BY DEF Ran
<1>2. batch = <<>>
  BY DEF Running, PhaseOK
<1>3. BatchOK' /\ PhaseOK'
  BY <1>1, <1>2 DEF BatchOK, PhaseOK
<1>4. TypeOK'
  BY <1>1, SoundCount DEF TypeOK
<1> QED  BY <1>1, <1>3, <1>4

\* The bytes handed to a send buffer fit into it.
LEMMA SentType ==
  ASSUME TypeOK, NEW c \in Conn, NEW s \in Memory, NEW t, NEW kc,
         NEW o \in SendOutcome(t, c, kc, SndBuf - sndq[c]), Sent(t, c, o, s)
  PROVE  k' \in [Conn -> Socket] /\ sndq' \in [Conn -> 0..SndBuf]
<1>1. k' \in [Conn -> Socket]
  BY SocketsType DEF Sent, TypeOK
<1>2. o.bytes \in 0..SndBuf /\ o.bytes <= SndBuf - sndq[c]
  BY DEF SendOutcome, SendResult
<1>3. SndBuf \in Nat /\ \A x \in Conn : sndq[x] \in 0..SndBuf
  BY SessionAssumption DEF TypeOK
<1>4. sndq[c] + o.bytes \in 0..SndBuf
  BY <1>2, <1>3
<1>5. sndq' = [x \in Conn |-> IF ~s.fd[x] THEN 0
                              ELSE IF x = c THEN sndq[c] + o.bytes ELSE sndq[x]]
  BY DEF Sent
<1> QED  BY <1>1, <1>3, <1>4, <1>5

LEMMA FreedType ==
  ASSUME TypeOK, NEW s \in Memory, Freed(s)
  PROVE  Ran(s) /\ k' \in [Conn -> Socket] /\ sndq' \in [Conn -> 0..SndBuf]
<1>1. k' \in [Conn -> Socket]
  BY SocketsType DEF Freed, TypeOK
<1>2. SndBuf \in Nat /\ \A x \in Conn : sndq[x] \in 0..SndBuf
  BY SessionAssumption DEF TypeOK
<1> QED  BY <1>1, <1>2 DEF Freed

LEMMA SendOutcomeType ==
  ASSUME NEW t, NEW c, NEW kc, NEW free, NEW o \in SendOutcome(t, c, kc, free)
  PROVE  o \in SendResult(t.out[c])
  BY DEF SendOutcome

LEMMA FlushInv ==
  IInv /\ fd_epoll_flush_events => IInv'
<1> SUFFICES ASSUME IInv, fd_epoll_flush_events PROVE IInv'
  OBVIOUS
<1> USE DEF IInv, fd_epoll_flush_events
<1>1. w' = w /\ batch' = batch /\ batch = <<>> /\ w.taskq = <<>>
  BY DEF PhaseOK
<1>2. w.ev \in [Conn -> SUBSET Mask] /\ w.fd \in [Conn -> BOOLEAN]
  BY DEF Sound, Memory
<1>3. pev' \in [Conn -> SUBSET Mask]
  BY <1>2
<1>4. TypeOK'
  BY <1>1, <1>3 DEF TypeOK
<1>5. BatchOK' /\ PhaseOK'
  BY <1>1 DEF BatchOK, PhaseOK
<1> QED  BY <1>1, <1>4, <1>5

LEMMA WaitInv ==
  IInv /\ epoll_wait => IInv'
<1> SUFFICES ASSUME IInv, epoll_wait PROVE IInv'
  OBVIOUS
<1> USE DEF IInv
<1>1. /\ phase = "wait" /\ UNCHANGED <<w, k, sndq, pev, sent, hung, nsess>>
      /\ w.taskq = <<>>
  BY DEF epoll_wait, PhaseOK
<1>2. \A c \in Conn : ~task_in_queue(w, c)
  BY <1>1 DEF task_in_queue
<1>3. LFD \notin Conn
  BY DEF LFD, Conn, Client, Server
<1>4. CASE /\ ~w.alive /\ nsess < MaxSess
           /\ batch' = <<[fd |-> LFD, mask |-> {"IN"}]>>
           /\ phase' = "poll"
  <2> DEFINE e == [fd |-> LFD, mask |-> {"IN"}]
  <2>1. e \in Event /\ e.fd = LFD
    BY DEF Event, Mask
  <2>2. batch' = <<e>>
    BY <1>4
  <2> HIDE DEF e
  <2>3. batch' \in Seq(Event) /\ Len(batch') = 1 /\ batch'[1] = e /\ batch' # <<>>
    BY <2>1, <2>2
  <2>4. BatchOK'
    BY <1>1, <1>3, <1>4, <2>1, <2>3 DEF BatchOK
  <2>5. PhaseOK'
    BY <1>4, <2>3 DEF PhaseOK
  <2>6. TypeOK'
    BY <1>1, <1>4, <2>3 DEF TypeOK
  <2> QED  BY <1>1, <2>4, <2>5, <2>6
<1>5. CASE ~(/\ ~w.alive /\ nsess < MaxSess
             /\ batch' = <<[fd |-> LFD, mask |-> {"IN"}]>>
             /\ phase' = "poll")
  <2> DEFINE ready == {c \in Conn : Events(c, pev[c]) # {}}
             size  == IF Cardinality(ready) < MaxWait THEN Cardinality(ready)
                      ELSE MaxWait
  <2>1. PICK b \in Injection(1..size, ready) :
          /\ batch' = [i \in 1..size |->
                         [fd |-> b[i], mask |-> Events(b[i], pev[b[i]])]]
          /\ phase' = IF ready = {} THEN "flush" ELSE "poll"
    BY <1>5 DEF epoll_wait
  <2>2. IsFiniteSet(Conn) /\ ready \subseteq Conn
    <3>1. Conn = {Client} \union {Server}
      BY DEF Conn
    <3> QED  BY <3>1, FS_Singleton, FS_Union
  <2>3. IsFiniteSet(ready) /\ Cardinality(ready) \in Nat
    BY <2>2, FS_Subset, FS_CardinalityType
  <2>4. (Cardinality(ready) = 0) <=> (ready = {})
    BY <2>3, FS_EmptySet
  <2>5. size \in Nat /\ (size = 0 <=> ready = {})
    <3> DEFINE n == Cardinality(ready)
    <3>1. n \in Nat /\ MaxWait \in Nat /\ MaxWait # 0
      BY <2>3, SessionAssumption
    <3>2. size = IF n < MaxWait THEN n ELSE MaxWait
      OBVIOUS
    <3>3. n = 0 <=> ready = {}
      BY <2>4
    <3> HIDE DEF n, size, ready
    <3>4. size \in Nat /\ (size = 0 <=> n = 0)
      BY <3>1, <3>2
    <3> QED  BY <3>3, <3>4
  <2>6. \A c \in Conn : Events(c, pev[c]) \in SUBSET Mask
                        /\ (Events(c, pev[c]) # {} => pev[c] # {})
    BY DEF Events, Mask, TypeOK
  <2> HIDE DEF size
  <2>7. b \in [1..size -> ready] /\ \A i, j \in 1..size : b[i] = b[j] => i = j
    BY DEF Injection, IsInjective
  <2>8. \A i \in 1..size : b[i] \in Conn /\ w.fd[b[i]]
    BY <1>1, <2>6, <2>7 DEF PhaseOK
  <2>9. /\ batch' \in Seq(Event) /\ Len(batch') = size
        /\ \A i \in 1..size : batch'[i].fd = b[i]
    BY <2>1, <2>5, <2>6, <2>8 DEF Event
  <2>10. \A i \in 1..size : w.alive
    BY <2>8 DEF Sound
  <2>11. BatchOK'
    BY <1>1, <1>2, <1>3, <2>7, <2>8, <2>9, <2>10 DEF BatchOK
  <2>12. batch' # <<>> <=> ready # {}
    <3> HIDE DEF ready
    <3>1. Len(batch') = 0 <=> batch' = <<>>
      BY <2>9, LenZero
    <3> QED  BY <2>5, <2>9, <3>1
  <2>13. PhaseOK'
    BY <1>1, <2>1, <2>12 DEF PhaseOK
  <2>14. TypeOK'
    BY <1>1, <2>1, <2>9 DEF TypeOK
  <2> QED  BY <1>1, <2>11, <2>13, <2>14
<1> QED  BY <1>4, <1>5

LEMMA AcceptInv ==
  IInv /\ listener_accept => IInv'
<1> SUFFICES ASSUME IInv, listener_accept PROVE IInv'
  OBVIOUS
<1> USE DEF IInv
<1> DEFINE s == _ltn_accept(w)
<1>1. batch # <<>> /\ batch[1].fd = LFD /\ batch \in Seq(Event)
  BY DEF listener_accept, Dispatch, TypeOK
<1>2. ~w.alive /\ Len(batch) = 1
  BY <1>1 DEF BatchOK
<1>3. Tail(batch) = <<>>
  <2>1. Tail(batch) \in Seq(Event) /\ Len(Tail(batch)) = 0
    BY <1>1, <1>2
  <2> QED  BY <2>1, LenZero
<1>4. Sound(s) /\ s.alive /\ s.taskq = <<>>
  BY <1>2, AcceptSound
<1> HIDE DEF s
<1>5. w' = s /\ batch' = <<>> /\ phase' = "flush" /\ pev' = pev
  BY <1>3, <1>4 DEF listener_accept, Called, s
<1>6. k' \in [Conn -> Socket]
  BY <1>4, SocketsType DEF listener_accept, TypeOK, Sound, s
<1>7. /\ sndq' \in [Conn -> 0..SndBuf] /\ sent' \in [Conn -> Nat]
      /\ hung' \in SUBSET Conn /\ nsess' \in Nat
  BY DEF listener_accept, TypeOK
<1>8. BatchOK' /\ PhaseOK'
  BY <1>4, <1>5 DEF BatchOK, PhaseOK
<1>9. TypeOK'
  BY <1>4, <1>5, <1>6, <1>7, SoundCount DEF TypeOK
<1> QED  BY <1>4, <1>5, <1>8, <1>9

LEMMA RecvInv ==
  ASSUME IInv, NEW c \in Conn, RecvCallback(c)
  PROVE  IInv'
<1>1. w \in Memory /\ k[c] \in Socket /\ k \in [Conn -> Socket]
  BY DEF IInv, TypeOK
<1>2. PICK r \in RecvOutcome(w, k[c], c) :
        /\ Called(conn_recv_data(w, c, batch[1].mask, r))
        /\ k' = [k EXCEPT ![c].rcv = IF "ERR" \in batch[1].mask THEN @
                                     ELSE SubSeq(@, Len(r.data) + 1, Len(@))]
  BY DEF RecvCallback
<1>3. Links(w, c, conn_recv_data(w, c, batch[1].mask, r))
  BY <1>1, RecvLinks
<1>4. k' \in [Conn -> Socket]
  <2> DEFINE q == IF "ERR" \in batch[1].mask THEN k[c].rcv
                  ELSE SubSeq(k[c].rcv, Len(r.data) + 1, Len(k[c].rcv))
  <2>1. r.data \in Seq(Nat) /\ k[c].rcv \in Seq(Nat)
    BY <1>1, RecvOutcomeType DEF RecvResult, Socket
  <2>2. q \in Seq(Nat)
    <3>1. \A d, z \in Seq(Nat) : SubSeq(z, Len(d) + 1, Len(z)) \in Seq(Nat)
      OBVIOUS
    <3> QED  BY <2>1, <3>1, Zenon
  <2>3. k' = [k EXCEPT ![c] = [k[c] EXCEPT !.rcv = q]]
    BY <1>2
  <2> HIDE DEF q
  <2>4. [k[c] EXCEPT !.rcv = q] \in Socket
    BY <1>1, <2>2, SocketFields
  <2> QED  BY <1>1, <2>3, <2>4
<1>5. Dispatch(c) /\ UNCHANGED <<sndq, sent, hung, nsess>>
  BY DEF RecvCallback
<1>6. sndq' \in [Conn -> 0..SndBuf]
  BY <1>5 DEF IInv, TypeOK
<1> QED  BY <1>2, <1>3, <1>4, <1>5, <1>6, CallbackInv

LEMMA SendInv ==
  ASSUME IInv, NEW c \in Conn, SendCallback(c)
  PROVE  IInv'
<1>1. w \in Memory /\ TypeOK
  BY DEF IInv, TypeOK
<1>2. PICK o \in SendOutcome(w, c, k[c], SndBuf - sndq[c]) :
        Called(SendEvent(w, c, o)) /\ Sent(w, c, o, SendEvent(w, c, o))
  BY DEF SendCallback
<1>3. Links(w, c, SendEvent(w, c, o))
  BY <1>1, SendOutcomeType, SendEventLinks
<1>4. SendEvent(w, c, o) \in Memory
  BY <1>3 DEF Links
<1>5. k' \in [Conn -> Socket] /\ sndq' \in [Conn -> 0..SndBuf]
  BY <1>1, <1>2, <1>4, SentType
<1>6. Dispatch(c) /\ UNCHANGED <<sent, hung, nsess>>
  BY DEF SendCallback
<1> QED  BY <1>2, <1>3, <1>5, <1>6, CallbackInv

LEMMA HandshakeInv ==
  ASSUME IInv, NEW c \in Conn, HandshakeCallback(c)
  PROVE  IInv'
<1>1. w \in Memory
  BY DEF IInv, TypeOK
<1>2. PICK h \in HandshakeResult(w, k[c], c) :
        Called(conn_handshake(w, c, batch[1].mask, k[c], h))
  BY DEF HandshakeCallback
<1>3. Links(w, c, conn_handshake(w, c, batch[1].mask, k[c], h))
  BY <1>1, HandshakeLinks
<1>4. Dispatch(c) /\ UNCHANGED <<k, sndq, sent, hung, nsess>>
  BY DEF HandshakeCallback
<1>5. k' \in [Conn -> Socket] /\ sndq' \in [Conn -> 0..SndBuf]
  BY <1>4 DEF IInv, TypeOK
<1> QED  BY <1>2, <1>3, <1>4, <1>5, CallbackInv

LEMMA ShutdownInv ==
  ASSUME IInv, NEW c \in Conn, ShutdownCallback(c)
  PROVE  IInv'
<1>1. w \in Memory
  BY DEF IInv, TypeOK
<1>2. PICK z \in ShutdownResult(w, k[c], c) :
        Called(conn_shutdown(w, c, batch[1].mask, z))
  BY DEF ShutdownCallback
<1>3. Links(w, c, conn_shutdown(w, c, batch[1].mask, z))
  BY <1>1, ShutdownLinks
<1>4. Dispatch(c) /\ UNCHANGED <<k, sndq, sent, hung, nsess>>
  BY DEF ShutdownCallback
<1>5. k' \in [Conn -> Socket] /\ sndq' \in [Conn -> 0..SndBuf]
  BY <1>4 DEF IInv, TypeOK
<1> QED  BY <1>2, <1>3, <1>4, <1>5, CallbackInv

LEMMA DeleteInv ==
  ASSUME IInv, NEW c \in Conn, TaskDelete(c)
  PROVE  IInv'
<1> DEFINE s == session_free(Unlinked, c)
<1>1. Running(c, "DELETE") /\ Freed(s)
  BY DEF TaskDelete
<1>2. Sound(Unlinked) /\ ~task_in_queue(Unlinked, c)
  BY <1>1, UnlinkedSound
<1>3. Sound(s)
  BY <1>2, SessionFree
<1> HIDE DEF s
<1>4. Ran(s) /\ k' \in [Conn -> Socket] /\ sndq' \in [Conn -> 0..SndBuf]
  BY <1>1, <1>3, FreedType DEF IInv, Sound
<1> QED  BY <1>1, <1>3, <1>4, TaskInv

LEMMA SendTaskInv ==
  ASSUME IInv, NEW c \in Conn, TaskSend(c)
  PROVE  IInv'
<1>1. Running(c, "SEND")
  BY DEF TaskSend
<1>2. PICK o \in SendOutcome(Unlinked, c, k[c], SndBuf - sndq[c]) :
        /\ Ran(RunSend(Unlinked, c, o))
        /\ Sent(Unlinked, c, o, RunSend(Unlinked, c, o))
  BY DEF TaskSend
<1>3. Sound(Unlinked) /\ Unlinked.alive /\ ~task_in_queue(Unlinked, c)
  BY <1>1, UnlinkedSound
<1>4. Sound(RunSend(Unlinked, c, o))
  BY <1>3, SendOutcomeType, RunSendSound
<1>5. k' \in [Conn -> Socket] /\ sndq' \in [Conn -> 0..SndBuf]
  BY <1>2, <1>4, SentType DEF IInv, Sound
<1> QED  BY <1>1, <1>2, <1>4, <1>5, TaskInv

LEMMA ParseInv ==
  ASSUME IInv, NEW c \in Conn, TaskParse(c)
  PROVE  IInv'
<1>1. Running(c, "PARSE")
  BY DEF TaskParse
<1> DEFINE p == Peer(c)
<1>2. PICK f \in ForwardOutcome(w, p) :
        LET t == session_forward(session_fparse(Unlinked, c), p, f)
        IN  IF f \in {"noserver", "fail"} THEN Freed(session_free(t, c))
            ELSE \E o \in SendOutcome(t, p, Sockets(t, k)[p], SndBuf - sndq[p]) :
                   Ran(SentFor(t, c, o)) /\ Sent(t, p, o, SentFor(t, c, o))
  BY DEF TaskParse
<1> DEFINE t == session_forward(session_fparse(Unlinked, c), p, f)
<1>3. /\ Sound(Unlinked) /\ Unlinked.alive /\ ~task_in_queue(Unlinked, c)
  BY <1>1, UnlinkedSound
<1>4. f \in {"noserver", "fail", "wait", "now"}
  BY DEF ForwardOutcome
<1>5. Sound(t) /\ t.alive /\ t.taskq = Unlinked.taskq
  BY <1>3, <1>4, ParsedSound
<1>6. ~task_in_queue(t, c)
  BY <1>3, <1>5 DEF task_in_queue
<1>7. p \in Conn /\ TypeOK
  BY PeerConn DEF IInv
<1> HIDE DEF t
<1>8. CASE f \in {"noserver", "fail"}
  <2> DEFINE s == session_free(t, c)
  <2>1. Freed(s) /\ Sound(s)
    BY <1>2, <1>5, <1>6, <1>8, SessionFree DEF t
  <2> HIDE DEF s
  <2>2. Ran(s) /\ k' \in [Conn -> Socket] /\ sndq' \in [Conn -> 0..SndBuf]
    BY <1>7, <2>1, FreedType DEF Sound
  <2> QED  BY <1>1, <2>1, <2>2, TaskInv
<1>9. CASE f \notin {"noserver", "fail"}
  <2>1. PICK o \in SendOutcome(t, p, Sockets(t, k)[p], SndBuf - sndq[p]) :
               Ran(SentFor(t, c, o)) /\ Sent(t, p, o, SentFor(t, c, o))
    BY <1>2, <1>9 DEF t
  <2>2. o \in SendResult(t.out[p])
    BY SendOutcomeType
  <2>3. Sound(SentFor(t, c, o))
    BY <1>5, <1>6, <2>2, SentForSound
  <2>4. k' \in [Conn -> Socket] /\ sndq' \in [Conn -> 0..SndBuf]
    BY <1>7, <2>1, <2>3, SentType DEF Sound
  <2> QED  BY <1>1, <2>1, <2>3, <2>4, TaskInv
<1> QED  BY <1>8, <1>9

LEMMA NextInv ==
  IInv /\ [Next]_vars => IInv'
<1> SUFFICES ASSUME IInv, [Next]_vars PROVE IInv'
  OBVIOUS
<1>1. CASE fd_epoll_flush_events
  BY <1>1, FlushInv
<1>2. CASE epoll_wait
  BY <1>2, WaitInv
<1>3. CASE listener_accept
  BY <1>3, AcceptInv
<1>4. CASE Environment
  BY <1>4, EnvironmentInv
<1>5. ASSUME NEW c \in Conn,
             \/ RecvCallback(c) \/ SendCallback(c) \/ HandshakeCallback(c)
             \/ ShutdownCallback(c) \/ TaskDelete(c) \/ TaskParse(c) \/ TaskSend(c)
      PROVE  IInv'
  BY <1>5, RecvInv, SendInv, HandshakeInv, ShutdownInv, DeleteInv, ParseInv,
     SendTaskInv
<1>6. CASE UNCHANGED vars
  BY <1>6 DEF vars, IInv, TypeOK, BatchOK, PhaseOK
<1> QED  BY <1>1, <1>2, <1>3, <1>4, <1>5, <1>6 DEF Next, Worker

-----------------------------------------------------------------------------
(* The theorems.                                                           *)

\* The inductive invariant: the worker's memory is sound (types, nalloced,
\* nothing parsed left over, tasks linked once, nothing in a deleted session),
\* every event in the batch is for a live open connection without a task, and
\* the loop runs its callbacks, tasks and registrations one after the other.
THEOREM SessionInv == Spec => []IInv
  BY InitInv, NextInv, PTL DEF Spec

\* The memory, sockets and queues of the worker keep their types and nalloced
\* is never negative, whatever the handlers of connection.c and session.c do.
THEOREM TypeCorrect == Spec => []TypeOK
<1>1. IInv => TypeOK
  BY DEF IInv
<1> QED  BY <1>1, SessionInv, PTL

\* Every path of conn_recv_data, conn_send_data, session_fparse,
\* session_forward and session_free keeps nalloced equal to the packets held.
THEOREM NallocedCorrect == Spec => []NallocedExact
<1>1. IInv => NallocedExact
  BY DEF IInv, Sound, NallocedExact
<1> QED  BY <1>1, SessionInv, PTL

\* session_free's assertion that no packet is left holds on every path to a
\* deletion, the delayed ones included.
THEOREM FreedCleanCorrect == Spec => []FreedClean
<1>1. IInv => FreedClean
  BY DEF IInv, Sound, FreedClean
<1> QED  BY <1>1, SessionInv, PTL

\* No handler links a task that is linked, though conn_send_data's error path
\* does not look: a connection with a queued task gets no event.
THEOREM TaskLinkedOnceCorrect == Spec => []TaskLinkedOnce
<1>1. IInv => TaskLinkedOnce
  BY DEF IInv, Sound, TaskLinkedOnce
<1> QED  BY <1>1, SessionInv, PTL


-----------------------------------------------------------------------------
(* Events and callbacks.                                                   *)

\* A socket with events has a callback, and a connection that waits to send
\* is marked as blocked.
Armed(s) ==
  \A c \in Conn : /\ s.ev[c] # {} => s.cb[c] # "NULL"
                  /\ s.cb[c] = "send" => "BLOCKED" \in s.flags[c]

\* From s to t no registration changed and no blocked connection was released.
Same(s, t) ==
  /\ t.ev = s.ev /\ t.cb = s.cb
  /\ \A c \in Conn : "BLOCKED" \in s.flags[c] => "BLOCKED" \in t.flags[c]

\* From s to t the callback of no connection but c was taken away.
Arms(s, c, t) ==
  /\ Armed(s) => Armed(t)
  /\ \A d \in Conn \ {c} : s.cb[d] # "NULL" => t.cb[d] # "NULL"

LEMMA SameArms ==
  ASSUME NEW s, NEW t, NEW c, Same(s, t)
  PROVE  Arms(s, c, t)
  BY DEF Same, Arms, Armed

LEMMA SameTrans ==
  ASSUME NEW s, NEW t, NEW u, Same(s, t), Same(t, u)
  PROVE  Same(s, u)
  BY DEF Same

LEMMA ArmsTrans ==
  ASSUME NEW s, NEW t, NEW u, NEW c, Arms(s, c, t), Arms(t, c, u)
  PROVE  Arms(s, c, u)
  BY DEF Arms

LEMMA SameFields ==
  ASSUME NEW s, NEW t, t.ev = s.ev, t.cb = s.cb, t.flags = s.flags
  PROVE  Same(s, t)
  BY DEF Same

LEMMA RaiseSame ==
  ASSUME NEW s \in Memory, NEW c \in Conn, NEW f
  PROVE  Same(s, Raise(s, c, f)) /\ (f # "BLOCKED" => Same(s, Clear(s, c, f)))
<1>1. s.flags \in [Conn -> SUBSET Flag]
  BY DEF Memory
<1>2. /\ Raise(s, c, f).ev = s.ev /\ Raise(s, c, f).cb = s.cb
      /\ Raise(s, c, f).flags = [s.flags EXCEPT ![c] = s.flags[c] \union {f}]
      /\ Clear(s, c, f).ev = s.ev /\ Clear(s, c, f).cb = s.cb
      /\ Clear(s, c, f).flags = [s.flags EXCEPT ![c] = s.flags[c] \ {f}]
  BY DEF Raise, Clear, Memory
<1> QED  BY <1>1, <1>2 DEF Same

LEMMA AddTaskSame ==
  ASSUME NEW s \in Memory, NEW c \in Conn, NEW v
  PROVE  Same(s, AddTask(s, c, v)) /\ Same(s, AddTaskAlways(s, c, v))
<1>1. /\ AddTask(s, c, v).ev = s.ev /\ AddTask(s, c, v).cb = s.cb
      /\ AddTask(s, c, v).flags = s.flags
      /\ AddTaskAlways(s, c, v).ev = s.ev /\ AddTaskAlways(s, c, v).cb = s.cb
      /\ AddTaskAlways(s, c, v).flags = s.flags
  BY DEF AddTask, AddTaskAlways, Memory
<1> QED  BY <1>1, SameFields

\* What AddEvent writes.
LEMMA AddEventFields ==
  ASSUME NEW s \in Memory, NEW c \in Conn, NEW e, NEW cb
  PROVE  LET t == AddEvent(s, c, e, cb)
         IN  /\ t.ev[c] = e /\ t.cb[c] = cb /\ t.flags = s.flags
             /\ \A d \in Conn \ {c} : t.ev[d] = s.ev[d] /\ t.cb[d] = s.cb[d]
<1> DEFINE t == AddEvent(s, c, e, cb)
<1>1. s.ev \in [Conn -> SUBSET Mask] /\ s.cb \in [Conn -> Callback]
  BY DEF Memory
<1>2. /\ t.ev = [s.ev EXCEPT ![c] = e] /\ t.cb = [s.cb EXCEPT ![c] = cb]
      /\ t.flags = s.flags
  BY DEF AddEvent, Memory
<1> QED  BY <1>1, <1>2

LEMMA AddEventArms ==
  ASSUME NEW s \in Memory, NEW c \in Conn, NEW e, NEW cb,
         cb # "send", e = {} \/ cb # "NULL"
  PROVE  Arms(s, c, AddEvent(s, c, e, cb))
<1> DEFINE t == AddEvent(s, c, e, cb)
<1>1. /\ t.ev[c] = e /\ t.cb[c] = cb /\ t.flags = s.flags
      /\ \A d \in Conn \ {c} : t.ev[d] = s.ev[d] /\ t.cb[d] = s.cb[d]
  BY AddEventFields
<1> HIDE DEF t
<1>2. Arms(s, c, t)
  BY <1>1 DEF Arms, Armed
<1> QED  BY <1>2 DEF t

-----------------------------------------------------------------------------
(* The handlers keep every socket with events armed.                       *)

LEMMA ReceivedSame ==
  ASSUME NEW s \in Memory, NEW c \in Conn, NEW r
  PROVE  Same(s, Received(s, c, r)) /\ Same(s, DropEmpty(s, c))
<1>1. /\ Received(s, c, r).ev = s.ev /\ Received(s, c, r).cb = s.cb
      /\ Received(s, c, r).flags = s.flags
  BY DEF Received, Memory
<1>2. /\ DropEmpty(s, c).ev = s.ev /\ DropEmpty(s, c).cb = s.cb
      /\ DropEmpty(s, c).flags = s.flags
  BY DEF DropEmpty, Memory
<1> QED  BY <1>1, <1>2, SameFields

LEMMA RecvArms ==
  ASSUME NEW s \in Memory, NEW kc \in Socket, NEW c \in Conn, NEW mask,
         NEW r \in RecvOutcome(s, kc, c)
  PROVE  Arms(s, c, conn_recv_data(s, c, mask, r))
<1> DEFINE s1 == Received(s, c, r)
           s2 == Raise(s1, c, "SHUTRD")
           s4 == Raise(s2, c, "SSLSHUT")
           x4 == AddEvent(s4, c, FD_OUT, "shutdown")
           x2 == AddEvent(s2, c, {}, "NULL")
           s3 == IF s.ssl[c] # "NULL" THEN x4 ELSE x2
           s5 == IF r.closed \/ "RDHUP" \in mask THEN DropEmpty(s3, c) ELSE s1
           e0 == Raise(s, c, "ERROR")
           e1 == Raise(s1, c, "ERROR")
<1>1. conn_recv_data(s, c, mask, r) \in
        {AddTask(e0, c, "DELETE"), AddTask(s, c, "DELETE"),
         AddTask(e1, c, "DELETE"), AddTask(s5, c, "PARSE")}
  BY Zenon DEF conn_recv_data
<1>2. Same(s, s1) /\ s1 \in Memory /\ Same(s, s)
  BY ReceivedSame, ReceivedKeeps DEF Keeps, Same
<1> HIDE DEF s1
<1>3. Same(s, e0) /\ Same(s1, e1) /\ Same(s1, s2) /\ s2 \in Memory /\ e0 \in Memory /\ e1 \in Memory
  BY <1>2, RaiseSame, RaiseClearKeeps, HandlerConstants DEF Keeps
<1> HIDE DEF s2, e0, e1
<1>4. Same(s2, s4) /\ s4 \in Memory
  BY <1>3, RaiseSame, RaiseClearKeeps, HandlerConstants DEF Keeps
<1> HIDE DEF s4
<1>5. Same(s, s2) /\ Same(s, s4) /\ Same(s, e1)
  BY <1>2, <1>3, <1>4, SameTrans
<1>6. Arms(s4, c, x4) /\ Arms(s2, c, x2) /\ x4 \in Memory /\ x2 \in Memory
  <2>1. Arms(s4, c, x4) /\ Arms(s2, c, x2)
    BY <1>3, <1>4, AddEventArms
  <2>2. Keeps(s4, x4) /\ Keeps(s2, x2)
    BY <1>3, <1>4, AddEventKeeps, HandlerConstants
  <2> QED  BY <2>1, <2>2 DEF Keeps
<1> HIDE DEF x4, x2
<1>7. Arms(s, c, s3) /\ s3 \in Memory
  <2>1. Arms(s, c, s4) /\ Arms(s, c, s2)
    BY <1>5, SameArms
  <2>2. Arms(s, c, x4) /\ Arms(s, c, x2)
    BY <1>6, <2>1, ArmsTrans
  <2> QED  BY <1>6, <2>2
<1> HIDE DEF s3
<1>8. Arms(s, c, s5) /\ s5 \in Memory
  <2>1. Same(s3, DropEmpty(s3, c)) /\ DropEmpty(s3, c) \in Memory
    BY <1>7, ReceivedSame, DropEmptyKeeps DEF Keeps
  <2>2. Arms(s, c, DropEmpty(s3, c))
    BY <1>7, <2>1, SameArms, ArmsTrans
  <2>3. Arms(s, c, s1)
    BY <1>2, SameArms
  <2> QED  BY <1>2, <2>1, <2>2, <2>3
<1> HIDE DEF s5
<1>9. Arms(s, c, e0) /\ Arms(s, c, s) /\ Arms(s, c, e1)
  BY <1>2, <1>3, <1>5, SameArms
<1>10. ASSUME NEW t \in Memory, NEW v, Arms(s, c, t)
       PROVE  Arms(s, c, AddTask(t, c, v))
  BY <1>10, AddTaskSame, SameArms, ArmsTrans
<1> QED  BY <1>1, <1>3, <1>8, <1>9, <1>10, Zenon


LEMMA ConsumeSame ==
  ASSUME NEW s \in Memory, NEW c \in Conn, NEW o
  PROVE  Same(s, Consume(s, c, o))
<1>1. /\ Consume(s, c, o).ev = s.ev /\ Consume(s, c, o).cb = s.cb
      /\ Consume(s, c, o).flags = s.flags
  BY DEF Consume, Memory
<1> QED  BY <1>1, SameFields

\* Blocking marks the connection whose callback it sets to send.
LEMMA BlockArmed ==
  ASSUME NEW s \in Memory, NEW c \in Conn, Armed(s)
  PROVE  Armed(Block(s, c))
<1> DEFINE p == Peer(c)
           a == AddEvent(s, c, FD_OUT, "send")
           b == AddEvent(a, p, {}, "NULL")
           t == Raise(b, c, "BLOCKED")
<1>1. p \in Conn /\ p # c /\ \A x \in Conn : x = c \/ x = p
  BY PeerConn
<1> HIDE DEF p
<1>2. a \in Memory /\ a.ev[c] = FD_OUT /\ a.cb[c] = "send"
  BY AddEventFields, AddEventKeeps, HandlerConstants DEF Keeps
<1> HIDE DEF a
<1>3. /\ b \in Memory /\ b.ev[p] = {} /\ b.cb[p] = "NULL"
      /\ b.ev[c] = FD_OUT /\ b.cb[c] = "send"
  BY <1>1, <1>2, AddEventFields, AddEventKeeps, HandlerConstants DEF Keeps
<1> HIDE DEF b
<1>4. t.ev = b.ev /\ t.cb = b.cb /\ "BLOCKED" \in t.flags[c]
  BY <1>3 DEF Raise, Memory
<1> HIDE DEF t
<1>5. Armed(t)
  BY <1>1, <1>3, <1>4 DEF Armed
<1> QED  BY <1>5, Zenon DEF Block, t, b, a, p

\* Unblocking lets both connections read.
LEMMA UnblockArms ==
  ASSUME NEW s \in Memory, NEW c \in Conn
  PROVE  Arms(s, c, Unblock(s, c))
<1> DEFINE p == Peer(c)
           a == AddEvent(s, c, FD_IN, "recv")
           b == AddEvent(a, p, FD_IN, "recv")
           t == Clear(b, c, "BLOCKED")
<1>1. p \in Conn /\ p # c /\ \A x \in Conn : x = c \/ x = p
  BY PeerConn
<1> HIDE DEF p
<1>2. a \in Memory /\ a.ev[c] = FD_IN /\ a.cb[c] = "recv"
  BY AddEventFields, AddEventKeeps, HandlerConstants DEF Keeps
<1> HIDE DEF a
<1>3. /\ b \in Memory /\ b.cb[p] = "recv" /\ b.cb[c] = "recv"
  BY <1>1, <1>2, AddEventFields, AddEventKeeps, HandlerConstants DEF Keeps
<1> HIDE DEF b
<1>4. t.cb = b.cb
  BY <1>3 DEF Clear, Memory
<1> HIDE DEF t
<1>5. Arms(s, c, t)
  BY <1>1, <1>3, <1>4 DEF Armed, Arms
<1>6. Arms(s, c, s)
  BY DEF Arms
<1> QED  BY <1>5, <1>6, Zenon DEF Unblock, t, b, a, p

LEMMA ShutWriteArms ==
  ASSUME NEW s \in Memory, NEW c \in Conn
  PROVE  Arms(s, c, ShutWrite(s, c))
<1> DEFINE a == Raise(s, c, "SSLSHUT")
           b == AddEvent(a, c, FD_OUT, "shutdown")
           d == Raise(s, c, "SHUTWR")
<1>1. Same(s, a) /\ Same(s, d) /\ a \in Memory
  BY RaiseSame, RaiseClearKeeps, HandlerConstants DEF Keeps
<1> HIDE DEF a, d
<1>2. Arms(a, c, b)
  BY <1>1, AddEventArms
<1> HIDE DEF b
<1>3. Arms(s, c, a) /\ Arms(s, c, d)
  BY <1>1, SameArms
<1>4. Arms(s, c, b) /\ Arms(s, c, s)
  BY <1>2, <1>3, ArmsTrans DEF Arms
<1> QED  BY <1>3, <1>4, Zenon DEF ShutWrite, a, b, d

\* Sending keeps sockets armed; called for a blocked connection, as the send
\* callback does, it takes no callback away from the peer.
LEMMA SendArmed ==
  ASSUME NEW s \in Memory, NEW c \in Conn, NEW o \in SendResult(s.out[c]), Armed(s)
  PROVE  LET t == conn_send_data(s, c, o)
         IN  Armed(t) /\ (s.cb[c] = "send" => Arms(s, c, t))
<1> DEFINE s1 == Consume(s, c, o)
           s2 == Unblock(s1, c)
           s3 == ShutWrite(s2, c)
           e  == Raise(s1, c, "ERROR")
           b  == Block(s1, c)
<1>1. Same(s, s1) /\ s1 \in Memory
  BY ConsumeSame, ConsumeKeeps DEF Keeps
<1>2. o.end \in {"all", "part", "err"}
  BY DEF SendResult
<1>3. Arms(s, c, s1) /\ Armed(s1)
  <2>1. Arms(s, c, s1)
    BY <1>1, SameArms
  <2> QED  BY <2>1 DEF Arms
<1>4. s.cb[c] = "send" => "BLOCKED" \in s1.flags[c]
  BY <1>1 DEF Armed, Same
<1>5. conn_send_data(s, c, o) \in {s, e, b, s3}
  BY <1>2 DEF conn_send_data
<1> HIDE DEF s1
<1>6. Arms(s1, c, s2) /\ s2 \in Memory
  BY <1>1, UnblockArms, BlockKeeps DEF Keeps
<1> HIDE DEF s2
<1>7. Arms(s2, c, s3)
  BY <1>6, ShutWriteArms
<1>8. Arms(s1, c, e)
  BY <1>1, RaiseSame, SameArms
<1>9. Armed(b) /\ ("BLOCKED" \in s1.flags[c] => b = s1)
  BY <1>1, <1>3, BlockArmed DEF Block
<1> HIDE DEF s3, e, b
<1>10. Arms(s, c, s3) /\ Arms(s, c, e) /\ Arms(s, c, s)
  BY <1>3, <1>6, <1>7, <1>8, ArmsTrans DEF Arms
<1>11. Armed(s3) /\ Armed(e)
  BY <1>10 DEF Arms
<1> QED  BY <1>3, <1>4, <1>5, <1>9, <1>10, <1>11, Zenon

LEMMA SendEventArms ==
  ASSUME NEW s \in Memory, NEW c \in Conn, NEW o \in SendResult(s.out[c]), Armed(s),
         s.cb[c] = "send"
  PROVE  Arms(s, c, SendEvent(s, c, o))
<1> DEFINE t == conn_send_data(s, c, o)
           u == AddTaskAlways(t, c, "DELETE")
<1>1. Arms(s, c, t) /\ t \in Memory
  BY SendArmed, SendKeeps DEF Keeps
<1> HIDE DEF t
<1>2. Arms(t, c, u)
  BY <1>1, AddTaskSame, SameArms
<1> HIDE DEF u
<1>3. Arms(s, c, u)
  BY <1>1, <1>2, ArmsTrans
<1> QED  BY <1>1, <1>3, Zenon DEF SendEvent, t, u

LEMMA RearmArms ==
  ASSUME NEW s \in Memory, NEW c \in Conn, NEW mask, NEW wait
  PROVE  Arms(s, c, Rearm(s, c, mask, wait, "handshake"))
<1>1. /\ Arms(s, c, AddEvent(s, c, FD_IN, "handshake"))
      /\ Arms(s, c, AddEvent(s, c, FD_OUT, "handshake")) /\ Arms(s, c, s)
  BY AddEventArms DEF Arms
<1>2. Rearm(s, c, mask, wait, "handshake") \in
        {s, AddEvent(s, c, FD_IN, "handshake"), AddEvent(s, c, FD_OUT, "handshake")}
  BY DEF Rearm
<1> QED  BY <1>1, <1>2, Zenon

LEMMA HandshakeArms ==
  ASSUME NEW s \in Memory, NEW c \in Conn, NEW mask, NEW kc, NEW h
  PROVE  Arms(s, c, conn_handshake(s, c, mask, kc, h))
<1> DEFINE F  == (s.flags[c] \ {"HSK"})
                   \union (IF s.ssl[c] # "NULL" THEN {"SSLHSK"} ELSE {})
           f1 == [s EXCEPT !.flags[c] = F]
           s1 == IF "HSK" \in s.flags[c] THEN f1 ELSE s
           s2 == Clear(s1, c, "SSLHSK")
           e0 == Raise(s, c, "ERROR")
           r1 == AddEvent(s1, c, FD_IN, "recv")
           r2 == AddEvent(s2, c, FD_IN, "recv")
           w1 == Rearm(s1, c, mask, h, "handshake")
<1>1. conn_handshake(s, c, mask, kc, h) \in
        {AddTask(s, c, "DELETE"), AddTask(e0, c, "DELETE"), AddTask(s1, c, "DELETE"),
         AddTask(r1, c, "SEND"), AddTask(r2, c, "SEND"), w1}
  BY DEF conn_handshake
<1>2. F \in SUBSET Flag /\ ("BLOCKED" \in s.flags[c] => "BLOCKED" \in F)
  BY DEF Memory, Flag
<1> HIDE DEF F
<1>3. Same(s, f1) /\ f1 \in Memory
  <2>1. f1.ev = s.ev /\ f1.cb = s.cb /\ f1.flags = [s.flags EXCEPT ![c] = F]
    BY DEF Memory
  <2>2. s.flags \in [Conn -> SUBSET Flag]
    BY DEF Memory
  <2>3. f1 \in Memory
    BY <1>2, SetFlags
  <2> HIDE DEF f1
  <2> QED  BY <1>2, <2>1, <2>2, <2>3 DEF Same
<1>4. Same(s, s1) /\ s1 \in Memory /\ Same(s, s)
  BY <1>3 DEF Same
<1> HIDE DEF s1
<1>5. Same(s1, s2) /\ s2 \in Memory /\ Same(s, e0) /\ e0 \in Memory
  BY <1>4, RaiseSame, RaiseClearKeeps, HandlerConstants DEF Keeps
<1> HIDE DEF s2, e0
<1>6. Same(s, s2)
  BY <1>4, <1>5, SameTrans
<1>7. Arms(s, c, s1) /\ Arms(s, c, s2) /\ Arms(s, c, e0) /\ Arms(s, c, s)
  BY <1>4, <1>5, <1>6, SameArms
<1>8. /\ Arms(s1, c, r1) /\ Arms(s2, c, r2) /\ Arms(s1, c, w1)
      /\ r1 \in Memory /\ r2 \in Memory
  BY <1>4, <1>5, AddEventArms, AddEventKeeps, RearmArms, HandlerConstants DEF Keeps
<1> HIDE DEF r1, r2, w1
<1>9. Arms(s, c, r1) /\ Arms(s, c, r2) /\ Arms(s, c, w1)
  BY <1>7, <1>8, ArmsTrans
<1>10. ASSUME NEW t \in Memory, NEW v, Arms(s, c, t)
       PROVE  Arms(s, c, AddTask(t, c, v))
  BY <1>10, AddTaskSame, SameArms, ArmsTrans
<1> QED  BY <1>1, <1>4, <1>5, <1>7, <1>8, <1>9, <1>10, Zenon

LEMMA ShutdownArms ==
  ASSUME NEW s \in Memory, NEW c \in Conn, NEW mask, NEW z
  PROVE  Arms(s, c, conn_shutdown(s, c, mask, z))
<1> DEFINE a == AddEvent(s, c, {}, "NULL")
           t == [a EXCEPT !.ssl[c] = "NULL", !.nssl = @ - 1]
           v == Rearm(s, c, mask, z, "handshake")
           u == AddTask(s, c, "DELETE")
<1>1. Arms(s, c, a) /\ Arms(s, c, v) /\ a \in Memory
  BY AddEventArms, AddEventKeeps, RearmArms, HandlerConstants DEF Keeps
<1>2. Arms(s, c, u)
  BY AddTaskSame, SameArms
<1>3. conn_shutdown(s, c, mask, z) \in {u, a, t, v}
  BY Zenon DEF conn_shutdown
<1> HIDE DEF a
<1>4. Same(a, t)
  <2>1. t.ev = a.ev /\ t.cb = a.cb /\ t.flags = a.flags
    BY <1>1 DEF Memory
  <2> QED  BY <2>1, SameFields
<1>5. Arms(s, c, t)
  BY <1>1, <1>4, SameArms, ArmsTrans
<1> HIDE DEF t, v, u
<1> QED  BY <1>1, <1>2, <1>3, <1>5, Zenon


LEMMA ConnFreeArms ==
  ASSUME NEW s \in Memory, NEW c \in Conn
  PROVE  Arms(s, c, conn_free(s, c)) /\ conn_free(s, c) \in Memory
<1> DEFINE a == FreePackets(s, c)
           b == AddEvent(a, c, {}, "NULL")
           t == [b EXCEPT !.fd[c] = FALSE, !.task[c] = "NONE"]
<1>1. Keeps(s, a)
  BY FreePacketsKeeps, Zenon
<1>2. a.ev = s.ev /\ a.cb = s.cb /\ a.flags = s.flags
  BY DEF FreePackets, Memory
<1>3. conn_free(s, c) = t /\ conn_free(s, c) \in Memory
  BY ConnFree, Zenon DEF conn_free
<1> HIDE DEF a
<1>4. a \in Memory /\ Same(s, a)
  BY <1>1, <1>2, SameFields DEF Keeps
<1>5. Arms(a, c, b) /\ b \in Memory
  BY <1>4, AddEventArms, AddEventKeeps, HandlerConstants DEF Keeps
<1> HIDE DEF b
<1>6. t.ev = b.ev /\ t.cb = b.cb /\ t.flags = b.flags
  BY <1>5 DEF Memory
<1> HIDE DEF t
<1>7. Same(b, t)
  BY <1>6, SameFields
<1>8. Arms(s, c, t)
  BY <1>4, <1>5, <1>7, SameArms, ArmsTrans
<1> QED  BY <1>3, <1>8, Zenon

LEMMA SessionFreeArmed ==
  ASSUME NEW s \in Memory, NEW c \in Conn, Armed(s)
  PROVE  Armed(session_free(s, c))
<1> DEFINE p == Peer(c)
           a == conn_free(s, c)
           b == conn_free(a, p)
           x == [a EXCEPT !.task[p] = "DELETE"]
           y == [b EXCEPT !.alive  = FALSE, !.plref = @ - 1,
                          !.svrref = IF s.svrdata THEN @ - 1 ELSE @]
<1>1. p \in Conn
  BY PeerConn
<1>2. session_free(s, c) \in {x, y}
  BY Zenon DEF session_free
<1>3. a \in Memory /\ Armed(a)
  BY ConnFreeArms DEF Arms
<1> HIDE DEF a
<1>4. b \in Memory /\ Armed(b)
  BY <1>1, <1>3, ConnFreeArms DEF Arms
<1> HIDE DEF b, p
<1>5. x.ev = a.ev /\ x.cb = a.cb /\ x.flags = a.flags
  BY <1>3 DEF Memory
<1>6. y.ev = b.ev /\ y.cb = b.cb /\ y.flags = b.flags
  BY <1>4 DEF Memory
<1> HIDE DEF x, y
<1>7. Armed(x) /\ Armed(y)
  BY <1>3, <1>4, <1>5, <1>6 DEF Armed
<1> QED  BY <1>2, <1>7, Zenon

LEMMA ClosedCheckArmed ==
  ASSUME NEW s \in Memory, NEW c \in Conn, Armed(s)
  PROVE  Armed(ClosedCheck(s, c))
<1>1. Armed(session_free(s, c))
  BY SessionFreeArmed
<1> QED  BY <1>1, Zenon DEF ClosedCheck

\* Opening the connection to the server registers it with a callback.
LEMMA ForwardArmed ==
  ASSUME NEW s, NEW c \in Conn, NEW f \in {"noserver", "fail", "wait", "now"},
         Joined(s, c) \in Memory, Armed(Joined(s, c))
  PROVE  Armed(session_forward(s, c, f))
<1> DEFINE j  == Joined(s, c)
           g  == session_get_server(j, c)
           o  == [g EXCEPT !.fd[c] = TRUE]
           oa == Raise(o, c, "HSK")
           wa == AddEvent(oa, c, FD_OUT, "handshake")
           up == [o EXCEPT !.ssl[c] = "fd", !.flags[c] = @ \union {"SSLHSK"}]
           ua == AddEvent(up, c, FD_OUT, "handshake")
           na == AddEvent(o, c, FD_IN, "recv")
<1>1. session_forward(s, c, f) \in {j, g, wa, ua, na}
  BY DEF session_forward
<1>2. j \in Memory /\ Armed(j)
  OBVIOUS
<1> HIDE DEF j
<1>3. g \in Memory /\ Same(j, g)
  <2>1. g \in Memory
    BY <1>2, GetServerOpens DEF Opens
  <2>2. g.ev = j.ev /\ g.cb = j.cb /\ g.flags = j.flags
    BY <1>2 DEF session_get_server, Memory
  <2> QED  BY <2>1, <2>2, SameFields
<1> HIDE DEF g
<1>4. o \in Memory /\ Same(g, o)
  <2>1. o \in Memory
    BY <1>3, OpensFd DEF Opens
  <2>2. o.ev = g.ev /\ o.cb = g.cb /\ o.flags = g.flags
    BY <1>3 DEF Memory
  <2> QED  BY <2>1, <2>2, SameFields
<1>5. Armed(g) /\ Armed(o)
  BY <1>2, <1>3, <1>4, SameArms DEF Arms
<1> HIDE DEF o
<1>6. oa \in Memory /\ Armed(oa)
  <2>1. Same(o, oa) /\ Keeps(o, oa)
    BY <1>4, RaiseSame, RaiseClearKeeps, HandlerConstants
  <2> QED  BY <1>5, <2>1, SameArms DEF Arms, Keeps
<1>7. up \in Memory /\ Armed(up)
  <2>1. up.ev = o.ev /\ up.cb = o.cb
        /\ up.flags = [o.flags EXCEPT ![c] = o.flags[c] \union {"SSLHSK"}]
        /\ o.flags \in [Conn -> SUBSET Flag]
    BY <1>4 DEF Memory
  <2>2. up \in Memory
    BY <1>4 DEF Memory, Flag
  <2> HIDE DEF up
  <2>3. Same(o, up)
    BY <2>1 DEF Same
  <2> QED  BY <1>5, <2>2, <2>3, SameArms DEF Arms
<1> HIDE DEF oa, up
<1>8. Armed(wa) /\ Armed(ua) /\ Armed(na)
  <2>1. Arms(oa, c, wa) /\ Arms(up, c, ua) /\ Arms(o, c, na)
    BY <1>4, <1>6, <1>7, AddEventArms
  <2> QED  BY <1>5, <1>6, <1>7, <2>1 DEF Arms
<1> QED  BY <1>1, <1>2, <1>5, <1>8, Zenon

LEMMA ParsedArmed ==
  ASSUME NEW s, Sound(s), s.alive, Armed(s), NEW c \in Conn,
         NEW f \in {"noserver", "fail", "wait", "now"}
  PROVE  Armed(session_forward(session_fparse(s, c), Peer(c), f))
<1> DEFINE x == session_fparse(s, c)
           j == Joined(x, Peer(c))
<1>1. j \in Memory /\ s \in Memory /\ Peer(c) \in Conn
  BY ParseSound, PeerConn DEF Sound
<1>2. j.ev = s.ev /\ j.cb = s.cb /\ j.flags = s.flags
  BY <1>1 DEF Joined, session_fparse, Memory
<1>3. Armed(j)
  BY <1>2 DEF Armed
<1> HIDE DEF x
<1>4. Armed(session_forward(x, Peer(c), f))
  BY <1>1, <1>3, ForwardArmed
<1> QED  BY <1>4 DEF x

LEMMA SentForArmed ==
  ASSUME NEW s \in Memory, Sound(s), s.alive, NEW c \in Conn, ~task_in_queue(s, c),
         NEW o \in SendResult(s.out[Peer(c)]), Armed(s)
  PROVE  Armed(SentFor(s, c, o))
<1> DEFINE a == conn_send_data(s, Peer(c), o)
           b == IF o.end = "err" THEN session_free(a, c) ELSE a
<1>1. Keeps(s, a) /\ Armed(a)
  BY PeerConn, SendKeeps, SendArmed
<1> HIDE DEF a
<1>2. Sound(a) /\ a.taskq = s.taskq /\ a \in Memory
  BY <1>1, KeepsSound DEF Keeps
<1>3. ~task_in_queue(a, c)
  BY <1>2 DEF task_in_queue
<1>4. session_free(a, c) \in Memory
  BY <1>2, <1>3, SessionFree DEF Sound
<1>5. Armed(session_free(a, c))
  BY <1>1, <1>2, SessionFreeArmed
<1>6. b \in Memory /\ Armed(b)
  BY <1>1, <1>2, <1>4, <1>5, Zenon
<1> HIDE DEF b
<1>7. Armed(ClosedCheck(b, c))
  BY <1>6, ClosedCheckArmed
<1> QED  BY <1>7, Zenon DEF SentFor, a, b

LEMMA RunSendArmed ==
  ASSUME NEW s \in Memory, NEW c \in Conn, NEW o \in SendResult(s.out[c]), Armed(s)
  PROVE  Armed(RunSend(s, c, o))
<1> DEFINE a == conn_send_data(s, c, o)
<1>1. a \in Memory /\ Armed(a)
  BY SendKeeps, SendArmed DEF Keeps
<1> HIDE DEF a
<1>2. Armed(session_free(a, c)) /\ Armed(ClosedCheck(a, c))
  BY <1>1, SessionFreeArmed, ClosedCheckArmed
<1> QED  BY <1>2, Zenon DEF RunSend, a

LEMMA AcceptArmed ==
  ASSUME NEW s, Sound(s), ~s.alive
  PROVE  Armed(_ltn_accept(s))
<1> DEFINE cb == IF Client \in SSLConn THEN "handshake" ELSE "recv"
           i == session_init(s)
           n == AddEvent(i, Client, FD_IN, cb)
           a == [n EXCEPT !.alive = TRUE, !.fd[Client] = TRUE, !.plref = @ + 1]
           x == [a EXCEPT !.ssl[Client] = "fd", !.nssl = @ + 1,
                          !.flags[Client] = {"SSLHSK"}]
<1>1. s.plref \in Int /\ s.svrref \in Int /\ s.nssl \in Int /\ Client \in Conn
  BY DEF Sound, Memory, Conn
<1>2. i = Slot(0, <<>>, s.plref, s.svrref, s.nssl)
  BY DEF session_init, Sound
<1>3. i \in Memory /\ i.ev = [c \in Conn |-> {}] /\ i.cb = [c \in Conn |-> "NULL"]
  <2>1. Slot(0, <<>>, s.plref, s.svrref, s.nssl) \in Memory
    BY <1>1, SlotSound DEF Sound
  <2>2. i \in Memory
    BY <1>2, <2>1, Zenon
  <2> QED  BY <2>2 DEF session_init, Slot
<1> HIDE DEF i
<1>4. cb \in {"handshake", "recv"}
  OBVIOUS
<1>5. _ltn_accept(s) \in {a, x}
  BY Zenon DEF _ltn_accept, i
<1> HIDE DEF cb
<1>6. n \in Memory
  BY <1>1, <1>3, <1>4, AddEventKeeps, HandlerConstants DEF Keeps
<1>7. n.cb[Client] = cb /\ \A d \in Conn \ {Client} : n.ev[d] = {} /\ n.cb[d] = "NULL"
  BY <1>1, <1>3, AddEventFields
<1> HIDE DEF n
<1>8. a.ev = n.ev /\ a.cb = n.cb /\ x.ev = n.ev /\ x.cb = n.cb
  BY <1>6 DEF Memory
<1> HIDE DEF a, x
<1>9. Armed(a) /\ Armed(x)
  BY <1>4, <1>7, <1>8 DEF Armed
<1> QED  BY <1>5, <1>9, Zenon


-----------------------------------------------------------------------------
(* The invariant of the events in the batch.                               *)

\* A registered socket, and a socket whose event waits, has a callback.
Heard ==
  /\ \A i \in 1..Len(batch) : batch[i].fd \in Conn => w.cb[batch[i].fd] # "NULL"
  /\ phase = "wait" => \A c \in Conn : pev[c] # {} => w.cb[c] # "NULL"

EInv == Armed(w) /\ Heard

\* A callback of c leaves the events behind it valid.
LEMMA CallbackHeard ==
  ASSUME IInv, EInv, NEW c \in Conn, NEW s, Dispatch(c), Called(s), Arms(w, c, s)
  PROVE  EInv'
<1>1. /\ w' = s /\ batch' = Tail(batch)
      /\ phase' = IF Tail(batch) # <<>> THEN "poll"
                  ELSE IF s.taskq # <<>> THEN "task" ELSE "flush"
  BY DEF Called
<1>2. batch \in Seq(Event) /\ batch # <<>> /\ batch[1].fd = c
  BY DEF Dispatch, IInv, TypeOK
<1>3. /\ 1 \in 1..Len(batch)
      /\ \A i \in 1..Len(Tail(batch)) :
           i + 1 \in 1..Len(batch) /\ Tail(batch)[i] = batch[i + 1] /\ i + 1 # 1
  BY <1>2
<1>4. ASSUME NEW i \in 1..Len(batch'), batch'[i].fd \in Conn
      PROVE  s.cb[batch'[i].fd] # "NULL"
  <2> DEFINE d == batch[i + 1].fd
  <2>1. i + 1 \in 1..Len(batch) /\ batch'[i].fd = d /\ i + 1 # 1
    BY <1>1, <1>3
  <2>2. d # c
    BY <1>2, <1>3, <2>1 DEF IInv, BatchOK
  <2>3. w.cb[d] # "NULL"
    BY <1>4, <2>1 DEF EInv, Heard
  <2> QED  BY <1>4, <2>1, <2>2, <2>3 DEF Arms
<1>5. Armed(s) /\ phase' # "wait"
  BY <1>1 DEF EInv, Arms
<1> QED  BY <1>1, <1>4, <1>5 DEF EInv, Heard

\* A task finds the batch empty.
LEMMA TaskHeard ==
  ASSUME IInv, NEW c, NEW type, Running(c, type), NEW s, Armed(s), Ran(s)
  PROVE  EInv'
<1>1. /\ w' = s /\ batch' = batch /\ phase' = IF s.taskq # <<>> THEN "task" ELSE "flush"
  BY DEF Ran
<1>2. batch' = <<>> /\ phase' # "wait"
  BY <1>1 DEF Running, IInv, PhaseOK
<1> QED  BY <1>1, <1>2 DEF EInv, Heard

LEMMA UnlinkedArmed ==
  ASSUME IInv, EInv
  PROVE  Armed(Unlinked)
<1>1. w \in Memory
  BY DEF IInv, Sound
<1>2. Unlinked.ev = w.ev /\ Unlinked.cb = w.cb /\ Unlinked.flags = w.flags
  BY <1>1 DEF Unlinked, Memory
<1> QED  BY <1>2 DEF EInv, Armed

LEMMA InitHeard ==
  Init => EInv
<1> SUFFICES ASSUME Init PROVE EInv
  OBVIOUS
<1>1. /\ w.ev = [c \in Conn |-> {}] /\ w.cb = [c \in Conn |-> "NULL"]
      /\ batch = <<>> /\ phase = "flush"
  BY DEF Init, NoSession, Slot
<1> QED  BY <1>1 DEF EInv, Heard, Armed

LEMMA WaitHeard ==
  ASSUME IInv, EInv, epoll_wait
  PROVE  EInv'
<1>1. phase = "wait" /\ w' = w /\ phase' # "wait"
  BY DEF epoll_wait
<1>2. \A c \in Conn : pev[c] # {} => w.cb[c] # "NULL"
  BY <1>1 DEF EInv, Heard
<1>3. LFD \notin Conn
  BY DEF LFD, Conn, Client, Server
<1>4. \A i \in 1..Len(batch') : batch'[i].fd \in Conn => w.cb[batch'[i].fd] # "NULL"
  <2>1. CASE batch' = <<[fd |-> LFD, mask |-> {"IN"}]>>
    <3> SUFFICES ASSUME NEW i \in 1..Len(batch') PROVE batch'[i].fd \notin Conn
      OBVIOUS
    <3>1. i = 1
      BY <2>1
    <3> QED  BY <1>3, <2>1, <3>1
  <2>2. CASE ~(batch' = <<[fd |-> LFD, mask |-> {"IN"}]>>)
    <3> DEFINE ready == {c \in Conn : Events(c, pev[c]) # {}}
               size  == IF Cardinality(ready) < MaxWait THEN Cardinality(ready)
                        ELSE MaxWait
    <3>1. PICK b \in Injection(1..size, ready) :
            batch' = [i \in 1..size |->
                         [fd |-> b[i], mask |-> Events(b[i], pev[b[i]])]]
      BY <2>2 DEF epoll_wait
    <3>2. \A c \in Conn : Events(c, pev[c]) # {} => pev[c] # {}
      BY DEF Events
    <3>3. b \in [1..size -> ready]
      BY DEF Injection, IsInjective
    <3>4. size \in Nat
      <4>1. IsFiniteSet(Conn) /\ ready \subseteq Conn
        <5>1. Conn = {Client} \union {Server}
          BY DEF Conn
        <5> QED  BY <5>1, FS_Singleton, FS_Union
      <4>2. Cardinality(ready) \in Nat
        BY <4>1, FS_Subset, FS_CardinalityType
      <4> QED  BY <4>2, SessionAssumption
    <3> HIDE DEF size
    <3>5. \A i \in 1..size : b[i] \in Conn /\ w.cb[b[i]] # "NULL"
      BY <1>2, <3>2, <3>3
    <3> HIDE DEF ready
    <3>6. Len(batch') = size /\ \A i \in 1..size : batch'[i].fd = b[i]
      BY <3>1, <3>4
    <3> QED  BY <3>5, <3>6
  <2> QED  BY <2>1, <2>2
<1> QED  BY <1>1, <1>4 DEF EInv, Heard

LEMMA NextHeard ==
  IInv /\ EInv /\ [Next]_vars => EInv'
<1> SUFFICES ASSUME IInv, EInv, [Next]_vars PROVE EInv'
  OBVIOUS
<1>0. w \in Memory /\ k \in [Conn -> Socket] /\ Armed(w)
  BY DEF IInv, TypeOK, EInv
<1>1. CASE fd_epoll_flush_events
  <2>1. /\ w' = w /\ batch' = batch
        /\ pev' = [c \in Conn |-> IF w.fd[c] THEN w.ev[c] ELSE {}]
    BY <1>1 DEF fd_epoll_flush_events
  <2>2. \A c \in Conn : pev'[c] # {} => w.cb[c] # "NULL"
    BY <1>0, <2>1 DEF Armed
  <2> QED  BY <2>1, <2>2 DEF EInv, Heard
<1>2. CASE epoll_wait
  BY <1>2, WaitHeard
<1>3. CASE listener_accept
  <2>1. batch # <<>> /\ batch[1].fd = LFD /\ batch \in Seq(Event)
    BY <1>3 DEF listener_accept, Dispatch, IInv, TypeOK
  <2>2. ~w.alive /\ Len(batch) = 1
    BY <2>1 DEF IInv, BatchOK
  <2>3. Len(Tail(batch)) = 0
    BY <2>1, <2>2
  <2>4. Armed(_ltn_accept(w))
    BY <2>2, AcceptArmed DEF IInv
  <2>5. w' = _ltn_accept(w) /\ batch' = Tail(batch) /\ phase' # "wait"
    BY <1>3 DEF listener_accept, Called
  <2> QED  BY <2>3, <2>4, <2>5 DEF EInv, Heard
<1>4. CASE Environment
  <2>1. UNCHANGED <<w, pev, phase, batch>>
    BY <1>4 DEF Environment, RemoteSend, RemoteFin, RemoteRead, RemoteReset, RemoteConnect
  <2> QED  BY <2>1 DEF EInv, Heard
<1>5. ASSUME NEW c \in Conn, RecvCallback(c) PROVE EInv'
  <2>1. PICK r \in RecvOutcome(w, k[c], c) :
          Called(conn_recv_data(w, c, batch[1].mask, r))
    BY <1>5 DEF RecvCallback
  <2>2. Arms(w, c, conn_recv_data(w, c, batch[1].mask, r))
    BY <1>0, RecvArms
  <2> QED  BY <1>5, <2>1, <2>2, CallbackHeard DEF RecvCallback
<1>6. ASSUME NEW c \in Conn, SendCallback(c) PROVE EInv'
  <2>1. PICK o \in SendOutcome(w, c, k[c], SndBuf - sndq[c]) : Called(SendEvent(w, c, o))
    BY <1>6 DEF SendCallback
  <2>2. w.cb[c] = "send" /\ Dispatch(c)
    BY <1>6 DEF SendCallback
  <2>3. Arms(w, c, SendEvent(w, c, o))
    BY <1>0, <2>2, SendOutcomeType, SendEventArms
  <2> QED  BY <2>1, <2>2, <2>3, CallbackHeard
<1>7. ASSUME NEW c \in Conn, HandshakeCallback(c) PROVE EInv'
  <2>1. PICK h \in HandshakeResult(w, k[c], c) :
          Called(conn_handshake(w, c, batch[1].mask, k[c], h))
    BY <1>7 DEF HandshakeCallback
  <2>2. Arms(w, c, conn_handshake(w, c, batch[1].mask, k[c], h))
    BY <1>0, HandshakeArms
  <2> QED  BY <1>7, <2>1, <2>2, CallbackHeard DEF HandshakeCallback
<1>8. ASSUME NEW c \in Conn, ShutdownCallback(c) PROVE EInv'
  <2>1. PICK z \in ShutdownResult(w, k[c], c) :
          Called(conn_shutdown(w, c, batch[1].mask, z))
    BY <1>8 DEF ShutdownCallback
  <2>2. Arms(w, c, conn_shutdown(w, c, batch[1].mask, z))
    BY <1>0, ShutdownArms
  <2> QED  BY <1>8, <2>1, <2>2, CallbackHeard DEF ShutdownCallback
<1>9. ASSUME NEW c \in Conn, TaskDelete(c) PROVE EInv'
  <2>1. Running(c, "DELETE") /\ Ran(session_free(Unlinked, c))
    BY <1>9 DEF TaskDelete, Freed
  <2>2. Unlinked \in Memory /\ Armed(Unlinked)
    BY <2>1, UnlinkedSound, UnlinkedArmed DEF Sound
  <2>3. Armed(session_free(Unlinked, c))
    BY <2>2, SessionFreeArmed
  <2> QED  BY <2>1, <2>3, TaskHeard
<1>10. ASSUME NEW c \in Conn, TaskSend(c) PROVE EInv'
  <2>1. PICK o \in SendOutcome(Unlinked, c, k[c], SndBuf - sndq[c]) :
          Ran(RunSend(Unlinked, c, o))
    BY <1>10 DEF TaskSend
  <2>2. Running(c, "SEND")
    BY <1>10 DEF TaskSend
  <2>3. Unlinked \in Memory /\ Armed(Unlinked)
    BY <2>2, UnlinkedSound, UnlinkedArmed DEF Sound
  <2>4. Armed(RunSend(Unlinked, c, o))
    BY <2>3, SendOutcomeType, RunSendArmed
  <2> QED  BY <2>1, <2>2, <2>4, TaskHeard
<1>11. ASSUME NEW c \in Conn, TaskParse(c) PROVE EInv'
  <2> DEFINE p == Peer(c)
  <2>1. PICK f \in ForwardOutcome(w, p) :
          LET t == session_forward(session_fparse(Unlinked, c), p, f)
          IN  IF f \in {"noserver", "fail"} THEN Freed(session_free(t, c))
              ELSE \E o \in SendOutcome(t, p, Sockets(t, k)[p], SndBuf - sndq[p]) :
                     Ran(SentFor(t, c, o)) /\ Sent(t, p, o, SentFor(t, c, o))
    BY <1>11 DEF TaskParse
  <2> DEFINE t == session_forward(session_fparse(Unlinked, c), p, f)
  <2>2. Running(c, "PARSE")
    BY <1>11 DEF TaskParse
  <2>3. /\ Sound(Unlinked) /\ Unlinked.alive /\ ~task_in_queue(Unlinked, c)
        /\ Armed(Unlinked) /\ f \in {"noserver", "fail", "wait", "now"}
    BY <2>2, UnlinkedSound, UnlinkedArmed DEF ForwardOutcome
  <2>4. Sound(t) /\ t.alive /\ t.taskq = Unlinked.taskq /\ Armed(t)
    BY <2>3, ParsedSound, ParsedArmed
  <2>5. ~task_in_queue(t, c) /\ t \in Memory
    BY <2>3, <2>4 DEF task_in_queue, Sound
  <2> HIDE DEF t
  <2>6. CASE f \in {"noserver", "fail"}
    <3>1. Ran(session_free(t, c))
      BY <2>1, <2>6 DEF t, Freed
    <3>2. Armed(session_free(t, c))
      BY <2>4, <2>5, SessionFreeArmed
    <3> QED  BY <2>2, <3>1, <3>2, TaskHeard
  <2>7. CASE f \notin {"noserver", "fail"}
    <3>1. PICK o \in SendOutcome(t, p, Sockets(t, k)[p], SndBuf - sndq[p]) :
               Ran(SentFor(t, c, o))
      BY <2>1, <2>7 DEF t
    <3>2. o \in SendResult(t.out[p])
      BY SendOutcomeType
    <3>3. Armed(SentFor(t, c, o))
      BY <2>4, <2>5, <3>2, SentForArmed
    <3> QED  BY <2>2, <3>1, <3>3, TaskHeard
  <2> QED  BY <2>6, <2>7
<1>12. CASE UNCHANGED vars
  BY <1>12 DEF vars, EInv, Heard
<1> QED  BY <1>1, <1>2, <1>3, <1>4, <1>5, <1>6, <1>7, <1>8, <1>9, <1>10, <1>11, <1>12
         DEF Next, Worker

\* The inductive invariant of the registrations: a socket that has events has
\* a callback, only a blocked connection has the send callback, and neither a
\* callback nor a task takes away the callback of a socket whose event waits
\* in the batch of fd_epoll_poll.
THEOREM ArmedCorrect == Spec => []EInv
  BY SessionInv, InitHeard, NextHeard, PTL DEF Spec

\* Whatever the callbacks before it did, an event that fd_epoll_poll comes to
\* finds its socket open, a callback registered (without one the process
\* exits) and no task of the connection queued.
THEOREM EventStillValidCorrect == Spec => []EventStillValid
<1>1. IInv /\ EInv => EventStillValid
  <2> SUFFICES ASSUME IInv, EInv, NEW i \in 1..Len(batch), batch[i].fd # LFD
               PROVE  LET c == batch[i].fd
                      IN  w.fd[c] /\ w.cb[c] # "NULL" /\ ~task_in_queue(w, c)
    BY DEF EventStillValid
  <2>1. batch[i].fd \in Conn
    <3>1. batch[i] \in Event
      BY DEF IInv, TypeOK
    <3> QED  BY <3>1 DEF Event
  <2>2. w.fd[batch[i].fd] /\ ~task_in_queue(w, batch[i].fd)
    BY <2>1 DEF IInv, BatchOK
  <2>3. w.cb[batch[i].fd] # "NULL"
    BY <2>1 DEF EInv, Heard
  <2> QED  BY <2>2, <2>3
<1> QED  BY <1>1, SessionInv, ArmedCorrect, PTL

-----------------------------------------------------------------------------
(* Packets that follow each other.  FlattenSeq is a recursive function, so   *)
(* what it yields is shown by the least packet at which it would differ.    *)

\* The bytes after a up to b.
Run(a, b) == [i \in 1 .. b - a |-> a + i]

\* Packet i of q holds the bytes after off[i - 1] up to off[i].
Cuts(q, a, b, off) ==
  /\ off \in [0 .. Len(q) -> Nat] /\ off[0] = a /\ off[Len(q)] = b
  /\ \A i, j \in 0 .. Len(q) : i <= j => off[i] <= off[j]
  /\ \A i \in 1 .. Len(q) : q[i] = Run(off[i - 1], off[i])

\* The packets of q follow each other without a gap, from a to b.
Contig(q, a, b) == \E off : Cuts(q, a, b, off)

Below == {z \in Nat \X Nat : z[1] < z[2]}

LEMMA BelowWellFounded == IsWellFoundedOn(Below, Nat)
<1>1. IsWellFoundedOn(OpToRel(<, Nat), Nat)
  BY NatLessThanWellFounded
<1>2. Below \cap (Nat \X Nat) \subseteq OpToRel(<, Nat)
  BY DEF Below, OpToRel
<1> QED  BY <1>1, <1>2, IsWellFoundedOnSubrelation

\* The least element of a set of numbers: induction, as an argument about the
\* first place where a property fails.
LEMMA Least ==
  ASSUME NEW T, T \subseteq Nat, T # {}
  PROVE  \E n \in T : \A m \in T : n <= m
<1>1. PICK n \in T : \A m \in T : ~ (<<m, n>> \in Below)
  BY BelowWellFounded, WFMin
<1>2. ASSUME NEW m \in T, m < n PROVE FALSE
  <2>1. <<m, n>> \in Nat \X Nat /\ <<m, n>>[1] = m /\ <<m, n>>[2] = n
    OBVIOUS
  <2> QED  BY <1>1, <1>2, <2>1 DEF Below
<1>3. n \in Nat /\ \A m \in T : m \in Nat
  OBVIOUS
<1> QED  BY <1>2, <1>3

LEMMA RunType ==
  ASSUME NEW a \in Nat, NEW b \in Nat, a <= b
  PROVE  /\ Run(a, b) \in Seq(Nat) /\ Len(Run(a, b)) = b - a
         /\ \A i \in 1 .. b - a : Run(a, b)[i] = a + i
  BY DEF Run

LEMMA RunNone ==
  ASSUME NEW a \in Nat
  PROVE  Run(a, a) = <<>>
  BY DEF Run

LEMMA RunJoin ==
  ASSUME NEW a \in Nat, NEW b \in Nat, NEW c \in Nat, a <= b, b <= c
  PROVE  Run(a, b) \o Run(b, c) = Run(a, c)
<1> DEFINE r == Run(a, b)
           s == Run(b, c)
           t == Run(a, c)
<1>1. r \in Seq(Nat) /\ Len(r) = b - a /\ \A i \in 1 .. b - a : r[i] = a + i
  BY RunType
<1>2. s \in Seq(Nat) /\ Len(s) = c - b /\ \A i \in 1 .. c - b : s[i] = b + i
  BY RunType
<1>3. t \in Seq(Nat) /\ Len(t) = c - a /\ \A i \in 1 .. c - a : t[i] = a + i
  BY RunType
<1> HIDE DEF r, s, t
<1>4. /\ r \o s \in Seq(Nat) /\ Len(r \o s) = Len(r) + Len(s)
      /\ \A i \in 1 .. Len(r) + Len(s) : (r \o s)[i] =
                  IF i <= Len(r) THEN r[i] ELSE s[i - Len(r)]
  BY <1>1, <1>2, ConcatProperties
<1>5. Len(r) + Len(s) = c - a
  BY <1>1, <1>2
<1>6. \A i \in 1 .. c - a : (r \o s)[i] = t[i]
  <2> SUFFICES ASSUME NEW i \in 1 .. c - a PROVE (r \o s)[i] = a + i
    BY <1>3
  <2>1. CASE i <= b - a
    BY <1>1, <1>4, <1>5, <2>1
  <2>2. CASE ~(i <= b - a)
    <3>1. i - (b - a) \in 1 .. c - b /\ b + (i - (b - a)) = a + i
      BY <2>2
    <3> QED  BY <1>1, <1>2, <1>4, <1>5, <2>2, <3>1
  <2> QED  BY <2>1, <2>2
<1>7. r \o s = t
  BY <1>3, <1>4, <1>5, <1>6, SeqEqual
<1> QED  BY <1>7 DEF r, s, t

\* Joining packets that follow each other gives the bytes they cover: at the
\* first packet where that fails, it holds for the ones before.
LEMMA FlattenRun ==
  ASSUME NEW q \in Seq(Seq(Nat)), NEW a \in Nat, NEW b \in Nat, Contig(q, a, b)
  PROVE  FlattenSeq(q) = Run(a, b) /\ a <= b
<1>1. PICK off : Cuts(q, a, b, off)
  BY DEF Contig
<1> DEFINE n == Len(q)
<1>2. n \in Nat /\ off \in [0 .. n -> Nat] /\ off[0] = a /\ off[n] = b
  BY <1>1 DEF Cuts
<1>a. \A i, j \in 0 .. n : i <= j => off[i] <= off[j]
  BY <1>1 DEF Cuts
<1>b. \A i \in 1 .. n : q[i] = Run(off[i - 1], off[i])
  BY <1>1 DEF Cuts
<1>0. a <= b
  BY <1>2, <1>a
<1>3. CASE n = 0
  <2>1. a = b /\ q = <<>>
    BY <1>2, <1>3
  <2>2. FlattenSeq(q) = q
    BY <1>3 DEF FlattenSeq
  <2> QED  BY <1>0, <2>1, <2>2, RunNone
<1>4. CASE n # 0
  <2> DEFINE step(f) == [i \in 1 .. n |-> IF i = 1 THEN q[i] ELSE f[i - 1] \o q[i]]
             flatten == CHOOSE f : f = step(f)
             g == [i \in 1 .. n |-> Run(a, off[i])]
  <2>1. FlattenSeq(q) = flatten[n]
    BY <1>4 DEF FlattenSeq
  <2> HIDE DEF n
  <2>a. \A i \in 1 .. n : /\ a <= off[i] /\ off[i] \in Nat
                          /\ i - 1 \in 0 .. n /\ off[i - 1] \in Nat /\ a <= off[i - 1] /\ off[i - 1] <= off[i]
    BY <1>2, <1>a
  <2>2. g = step(g)
    <3>1. ASSUME NEW i \in 1 .. n, i # 1
          PROVE  Run(a, off[i]) = Run(a, off[i - 1]) \o q[i]
      <4>1. Run(a, off[i - 1]) \o Run(off[i - 1], off[i]) = Run(a, off[i])
        BY <2>a, RunJoin
      <4> QED  BY <1>b, <4>1
    <3>2. 1 \in 1 .. n /\ Run(a, off[1]) = q[1]
      BY <1>2, <1>4, <1>b
    <3>3. \A i \in 1 .. n : i # 1 => i - 1 \in 1 .. n
      BY <1>2
    <3> QED  BY <3>1, <3>2, <3>3
  <2>3. flatten = step(flatten)
    BY <2>2
  <2> HIDE DEF flatten
  <2>4. \A i \in 1 .. n : flatten[i] = IF i = 1 THEN q[i] ELSE flatten[i - 1] \o q[i]
    BY <2>3
  <2> DEFINE Bad == {i \in 1 .. n : flatten[i] # Run(a, off[i])}
  <2>5. Bad = {}
    <3> SUFFICES ASSUME Bad # {} PROVE FALSE
      OBVIOUS
    <3>0. Bad \subseteq Nat
      BY <1>2
    <3>1. PICK i \in Bad : \A j \in Bad : i <= j
      <4> HIDE DEF Bad
      <4> QED  BY <3>0, Least
    <3>2. i \in 1 .. n /\ flatten[i] # Run(a, off[i])
      OBVIOUS
    <3>3. CASE i = 1
      BY <1>2, <1>b, <2>4, <3>2, <3>3
    <3>4. CASE i # 1
      <4>1. i - 1 \in 1 .. n /\ ~(i <= i - 1)
        BY <1>2, <3>2, <3>4
      <4>2. flatten[i - 1] = Run(a, off[i - 1])
        BY <3>1, <4>1
      <4>3. Run(a, off[i - 1]) \o Run(off[i - 1], off[i]) = Run(a, off[i])
        BY <2>a, <3>2, RunJoin
      <4> QED  BY <1>b, <2>4, <3>2, <3>4, <4>2, <4>3
    <3> QED  BY <3>3, <3>4
  <2>6. n \in 1 .. n
    BY <1>2, <1>4
  <2> QED  BY <1>0, <1>2, <2>1, <2>5, <2>6
<1> QED  BY <1>3, <1>4

LEMMA ContigNone ==
  ASSUME NEW a \in Nat
  PROVE  Contig(<<>>, a, a)
<1>1. Cuts(<<>>, a, a, [i \in 0 .. 0 |-> a])
  BY DEF Cuts
<1> QED  BY <1>1 DEF Contig

LEMMA ContigOne ==
  ASSUME NEW a \in Nat, NEW b \in Nat, a <= b
  PROVE  Contig(<<Run(a, b)>>, a, b)
<1> DEFINE off == [i \in 0 .. 1 |-> IF i = 0 THEN a ELSE b]
           q == <<Run(a, b)>>
<1>1. Len(q) = 1 /\ q[1] = Run(a, b)
  OBVIOUS
<1> HIDE DEF q
<1>2. Cuts(q, a, b, off)
  BY <1>1 DEF Cuts
<1> QED  BY <1>2 DEF Contig, q

LEMMA ContigJoin ==
  ASSUME NEW q \in Seq(Seq(Nat)), NEW r \in Seq(Seq(Nat)), NEW a \in Nat, NEW b \in Nat, NEW c \in Nat,
         Contig(q, a, b), Contig(r, b, c)
  PROVE  Contig(q \o r, a, c)
<1>1. PICK f : Cuts(q, a, b, f)
  BY DEF Contig
<1>2. PICK g : Cuts(r, b, c, g)
  BY DEF Contig
<1> DEFINE m == Len(q)
           n == Len(r)
           t == q \o r
           h == [i \in 0 .. m + n |-> IF i <= m THEN f[i] ELSE g[i - m]]
<1>3. /\ m \in Nat /\ n \in Nat /\ Len(t) = m + n
      /\ \A i \in 1 .. m + n : t[i] = IF i <= m THEN q[i] ELSE r[i - m]
  BY ConcatProperties
<1>4. /\ f \in [0 .. m -> Nat] /\ f[0] = a /\ f[m] = b
      /\ \A i, j \in 0 .. m : i <= j => f[i] <= f[j]
      /\ \A i \in 1 .. m : q[i] = Run(f[i - 1], f[i])
  BY <1>1 DEF Cuts
<1>5. /\ g \in [0 .. n -> Nat] /\ g[0] = b /\ g[n] = c
      /\ \A i, j \in 0 .. n : i <= j => g[i] <= g[j]
      /\ \A i \in 1 .. n : r[i] = Run(g[i - 1], g[i])
  BY <1>2 DEF Cuts
<1> HIDE DEF m, n, t
<1>6. h \in [0 .. m + n -> Nat] /\ h[0] = a
  BY <1>3, <1>4, <1>5
<1>7. \A i \in 0 .. n : h[m + i] = g[i]
  BY <1>3, <1>4, <1>5
<1>8. \A i \in 0 .. m : h[i] = f[i]
  BY <1>3
<1> HIDE DEF h
<1>9. h[m + n] = c
  <2>1. n \in 0 .. n
    BY <1>3
  <2> QED  BY <1>5, <1>7, <2>1
<1>10. ASSUME NEW i \in 0 .. m + n, NEW j \in 0 .. m + n, i <= j
       PROVE  h[i] <= h[j]
  <2>1. CASE j <= m
    BY <1>3, <1>4, <1>8, <1>10, <2>1
  <2>2. CASE ~(i <= m)
    <3>1. i - m \in 0 .. n /\ j - m \in 0 .. n /\ i - m <= j - m /\ m + (i - m) = i /\ m + (j - m) = j
      BY <1>3, <1>10, <2>2
    <3>2. h[i] = g[i - m] /\ h[j] = g[j - m]
      BY <1>7, <3>1
    <3> QED  BY <1>5, <3>1, <3>2
  <2>3. CASE i <= m /\ ~(j <= m)
    <3>1. i \in 0 .. m /\ j - m \in 0 .. n /\ m + (j - m) = j /\ m \in 0 .. m /\ 0 \in 0 .. n /\ 0 <= j - m
      BY <1>3, <2>3
    <3>2. h[i] = f[i] /\ h[j] = g[j - m]
      BY <1>7, <1>8, <3>1
    <3>3. f[i] <= b /\ b <= g[j - m] /\ f[i] \in Nat /\ g[j - m] \in Nat
      BY <1>4, <1>5, <2>3, <3>1
    <3> QED  BY <3>2, <3>3
  <2> QED  BY <2>1, <2>2, <2>3
<1>11. ASSUME NEW i \in 1 .. m + n
       PROVE  t[i] = Run(h[i - 1], h[i])
  <2>1. CASE i <= m
    <3>1. i \in 1 .. m /\ i \in 0 .. m /\ i - 1 \in 0 .. m
      BY <1>3, <2>1
    <3> QED  BY <1>3, <1>4, <1>8, <2>1, <3>1
  <2>2. CASE ~(i <= m)
    <3>1. i - m \in 1 .. n /\ i - m \in 0 .. n /\ (i - m) - 1 \in 0 .. n
          /\ m + (i - m) = i /\ m + ((i - m) - 1) = i - 1
      BY <1>3, <2>2
    <3>2. h[i] = g[i - m] /\ h[i - 1] = g[(i - m) - 1]
      BY <1>7, <3>1
    <3>3. t[i] = r[i - m]
      BY <1>3, <2>2
    <3> QED  BY <1>5, <3>1, <3>2, <3>3
  <2> QED  BY <2>1, <2>2
<1>12. Cuts(t, a, c, h)
  BY <1>3, <1>6, <1>9, <1>10, <1>11 DEF Cuts
<1> QED  BY <1>12 DEF Contig, t

\* The packets that were sent whole, and the others.
LEMMA ContigSplit ==
  ASSUME NEW q \in Seq(Seq(Nat)), NEW a \in Nat, NEW b \in Nat, Contig(q, a, b),
         NEW z \in 0 .. Len(q)
  PROVE  \E m \in Nat : /\ a <= m /\ m <= b
                        /\ Contig(SubSeq(q, 1, z), a, m)
                        /\ Contig(SubSeq(q, z + 1, Len(q)), m, b)
<1>1. PICK f : Cuts(q, a, b, f)
  BY DEF Contig
<1> DEFINE n == Len(q)
           l == SubSeq(q, 1, z)
           r == SubSeq(q, z + 1, Len(q))
           fl == [i \in 0 .. z |-> f[i]]
           fr == [i \in 0 .. n - z |-> f[z + i]]
<1>2. /\ f \in [0 .. n -> Nat] /\ f[0] = a /\ f[n] = b
      /\ \A i, j \in 0 .. n : i <= j => f[i] <= f[j]
      /\ \A i \in 1 .. n : q[i] = Run(f[i - 1], f[i])
  BY <1>1 DEF Cuts
<1>3. /\ n \in Nat /\ z \in Nat /\ z <= n
      /\ Len(l) = z /\ (\A i \in 1 .. z : l[i] = q[i])
      /\ Len(r) = n - z /\ \A i \in 1 .. n - z : r[i] = q[z + i]
  <2>1. n \in Nat /\ z \in Nat /\ z <= n
    OBVIOUS
  <2>2. Len(l) = z /\ (\A i \in 1 .. z : l[i] = q[i])
    BY <2>1
  <2>3. Len(r) = n - z /\ \A i \in 1 .. n - z : r[i] = q[z + i]
    BY <2>1
  <2> QED  BY <2>1, <2>2, <2>3
<1> HIDE DEF n, l, r
<1>4. Cuts(l, a, f[z], fl)
  <2>1. fl \in [0 .. z -> Nat] /\ fl[0] = a /\ fl[z] = f[z]
    BY <1>2, <1>3
  <2>2. \A i, j \in 0 .. z : i <= j => fl[i] <= fl[j]
    BY <1>2, <1>3
  <2>3. ASSUME NEW i \in 1 .. z PROVE l[i] = Run(fl[i - 1], fl[i])
    <3>1. i \in 1 .. n /\ i - 1 \in 0 .. z /\ i \in 0 .. z
      BY <1>3
    <3> QED  BY <1>2, <1>3, <3>1
  <2> HIDE DEF fl
  <2> QED  BY <1>3, <2>1, <2>2, <2>3 DEF Cuts
<1>5. Cuts(r, f[z], b, fr)
  <2>1. fr \in [0 .. n - z -> Nat] /\ fr[0] = f[z] /\ fr[n - z] = b
    BY <1>2, <1>3
  <2>2. \A i, j \in 0 .. n - z : i <= j => fr[i] <= fr[j]
    BY <1>2, <1>3
  <2>3. ASSUME NEW i \in 1 .. n - z PROVE r[i] = Run(fr[i - 1], fr[i])
    <3>1. z + i \in 1 .. n /\ i - 1 \in 0 .. n - z /\ i \in 0 .. n - z /\ (z + i) - 1 = z + (i - 1)
      BY <1>3
    <3> QED  BY <1>2, <1>3, <3>1
  <2> HIDE DEF fr
  <2> QED  BY <1>3, <2>1, <2>2, <2>3 DEF Cuts
<1>6. f[z] \in Nat /\ a <= f[z] /\ f[z] <= b
  BY <1>2, <1>3
<1> QED  BY <1>4, <1>5, <1>6 DEF Contig, n, l, r

\* The first packet without its first m bytes.
LEMMA ContigAdvance ==
  ASSUME NEW q \in Seq(Seq(Nat)), NEW a \in Nat, NEW b \in Nat, Contig(q, a, b), q # <<>>,
         NEW m \in Nat, m <= Len(q[1])
  PROVE  /\ SubSeq(q[1], 1, m) = Run(a, a + m)
         /\ Contig([q EXCEPT ![1] = SubSeq(q[1], m + 1, Len(q[1]))], a + m, b)
         /\ a + m <= b
<1>1. PICK f : Cuts(q, a, b, f)
  BY DEF Contig
<1> DEFINE n == Len(q)
           p == q[1]
           t == [q EXCEPT ![1] = SubSeq(p, m + 1, Len(p))]
           c == f[1]
           g == [i \in 0 .. n |-> IF i = 0 THEN a + m ELSE f[i]]
<1>2. /\ f \in [0 .. n -> Nat] /\ f[0] = a /\ f[n] = b
      /\ \A i, j \in 0 .. n : i <= j => f[i] <= f[j]
      /\ \A i \in 1 .. n : q[i] = Run(f[i - 1], f[i])
  BY <1>1 DEF Cuts
<1>3. n \in Nat /\ n >= 1 /\ p \in Seq(Nat)
  OBVIOUS
<1>4. c \in Nat /\ a <= c /\ c <= b /\ p = Run(a, c)
  <2>1. 0 \in 0 .. n /\ 1 \in 0 .. n /\ n \in 0 .. n /\ 1 \in 1 .. n /\ 1 - 1 = 0
    BY <1>3
  <2>2. q[1] = Run(f[1 - 1], f[1])
    BY <1>2, <2>1
  <2>3. f[0] <= f[1] /\ f[1] <= f[n] /\ f[1] \in Nat
    <3>1. 0 <= 1 /\ 1 <= n
      BY <1>3
    <3> HIDE DEF n
    <3> QED  BY <1>2, <2>1, <3>1
  <2> QED  BY <1>2, <2>1, <2>2, <2>3
<1> HIDE DEF c
<1>5. Len(p) = c - a /\ \A i \in 1 .. c - a : p[i] = a + i
  <2>1. Len(Run(a, c)) = c - a /\ \A i \in 1 .. c - a : Run(a, c)[i] = a + i
    BY <1>4, RunType
  <2> QED  BY <1>4, <2>1
<1>6. a + m <= c /\ m <= Len(p)
  BY <1>4, <1>5
<1>7. Len(t) = n /\ t[1] = SubSeq(p, m + 1, Len(p)) /\ \A i \in 2 .. n : t[i] = q[i]
  BY <1>3
<1> HIDE DEF n, p, t
<1>8. SubSeq(p, 1, m) = Run(a, a + m)
  BY <1>3, <1>5, <1>6 DEF Run
<1>9. SubSeq(p, m + 1, Len(p)) = Run(a + m, c)
  <2> DEFINE u == SubSeq(p, m + 1, Len(p))
             v == Run(a + m, c)
             d == c - (a + m)
  <2>1. d \in Nat /\ Len(p) - m = d
    BY <1>4, <1>5, <1>6
  <2>2. u \in Seq(Nat) /\ Len(u) = d /\ \A i \in 1 .. d : u[i] = p[m + i]
    BY <1>3, <1>6, <2>1
  <2>3. v \in Seq(Nat) /\ Len(v) = d /\ \A i \in 1 .. d : v[i] = a + m + i
    <3> DEFINE e == a + m
    <3>1. e \in Nat /\ e <= c
      BY <1>6
    <3>2. \A i \in 1 .. d : e + i = a + m + i
      BY <1>4
    <3> HIDE DEF e
    <3>3. /\ Run(e, c) \in Seq(Nat) /\ Len(Run(e, c)) = c - e
          /\ \A i \in 1 .. c - e : Run(e, c)[i] = e + i
      BY <1>4, <3>1, RunType
    <3> QED  BY <3>2, <3>3 DEF e
  <2>4. \A i \in 1 .. d : p[m + i] = a + m + i
    BY <1>4, <1>5, <1>6
  <2> HIDE DEF u, v, d
  <2>5. u = v
    BY <2>2, <2>3, <2>4, SeqEqual
  <2> QED  BY <2>5 DEF u, v
<1>10. Cuts(t, a + m, b, g)
  <2>1. g \in [0 .. n -> Nat] /\ g[0] = a + m /\ g[n] = b
    BY <1>2, <1>3
  <2>2. \A i, j \in 0 .. n : i <= j => g[i] <= g[j]
    <3>1. \A j \in 1 .. n : a + m <= f[j] /\ f[j] \in Nat
      BY <1>2, <1>3, <1>4, <1>6 DEF c
    <3> QED  BY <1>2, <1>3, <3>1
  <2>3. ASSUME NEW i \in 1 .. n PROVE t[i] = Run(g[i - 1], g[i])
    <3>1. CASE i = 1
      <4>1. g[0] = a + m /\ g[1] = c /\ i - 1 = 0
        BY <1>3, <3>1 DEF c
      <4> QED  BY <1>7, <1>9, <3>1, <4>1
    <3>2. CASE i # 1
      <4>1. i \in 2 .. n /\ i - 1 # 0 /\ i - 1 \in 0 .. n /\ i \in 0 .. n /\ i # 0
        BY <1>3, <3>2
      <4> QED  BY <1>2, <1>7, <4>1
    <3> QED  BY <3>1, <3>2
  <2> HIDE DEF g
  <2> QED  BY <1>7, <2>1, <2>2, <2>3 DEF Cuts
<1>11. a + m <= b
  BY <1>4, <1>6
<1> QED  BY <1>8, <1>10, <1>11 DEF Contig, t, p

-----------------------------------------------------------------------------
(* The bytes of the packets in a queue.                                    *)

\* What each packet of q has still to send.
Unsents(q) == [i \in 1..Len(q) |-> Unsent(q[i])]

LEMMA SubSeqNat ==
  ASSUME NEW d \in Seq(Nat), NEW a \in Nat
  PROVE  /\ SubSeq(d, a + 1, Len(d)) \in Seq(Nat)
         /\ a <= Len(d) => Len(SubSeq(d, a + 1, Len(d))) = Len(d) - a
         /\ Len(d) < a => SubSeq(d, a + 1, Len(d)) = <<>>
  OBVIOUS

LEMMA SubSeqAt ==
  ASSUME NEW S, NEW d \in Seq(S), NEW a \in Nat, a <= Len(d), NEW n, n = Len(d) - a
  PROVE  /\ SubSeq(d, a + 1, Len(d)) \in Seq(S) /\ n \in Nat
         /\ Len(SubSeq(d, a + 1, Len(d))) = n
         /\ \A i \in 1..n : SubSeq(d, a + 1, Len(d))[i] = d[a + i]
  OBVIOUS

LEMMA UnsentType ==
  ASSUME NEW p \in Packet
  PROVE  Unsent(p) \in Seq(Nat)
  BY SubSeqNat DEF Unsent, Packet

LEMMA UnsentsType ==
  ASSUME NEW q \in Seq(Packet)
  PROVE  /\ Unsents(q) \in Seq(Seq(Nat)) /\ Len(Unsents(q)) = Len(q)
         /\ \A i \in 1..Len(q) : Unsents(q)[i] = Unsent(q[i])
<1>1. Len(q) \in Nat /\ \A i \in 1..Len(q) : Unsent(q[i]) \in Seq(Nat)
  BY UnsentType
<1> QED  BY <1>1 DEF Unsents

LEMMA UnsentsNone == Unsents(<<>>) = <<>>
  BY DEF Unsents

LEMMA UnsentsJoin ==
  ASSUME NEW q \in Seq(Packet), NEW r \in Seq(Packet)
  PROVE  Unsents(q \o r) = Unsents(q) \o Unsents(r)
<1> DEFINE a == Unsents(q)
           b == Unsents(r)
           t == q \o r
           u == Unsents(t)
           v == a \o b
<1>1. /\ a \in Seq(Seq(Nat)) /\ Len(a) = Len(q) /\ \A i \in 1..Len(q) : a[i] = Unsent(q[i])
      /\ b \in Seq(Seq(Nat)) /\ Len(b) = Len(r) /\ \A i \in 1..Len(r) : b[i] = Unsent(r[i])
  BY UnsentsType
<1>2. /\ t \in Seq(Packet) /\ Len(t) = Len(q) + Len(r)
      /\ \A i \in 1..Len(q) + Len(r) : t[i] = IF i <= Len(q) THEN q[i] ELSE r[i - Len(q)]
  BY ConcatProperties
<1>3. /\ u \in Seq(Seq(Nat)) /\ Len(u) = Len(t) /\ \A i \in 1..Len(t) : u[i] = Unsent(t[i])
  <2> HIDE DEF t
  <2> QED  BY <1>2, UnsentsType
<1> HIDE DEF a, b, t, u
<1>5. Len(q) \in Nat /\ Len(r) \in Nat
  OBVIOUS
<1>4. /\ v \in Seq(Seq(Nat)) /\ Len(v) = Len(q) + Len(r)
      /\ \A i \in 1..Len(q) + Len(r) : v[i] = IF i <= Len(q) THEN a[i] ELSE b[i - Len(q)]
  <2>1. /\ v \in Seq(Seq(Nat)) /\ Len(v) = Len(a) + Len(b)
        /\ \A i \in 1..Len(a) + Len(b) : v[i] = IF i <= Len(a) THEN a[i] ELSE b[i - Len(a)]
    <3>1. a \in Seq(Seq(Nat)) /\ b \in Seq(Seq(Nat))
      BY <1>1
    <3> QED  BY <3>1, ConcatProperties
  <2> HIDE DEF v
  <2> QED  BY <1>1, <2>1
<1> HIDE DEF v
<1>6. \A i \in 1..Len(u) : u[i] = v[i]
  <2> SUFFICES ASSUME NEW i \in 1..Len(q) + Len(r) PROVE u[i] = v[i]
    BY <1>2, <1>3
  <2>1. CASE i <= Len(q)
    <3>1. i \in 1..Len(q)
      BY <1>5, <2>1
    <3> QED  BY <1>1, <1>2, <1>3, <1>4, <2>1, <3>1
  <2>2. CASE ~(i <= Len(q))
    <3>1. i - Len(q) \in 1..Len(r)
      BY <1>5, <2>2
    <3> QED  BY <1>1, <1>2, <1>3, <1>4, <2>2, <3>1
  <2> QED  BY <2>1, <2>2
<1> QED  BY <1>2, <1>3, <1>4, <1>6, SeqEqual DEF u, v, a, b, t

\* The packets after the first z.
LEMMA UnsentsRest ==
  ASSUME NEW q \in Seq(Packet), NEW z \in 0..Len(q)
  PROVE  /\ Unsents(SubSeq(q, z + 1, Len(q))) = SubSeq(Unsents(q), z + 1, Len(Unsents(q)))
         /\ UnsentOf(q, z) = FlattenSeq(SubSeq(Unsents(q), 1, z))
<1> DEFINE a == Unsents(q)
           t == SubSeq(q, z + 1, Len(q))
           u == Unsents(t)
           v == SubSeq(a, z + 1, Len(a))
           n == Len(q) - z
           f == [i \in 1..z |-> Unsent(q[i])]
           g == SubSeq(a, 1, z)
<1>1. /\ a \in Seq(Seq(Nat)) /\ Len(a) = Len(q) /\ \A i \in 1..Len(q) : a[i] = Unsent(q[i])
  BY UnsentsType
<1>2. z \in Nat /\ n \in Nat /\ Len(q) \in Nat /\ z <= Len(q)
  OBVIOUS
<1>3. t \in Seq(Packet) /\ Len(t) = n /\ \A i \in 1..n : t[i] = q[z + i]
  BY <1>2
<1>4. u \in Seq(Seq(Nat)) /\ Len(u) = n /\ \A i \in 1..n : u[i] = Unsent(t[i])
  <2> HIDE DEF t, n
  <2> QED  BY <1>3, UnsentsType
<1> HIDE DEF a, t, u
<1>5. v \in Seq(Seq(Nat)) /\ Len(v) = n /\ \A i \in 1..n : v[i] = a[z + i]
  BY <1>1, <1>2
<1> HIDE DEF v
<1>6. \A i \in 1..n : u[i] = v[i]
  <2> SUFFICES ASSUME NEW i \in 1..n PROVE u[i] = v[i]
    OBVIOUS
  <2>1. z + i \in 1..Len(q)
    BY <1>2
  <2> QED  BY <1>1, <1>3, <1>4, <1>5, <2>1
<1>7. u = v
  BY <1>4, <1>5, <1>6, SeqEqual
<1>8. f = g
  <2>1. g \in Seq(Seq(Nat)) /\ Len(g) = z /\ \A i \in 1..z : g[i] = a[i]
    BY <1>1, <1>2
  <2>2. f \in Seq(Seq(Nat)) /\ Len(f) = z /\ \A i \in 1..z : f[i] = Unsent(q[i])
    <3>1. \A i \in 1..z : q[i] \in Packet
      BY <1>2
    <3>3. \A i \in 1..z : Unsent(q[i]) \in Seq(Nat)
      BY <3>1, UnsentType
    <3> QED  BY <1>2, <3>3
  <2> HIDE DEF f, g
  <2>3. ASSUME NEW i \in 1..z PROVE f[i] = g[i]
    <3>1. i \in 1..Len(q)
      BY <1>2
    <3>2. a[i] = Unsent(q[i])
      BY <1>1, <3>1
    <3> QED  BY <2>1, <2>2, <3>2
  <2> QED  BY <2>1, <2>2, <2>3, SeqEqual
<1>9. UnsentOf(q, z) = FlattenSeq(f)
  BY Zenon DEF UnsentOf
<1> QED  BY <1>7, <1>8, <1>9, Zenon DEF u, t, v, a

\* Bytes that are sent move on sendpos.
LEMMA UnsentAdvance ==
  ASSUME NEW p \in Packet, NEW m \in Nat, m <= Len(Unsent(p)), 0 < m
  PROVE  Unsent([p EXCEPT !.sendpos = @ + m]) = SubSeq(Unsent(p), m + 1, Len(Unsent(p)))
<1> DEFINE d == p.data
           a == p.sendpos
           u == SubSeq(d, a + 1, Len(d))
           x == [p EXCEPT !.sendpos = @ + m]
           b == a + m
           v == SubSeq(d, b + 1, Len(d))
           y == SubSeq(u, m + 1, Len(u))
<1>1. d \in Seq(Nat) /\ a \in Nat /\ b \in Nat /\ Len(d) \in Nat
  BY DEF Packet
<1>2. x.data = d /\ x.sendpos = b
  BY DEF Packet
<1>3. Unsent(p) = u /\ Unsent(x) = v
  BY <1>2 DEF Unsent
<1>4. a < Len(d) /\ Len(u) = Len(d) - a /\ u \in Seq(Nat)
  <2> HIDE DEF d, a, u
  <2>1. u \in Seq(Nat) /\ (a <= Len(d) => Len(u) = Len(d) - a) /\ (Len(d) < a => u = <<>>)
    BY <1>1, SubSeqNat DEF u
  <2>2. Len(u) > 0
    BY <1>3, <2>1
  <2> QED  BY <1>1, <2>1, <2>2
<1>5. m <= Len(u)
  BY <1>3
<1> HIDE DEF d, a, x
<1>6. \A i \in 1..Len(u) : u[i] = d[a + i]
  BY <1>1, <1>4
<1> DEFINE n == Len(d) - b
<1>7. n \in Nat /\ Len(u) - m = n
  BY <1>1, <1>4, <1>5
<1>8. v \in Seq(Nat) /\ Len(v) = n /\ \A i \in 1..n : v[i] = d[b + i]
  <2> HIDE DEF b
  <2> QED  BY <1>1, <1>7
<1> HIDE DEF u
<1>9. y \in Seq(Nat) /\ Len(y) = n /\ \A i \in 1..n : y[i] = u[m + i]
  <2>1. n = Len(u) - m
    BY <1>7
  <2> HIDE DEF n
  <2>2. u \in Seq(Nat)
    BY <1>4
  <2>3. /\ SubSeq(u, m + 1, Len(u)) \in Seq(Nat) /\ Len(SubSeq(u, m + 1, Len(u))) = n
        /\ \A i \in 1..n : SubSeq(u, m + 1, Len(u))[i] = u[m + i]
    BY <1>5, <2>1, <2>2, SubSeqAt
  <2> QED  BY <2>3
<1>10. \A i \in 1..n : v[i] = y[i]
  <2> SUFFICES ASSUME NEW i \in 1..n PROVE v[i] = y[i]
    OBVIOUS
  <2>1. m + i \in 1..Len(u) /\ b + i = a + (m + i)
    BY <1>1, <1>4, <1>7
  <2> HIDE DEF n, v, y, b
  <2> QED  BY <1>6, <1>8, <1>9, <2>1
<1> HIDE DEF n, v, y
<1>11. v = y
  BY <1>8, <1>9, <1>10, SeqEqual
<1> QED  BY <1>3, <1>11 DEF x, y

-----------------------------------------------------------------------------
(* Sending moves bytes from a queue to the kernel.                         *)

\* How far a pass of conn_send_data gets.
LEMMA SendFacts ==
  ASSUME NEW s \in Memory, NEW c \in Conn, NEW kc, NEW free \in Int,
         NEW o \in SendOutcome(s, c, kc, free)
  PROVE  LET q == s.out[c]
         IN  /\ o.full \in 0..Len(q) /\ o.part \in Nat
             /\ o.part # 0 => o.full < Len(q) /\ o.part <= Len(Unsent(q[o.full + 1]))
             /\ InHandshake(s, c) \/ "SHUTWR" \in s.flags[c] \/ ~SockOpen(kc)
                  => o.full = 0 /\ o.part = 0
             /\ o.end = "all" /\ ~InHandshake(s, c) => o.full = Len(q) /\ o.part = 0
             /\ o.end \in {"all", "part", "err"}
<1> DEFINE q == s.out[c]
           left == free - o.bytes + o.part
<1>1. q \in Seq(Packet) /\ Len(q) \in Nat
  BY DEF Memory
<1>2. /\ o.full \in 0..Len(q) /\ o.part \in Nat /\ o.bytes \in Nat
      /\ o.end \in {"all", "part", "err"}
  BY SessionAssumption DEF SendOutcome, SendResult
<1>3. IF InHandshake(s, c) \/ q = <<>>
      THEN o.full = 0 /\ o.part = 0 /\ o.end = "all"
      ELSE IF ~SockOpen(kc) \/ "SHUTWR" \in s.flags[c]
      THEN o.full = 0 /\ o.part = 0 /\ o.end = "err"
      ELSE IF o.full = Len(q) THEN o.part = 0 /\ o.end = "all"
           ELSE StopsAt(s, c, q[o.full + 1], left, o)
  BY DEF SendOutcome
<1>4. left \in Int
  BY <1>2
<1> HIDE DEF q, left
<1>5. ASSUME o.full # Len(q), StopsAt(s, c, q[o.full + 1], left, o)
      PROVE  /\ o.part # 0 => o.full < Len(q) /\ o.part <= Len(Unsent(q[o.full + 1]))
             /\ o.end # "all"
  <2>1. o.full + 1 \in 1..Len(q) /\ o.full < Len(q)
    BY <1>1, <1>2, <1>5
  <2> DEFINE n == Len(Unsent(q[o.full + 1]))
  <2>2. n \in Nat
    BY <1>1, <2>1, UnsentType
  <2>3. /\ n = 0 \/ n > left
        /\ IF n = 0 THEN o.part = 0 /\ o.end = "err"
           ELSE IF s.ssl[c] # "NULL" THEN o.part = 0 /\ o.end = "part"
           ELSE o.part = left /\ o.end = IF left = 0 THEN "err" ELSE "part"
    BY <1>5 DEF StopsAt
  <2> HIDE DEF n
  <2>4. (o.part # 0 => o.part <= n) /\ o.end # "all"
    BY <1>4, <2>2, <2>3
  <2> QED  BY <2>1, <2>4 DEF n
<1>6. q = <<>> => Len(q) = 0
  OBVIOUS
<1>7. CASE InHandshake(s, c) \/ q = <<>>
  BY <1>2, <1>3, <1>6, <1>7 DEF q
<1>8. CASE ~(InHandshake(s, c) \/ q = <<>>) /\ (~SockOpen(kc) \/ "SHUTWR" \in s.flags[c])
  BY <1>2, <1>3, <1>8 DEF q
<1>9. CASE ~(InHandshake(s, c) \/ q = <<>>) /\ ~(~SockOpen(kc) \/ "SHUTWR" \in s.flags[c])
  <2>1. CASE o.full = Len(q)
    BY <1>2, <1>3, <1>9, <2>1 DEF q
  <2>2. CASE o.full # Len(q)
    BY <1>2, <1>3, <1>5, <1>9, <2>2 DEF q
  <2> QED  BY <2>1, <2>2
<1> QED  BY <1>7, <1>8, <1>9

\* The packets that are left when the first z are gone and m bytes of the next.
LEMMA ContigConsumed ==
  ASSUME NEW q \in Seq(Packet), NEW a \in Nat, NEW b \in Nat, Contig(Unsents(q), a, b),
         NEW z \in 0..Len(q), NEW n \in Nat,
         n # 0 => z < Len(q) /\ n <= Len(Unsent(q[z + 1]))
  PROVE  LET h == SubSeq(q, z + 1, Len(q))
             d == IF n = 0 THEN <<>> ELSE SubSeq(Unsent(q[z + 1]), 1, n)
             v == IF n = 0 THEN h ELSE [h EXCEPT ![1].sendpos = @ + n]
         IN  \E m \in a..b : /\ UnsentOf(q, z) \o d = Run(a, m)
                             /\ Contig(Unsents(v), m, b)
<1> DEFINE u == Unsents(q)
           h == SubSeq(q, z + 1, Len(q))
           l == SubSeq(u, 1, z)
           r == SubSeq(u, z + 1, Len(u))
<1>1. u \in Seq(Seq(Nat)) /\ Len(u) = Len(q) /\ \A i \in 1..Len(q) : u[i] = Unsent(q[i])
  BY UnsentsType
<1>2. Unsents(h) = r /\ UnsentOf(q, z) = FlattenSeq(l)
  BY UnsentsRest
<1>3. z \in Nat /\ Len(q) \in Nat /\ z <= Len(q) /\ z \in 0..Len(u)
  BY <1>1
<1>4. /\ h \in Seq(Packet) /\ Len(h) = Len(q) - z
      /\ \A i \in 1..(Len(q) - z) : h[i] = q[z + i]
  BY <1>3
<1>5. l \in Seq(Seq(Nat)) /\ r \in Seq(Seq(Nat)) /\ Len(r) = Len(q) - z
  <2> HIDE DEF u
  <2> QED  BY <1>1, <1>3
<1>6. PICK e \in Nat : a <= e /\ e <= b /\ Contig(l, a, e) /\ Contig(r, e, b)
  <2>1. Contig(u, a, b)
    OBVIOUS
  <2> HIDE DEF u
  <2> QED  BY <1>1, <1>3, <2>1, ContigSplit
<1> HIDE DEF u, h, l, r
<1>7. UnsentOf(q, z) = Run(a, e)
  BY <1>2, <1>5, <1>6, FlattenRun
<1>8. CASE n = 0
  <2>1. e \in a..b /\ Contig(Unsents(h), e, b)
    BY <1>2, <1>6
  <2>2. Run(a, e) \o <<>> = Run(a, e)
    BY <1>6, RunType
  <2> QED  BY <1>7, <1>8, <2>1, <2>2 DEF h
<1>9. CASE n # 0
  <2> DEFINE x == h[1]
             y == [x EXCEPT !.sendpos = @ + n]
             v == [h EXCEPT ![1] = y]
             f == e + n
  <2>1. z < Len(q) /\ n <= Len(Unsent(q[z + 1])) /\ 1 \in 1..(Len(q) - z)
    BY <1>3, <1>9
  <2>2. x = q[z + 1] /\ x \in Packet /\ h # <<>> /\ 1 \in 1..Len(h)
    BY <1>4, <2>1
  <2> HIDE DEF x
  <2>3. Unsent(y) = SubSeq(Unsent(x), n + 1, Len(Unsent(x)))
    <3>1. n <= Len(Unsent(x)) /\ 0 < n /\ x \in Packet
      BY <1>9, <2>1, <2>2
    <3> QED  BY <3>1, UnsentAdvance
  <2>4. r[1] = Unsent(x) /\ r # <<>> /\ n <= Len(r[1])
    <3>1. /\ Unsents(h) \in Seq(Seq(Nat)) /\ Len(Unsents(h)) = Len(h)
          /\ \A i \in 1..Len(h) : Unsents(h)[i] = Unsent(h[i])
      BY <1>4, UnsentsType
    <3>2. r[1] = Unsent(h[1])
      BY <1>2, <2>2, <3>1
    <3>3. Len(r) # 0
      BY <1>5, <2>1, <1>3
    <3>4. n <= Len(Unsent(x)) /\ r[1] = Unsent(x)
      BY <2>1, <2>2, <3>2 DEF x
    <3>5. r # <<>>
      BY <3>3
    <3> QED  BY <3>4, <3>5
  <2>5. /\ SubSeq(r[1], 1, n) = Run(e, e + n)
        /\ Contig([r EXCEPT ![1] = SubSeq(r[1], n + 1, Len(r[1]))], e + n, b)
        /\ e + n <= b
    BY <1>5, <1>6, <2>4, ContigAdvance
  <2>6. y \in Packet
    <3>1. x.sendpos + n \in Nat
      BY <2>2 DEF Packet
    <3> QED  BY <2>2, <3>1 DEF Packet
  <2> HIDE DEF y
  <2>7. v \in Seq(Packet) /\ Len(v) = Len(h) /\ v[1] = y /\ \A i \in 2..Len(h) : v[i] = h[i]
    BY <1>4, <2>2, <2>6
  <2> HIDE DEF v
  <2>8. Unsents(v) = [r EXCEPT ![1] = SubSeq(r[1], n + 1, Len(r[1]))]
    <3> DEFINE t == [r EXCEPT ![1] = SubSeq(r[1], n + 1, Len(r[1]))]
    <3>0. r \in Seq(Seq(Nat)) /\ Len(r) = Len(h) /\ SubSeq(r[1], n + 1, Len(r[1])) \in Seq(Nat)
      <4>1. r[1] \in Seq(Nat)
        BY <2>2, <2>4, UnsentType
      <4> QED  BY <1>4, <1>5, <4>1, SubSeqNat
    <3>1. /\ t \in Seq(Seq(Nat)) /\ Len(t) = Len(h) /\ t[1] = SubSeq(r[1], n + 1, Len(r[1]))
          /\ \A i \in 2..Len(h) : t[i] = r[i]
      BY <2>2, <3>0
    <3> HIDE DEF t
    <3>2. /\ Unsents(v) \in Seq(Seq(Nat)) /\ Len(Unsents(v)) = Len(v)
          /\ \A i \in 1..Len(v) : Unsents(v)[i] = Unsent(v[i])
      BY <2>7, UnsentsType
    <3>3. \A i \in 1..Len(h) : r[i] = Unsent(h[i])
      BY <1>2, <1>4, UnsentsType
    <3>4. ASSUME NEW i \in 1..Len(h) PROVE Unsents(v)[i] = t[i]
      <4>1. CASE i = 1
        BY <2>3, <2>4, <2>7, <3>1, <3>2, <4>1
      <4>2. CASE i # 1
        <5>1. i \in 2..Len(h)
          BY <1>4, <4>2
        <5> QED  BY <2>7, <3>1, <3>2, <3>3, <5>1
      <4> QED  BY <4>1, <4>2
    <3>5. Unsents(v) = t
      BY <2>7, <3>1, <3>2, <3>4, SeqEqual
    <3> QED  BY <3>5 DEF t
  <2>9. Run(a, e) \o Run(e, e + n) = Run(a, e + n)
    <3>1. e + n \in Nat /\ e <= e + n
      OBVIOUS
    <3> DEFINE ee == e + n
    <3> HIDE DEF ee
    <3>2. Run(a, e) \o Run(e, ee) = Run(a, ee)
      BY <1>6, <3>1, RunJoin DEF ee
    <3> QED  BY <3>2 DEF ee
  <2>10. e + n \in a..b
    BY <1>6, <2>5
  <2>11. [h EXCEPT ![1].sendpos = @ + n] = v
    BY <2>2 DEF v, y, x
  <2>12. Contig(Unsents(v), e + n, b)
    BY <2>5, <2>8
  <2>13. SubSeq(Unsent(q[z + 1]), 1, n) = Run(e, e + n)
    BY <2>2, <2>4, <2>5
  <2> QED  BY <1>7, <1>9, <2>9, <2>10, <2>11, <2>12, <2>13 DEF h
<1> QED  BY <1>8, <1>9

-----------------------------------------------------------------------------
(* Receiving moves bytes from the kernel to a queue.                       *)

LEMMA RunPiece ==
  ASSUME NEW a \in Nat, NEW b \in Nat, NEW l \in Nat, NEW h \in Nat, a <= l, l <= h, h <= b
  PROVE  SubSeq(Run(a, b), l - a + 1, h - a) = Run(l, h)
<1> DEFINE d == Run(a, b)
           x == l - a
           y == h - a
           u == SubSeq(d, x + 1, y)
           v == Run(l, h)
           n == h - l
<1>1. d \in Seq(Nat) /\ Len(d) = b - a /\ \A i \in 1..b - a : d[i] = a + i
  BY RunType
<1>2. n \in Nat /\ x \in Nat /\ y \in Nat /\ y - x = n /\ y <= b - a
  OBVIOUS
<1> HIDE DEF d, x, y
<1>3. u \in Seq(Nat) /\ Len(u) = n /\ \A i \in 1..n : u[i] = d[x + i]
  BY <1>1, <1>2
<1>4. v \in Seq(Nat) /\ Len(v) = h - l /\ \A i \in 1..h - l : v[i] = l + i
  BY RunType
<1>5. ASSUME NEW i \in 1..n PROVE u[i] = v[i]
  <2>1. x + i \in 1..b - a /\ a + (x + i) = l + i
    BY <1>2 DEF x, y
  <2> QED  BY <1>1, <1>2, <1>3, <1>4, <2>1
<1> HIDE DEF u, v, n
<1>6. u = v
  BY <1>2, <1>3, <1>4, <1>5, SeqEqual DEF n
<1> QED  BY <1>6 DEF u, v, d, x, y

\* A fresh packet has all its data to send.
LEMMA UnsentFresh ==
  ASSUME NEW d \in Seq(Nat)
  PROVE  Unsent([data |-> d, sendpos |-> 0]) = d
<1>1. SubSeq(d, 1, Len(d)) = d
  OBVIOUS
<1> QED  BY <1>1 DEF Unsent

LEMMA ContigSingle ==
  ASSUME NEW q \in Seq(Packet), Len(q) = 1, NEW a \in Nat, NEW b \in Nat, a <= b,
         Unsent(q[1]) = Run(a, b)
  PROVE  Contig(Unsents(q), a, b)
<1> DEFINE u == Unsents(q)
           off == [i \in 0 .. 1 |-> IF i = 0 THEN a ELSE b]
<1>1. u \in Seq(Seq(Nat)) /\ Len(u) = 1 /\ u[1] = Run(a, b)
  BY UnsentsType
<1> HIDE DEF u
<1>2. Cuts(u, a, b, off)
  BY <1>1 DEF Cuts
<1> QED  BY <1>2 DEF Contig, u

LEMMA ChunksContig ==
  ASSUME NEW a \in Nat, NEW b \in Nat, a <= b, NEW n \in Nat \ {0},
         n = 1 \/ (n - 1) * PktMax < b - a
  PROVE  Contig(Unsents(Chunks(Run(a, b), n)), a, b)
<1> DEFINE d == Run(a, b)
           q == Chunks(d, n)
           u == Unsents(q)
           off == [i \in 0..n |-> IF i = n THEN b ELSE a + i * PktMax]
<1>1. d \in Seq(Nat) /\ Len(d) = b - a /\ PktMax \in Nat \ {0}
  BY RunType, SessionAssumption
<1>2. q \in Seq(Packet) /\ Len(q) = n
  <2> HIDE DEF d
  <2> QED  BY <1>1, ChunksType
<1>3. u \in Seq(Seq(Nat)) /\ Len(u) = n /\ \A i \in 1..n : u[i] = Unsent(q[i])
  <2> HIDE DEF q
  <2> QED  BY <1>2, UnsentsType
<1>4. \A i \in 1..n : q[i] = [data |-> SubSeq(d, (i - 1) * PktMax + 1,
                                              IF i = n THEN Len(d) ELSE i * PktMax),
                              sendpos |-> 0]
  BY DEF Chunks
<1> HIDE DEF d, q, u
<1>5. \A i \in 0..n - 1 : i * PktMax \in Nat /\ i * PktMax <= b - a
  <2> SUFFICES ASSUME NEW i \in 0..n - 1 PROVE i * PktMax \in Nat /\ i * PktMax <= b - a
    OBVIOUS
  <2>1. i * PktMax \in Nat /\ i * PktMax <= (n - 1) * PktMax /\ (n - 1) * PktMax \in Nat
    BY <1>1
  <2>2. n = 1 => (n - 1) * PktMax = 0
    BY <1>1
  <2> QED  BY <2>1, <2>2
<1>6. /\ off \in [0..n -> Nat] /\ off[n] = b
      /\ \A i \in 0..n : off[i] <= b
      /\ \A i \in 0..n - 1 : off[i] = a + i * PktMax
  BY <1>5
<1>7. off[0] = a
  <2>1. 0 \in 0..n - 1 /\ 0 * PktMax = 0
    BY <1>1
  <2> HIDE DEF off
  <2> QED  BY <1>6, <2>1
<1> HIDE DEF off
<1>8. ASSUME NEW i \in 0..n, NEW j \in 0..n, i <= j
      PROVE  off[i] <= off[j]
  <2>1. CASE j = n
    BY <1>6, <2>1
  <2>2. CASE j # n
    <3>1. i \in 0..n - 1 /\ j \in 0..n - 1
      BY <1>8, <2>2
    <3>2. i * PktMax <= j * PktMax
      BY <1>1, <1>8
    <3>3. i * PktMax \in Nat /\ j * PktMax \in Nat
      BY <1>5, <3>1
    <3> QED  BY <1>6, <3>1, <3>2, <3>3
  <2> QED  BY <2>1, <2>2
<1>9. ASSUME NEW i \in 1..n
      PROVE  u[i] = Run(off[i - 1], off[i])
  <2> DEFINE x == (i - 1) * PktMax
             y == IF i = n THEN b - a ELSE i * PktMax
             p == SubSeq(d, x + 1, y)
  <2>1. i - 1 \in 0..n - 1 /\ i - 1 \in 0..n /\ i \in 0..n /\ i - 1 <= i /\ (i # n => i \in 0..n - 1)
    OBVIOUS
  <2>2. x \in Nat /\ y \in Nat /\ y <= b - a /\ off[i - 1] = a + x /\ off[i] = a + y
    BY <1>5, <1>6, <2>1
  <2>3. x <= y
    <3>1. off[i - 1] <= off[i]
      BY <1>8, <2>1
    <3> HIDE DEF x, y
    <3> QED  BY <2>2, <3>1
  <2>4. q[i] = [data |-> p, sendpos |-> 0]
    BY <1>1, <1>4
  <2> HIDE DEF x, y
  <2>5. p = Run(off[i - 1], off[i]) /\ p \in Seq(Nat)
    <3> DEFINE l == off[i - 1]
               h == off[i]
    <3>1. l \in Nat /\ h \in Nat /\ a <= l /\ l <= h /\ h <= b /\ x = l - a /\ y = h - a
      BY <2>2, <2>3
    <3> HIDE DEF l, h
    <3>2. SubSeq(Run(a, b), l - a + 1, h - a) = Run(l, h)
      BY <3>1, RunPiece
    <3>3. Run(l, h) \in Seq(Nat)
      BY <3>1, RunType
    <3> QED  BY <3>1, <3>2, <3>3 DEF d, l, h
  <2> HIDE DEF p
  <2>7. Unsent(q[i]) = p
    BY <2>4, <2>5, UnsentFresh
  <2> QED  BY <1>3, <2>2, <2>5, <2>7
<1>10. Cuts(u, a, b, off)
  BY <1>3, <1>6, <1>7, <1>8, <1>9 DEF Cuts
<1> QED  BY <1>10 DEF Contig, u, q, d

\* A packet without bytes at the end may go.
LEMMA ContigDrop ==
  ASSUME NEW q \in Seq(Packet), NEW a \in Nat, NEW b \in Nat, Contig(Unsents(q), a, b),
         q # <<>>, q[Len(q)].data = <<>>
  PROVE  Contig(Unsents(SubSeq(q, 1, Len(q) - 1)), a, b)
<1> DEFINE u == Unsents(q)
           z == Len(q) - 1
           h == SubSeq(q, 1, z)
           v == Unsents(h)
           l == SubSeq(u, 1, z)
<1>1. PICK f : Cuts(u, a, b, f)
  BY DEF Contig
<1>2. u \in Seq(Seq(Nat)) /\ Len(u) = Len(q) /\ \A i \in 1..Len(q) : u[i] = Unsent(q[i])
  BY UnsentsType
<1>3. z \in Nat /\ Len(q) = z + 1 /\ Len(q) \in 1..Len(q)
  OBVIOUS
<1>4. Unsent(q[Len(q)]) = <<>>
  <2>1. q[Len(q)] \in Packet
    BY <1>3
  <2>2. q[Len(q)].sendpos \in Nat
    BY <2>1 DEF Packet
  <2>3. \A m \in Nat : SubSeq(<<>>, m + 1, Len(<<>>)) = <<>>
    OBVIOUS
  <2> QED  BY <2>2, <2>3 DEF Unsent
<1> HIDE DEF u, z
<1>5. /\ f \in [0..z + 1 -> Nat] /\ f[0] = a /\ f[z + 1] = b
      /\ (\A i, j \in 0..z + 1 : i <= j => f[i] <= f[j])
      /\ (\A i \in 1..z + 1 : u[i] = Run(f[i - 1], f[i]))
  BY <1>1, <1>2, <1>3 DEF Cuts
<1>6. f[z] = b
  <2>1. z \in 0..z + 1 /\ z + 1 \in 0..z + 1 /\ z + 1 \in 1..z + 1 /\ (z + 1) - 1 = z /\ z <= z + 1
    BY <1>3
  <2>2. Run(f[z], b) = <<>>
    BY <1>2, <1>3, <1>4, <1>5, <2>1
  <2>3. f[z] \in Nat /\ f[z] <= b
    BY <1>5, <2>1
  <2>4. Len(Run(f[z], b)) = b - f[z]
    BY <2>3, RunType
  <2> QED  BY <2>2, <2>3, <2>4
<1>7. h \in Seq(Packet) /\ Len(h) = z /\ \A i \in 1..z : h[i] = q[i]
  BY <1>3
<1> HIDE DEF h
<1>8. v \in Seq(Seq(Nat)) /\ Len(v) = z /\ \A i \in 1..z : v[i] = Unsent(h[i])
  BY <1>7, UnsentsType
<1> DEFINE g == [i \in 0..z |-> f[i]]
<1>9. g \in [0..z -> Nat] /\ g[0] = a /\ g[z] = b /\ \A i \in 0..z : g[i] = f[i]
  BY <1>3, <1>5, <1>6
<1> HIDE DEF g, v
<1>10. \A i, j \in 0..z : i <= j => g[i] <= g[j]
  BY <1>3, <1>5, <1>9
<1>11. ASSUME NEW i \in 1..z PROVE v[i] = Run(g[i - 1], g[i])
  <2>1. i \in 1..z + 1 /\ i \in 0..z /\ i - 1 \in 0..z /\ i \in 1..Len(q)
    BY <1>3
  <2> QED  BY <1>2, <1>5, <1>7, <1>8, <1>9, <2>1
<1>12. Cuts(v, a, b, g)
  BY <1>8, <1>9, <1>10, <1>11 DEF Cuts
<1> QED  BY <1>12 DEF Contig, v, h, z

-----------------------------------------------------------------------------
(* What the handlers do to the streams.                                    *)

\* From s to t the packets, the tasks and the ends of the streams are as before.
Alike(s, t) ==
  /\ t.svrdata = s.svrdata /\ t.inq = s.inq /\ t.out = s.out /\ t.task = s.task
  /\ \A x \in Conn : /\ "SHUTRD" \in t.flags[x] <=> "SHUTRD" \in s.flags[x]
                     /\ "SHUTWR" \in t.flags[x] <=> "SHUTWR" \in s.flags[x]

LEMMA AlikeSelf ==
  ASSUME NEW s
  PROVE  Alike(s, s)
  BY DEF Alike

LEMMA AlikeTrans ==
  ASSUME NEW s, NEW t, NEW u, Alike(s, t), Alike(t, u)
  PROVE  Alike(s, u)
<1>1. /\ u.svrdata = s.svrdata /\ u.inq = s.inq /\ u.out = s.out /\ u.task = s.task
  BY DEF Alike
<1>2. \A x \in Conn : /\ "SHUTRD" \in u.flags[x] <=> "SHUTRD" \in s.flags[x]
                      /\ "SHUTWR" \in u.flags[x] <=> "SHUTWR" \in s.flags[x]
  BY DEF Alike
<1> QED  BY <1>1, <1>2, Zenon DEF Alike

LEMMA AlikeEvent ==
  ASSUME NEW s \in Memory, NEW c \in Conn, NEW e, NEW cb
  PROVE  Alike(s, AddEvent(s, c, e, cb))
<1> DEFINE t == AddEvent(s, c, e, cb)
<1>1. /\ t.svrdata = s.svrdata /\ t.inq = s.inq /\ t.out = s.out /\ t.task = s.task
      /\ t.flags = s.flags
  BY DEF AddEvent, Memory
<1> HIDE DEF t
<1>2. Alike(s, t)
  BY <1>1 DEF Alike
<1> QED  BY <1>2 DEF t

LEMMA FlagFields ==
  ASSUME NEW s \in Memory, NEW c \in Conn, NEW f
  PROVE  LET t == [s EXCEPT !.flags[c] = f]
         IN  /\ t.svrdata = s.svrdata /\ t.inq = s.inq /\ t.out = s.out /\ t.task = s.task
             /\ t.flags[c] = f /\ \A x \in Conn \ {c} : t.flags[x] = s.flags[x]
<1> DEFINE t == [s EXCEPT !.flags[c] = f]
<1>1. s.flags \in [Conn -> SUBSET Flag]
  BY DEF Memory
<1>2. /\ t.svrdata = s.svrdata /\ t.inq = s.inq /\ t.out = s.out /\ t.task = s.task
      /\ t.flags = [s.flags EXCEPT ![c] = f]
  BY DEF Memory
<1> HIDE DEF t
<1>3. t.flags[c] = f /\ \A x \in Conn \ {c} : t.flags[x] = s.flags[x]
  BY <1>1, <1>2
<1> QED  BY <1>2, <1>3 DEF t

LEMMA AlikeFlags ==
  ASSUME NEW s \in Memory, NEW c \in Conn, NEW f,
         "SHUTRD" \in f <=> "SHUTRD" \in s.flags[c],
         "SHUTWR" \in f <=> "SHUTWR" \in s.flags[c]
  PROVE  Alike(s, [s EXCEPT !.flags[c] = f])
<1> DEFINE t == [s EXCEPT !.flags[c] = f]
<1>1. /\ t.svrdata = s.svrdata /\ t.inq = s.inq /\ t.out = s.out /\ t.task = s.task
      /\ t.flags[c] = f /\ \A x \in Conn \ {c} : t.flags[x] = s.flags[x]
  BY FlagFields
<1> HIDE DEF t
<1>2. ASSUME NEW x \in Conn
      PROVE  /\ "SHUTRD" \in t.flags[x] <=> "SHUTRD" \in s.flags[x]
             /\ "SHUTWR" \in t.flags[x] <=> "SHUTWR" \in s.flags[x]
  BY <1>1
<1>3. Alike(s, t)
  BY <1>1, <1>2, Zenon DEF Alike
<1> QED  BY <1>3 DEF t

LEMMA AlikeRaise ==
  ASSUME NEW s \in Memory, NEW c \in Conn, NEW f, f \notin {"SHUTRD", "SHUTWR"}
  PROVE  Alike(s, Raise(s, c, f)) /\ Alike(s, Clear(s, c, f))
<1>1. /\ "SHUTRD" \in s.flags[c] \union {f} <=> "SHUTRD" \in s.flags[c]
      /\ "SHUTWR" \in s.flags[c] \union {f} <=> "SHUTWR" \in s.flags[c]
      /\ "SHUTRD" \in s.flags[c] \ {f} <=> "SHUTRD" \in s.flags[c]
      /\ "SHUTWR" \in s.flags[c] \ {f} <=> "SHUTWR" \in s.flags[c]
  OBVIOUS
<1>2. Alike(s, [s EXCEPT !.flags[c] = s.flags[c] \union {f}])
  BY <1>1, AlikeFlags
<1>3. Alike(s, [s EXCEPT !.flags[c] = s.flags[c] \ {f}])
  BY <1>1, AlikeFlags
<1> QED  BY <1>2, <1>3 DEF Raise, Clear

LEMMA AlikeRearm ==
  ASSUME NEW s \in Memory, NEW c \in Conn, NEW mask, NEW wait, NEW cb
  PROVE  Alike(s, Rearm(s, c, mask, wait, cb))
<1>1. /\ Alike(s, s) /\ Alike(s, AddEvent(s, c, FD_IN, cb))
      /\ Alike(s, AddEvent(s, c, FD_OUT, cb))
  BY AlikeSelf, AlikeEvent
<1>2. Rearm(s, c, mask, wait, cb) \in
        {s, AddEvent(s, c, FD_IN, cb), AddEvent(s, c, FD_OUT, cb)}
  BY DEF Rearm
<1> QED  BY <1>1, <1>2, Zenon

LEMMA AlikeBlock ==
  ASSUME NEW s \in Memory, NEW c \in Conn
  PROVE  Alike(s, Block(s, c)) /\ Alike(s, Unblock(s, c))
<1> DEFINE p  == Peer(c)
           b1 == AddEvent(s, c, FD_OUT, "send")
           b2 == AddEvent(b1, p, {}, "NULL")
           u1 == AddEvent(s, c, FD_IN, "recv")
           u2 == AddEvent(u1, p, FD_IN, "recv")
<1>1. p \in Conn
  BY PeerConn
<1> HIDE DEF p
<1>2. b1 \in Memory /\ u1 \in Memory /\ Alike(s, b1) /\ Alike(s, u1)
  BY AlikeEvent, AddEventKeeps, HandlerConstants DEF Keeps
<1> HIDE DEF b1, u1
<1>3. b2 \in Memory /\ u2 \in Memory /\ Alike(b1, b2) /\ Alike(u1, u2)
  BY <1>1, <1>2, AlikeEvent, AddEventKeeps, HandlerConstants DEF Keeps
<1> HIDE DEF b2, u2
<1>4. Alike(b2, Raise(b2, c, "BLOCKED")) /\ Alike(u2, Clear(u2, c, "BLOCKED"))
  BY <1>3, AlikeRaise
<1>5. Alike(s, Raise(b2, c, "BLOCKED")) /\ Alike(s, Clear(u2, c, "BLOCKED"))
  BY <1>2, <1>3, <1>4, AlikeTrans
<1>6. Alike(s, s)
  BY AlikeSelf
<1>7. Block(s, c) \in {s, Raise(b2, c, "BLOCKED")} /\ Unblock(s, c) \in {s, Clear(u2, c, "BLOCKED")}
  BY Zenon DEF Block, Unblock, b2, u2, b1, u1, p
<1> QED  BY <1>5, <1>6, <1>7, Zenon

\* The end of the stream is passed on only when it came from the peer.
LEMMA ShutWriteView ==
  ASSUME NEW s \in Memory, NEW c \in Conn
  PROVE  LET t == ShutWrite(s, c)
         IN  /\ t.svrdata = s.svrdata /\ t.inq = s.inq /\ t.out = s.out /\ t.task = s.task
             /\ \A x \in Conn :
                  /\ "SHUTRD" \in t.flags[x] <=> "SHUTRD" \in s.flags[x]
                  /\ "SHUTWR" \in s.flags[x] => "SHUTWR" \in t.flags[x]
                  /\ "SHUTWR" \in t.flags[x] /\ "SHUTWR" \notin s.flags[x] =>
                       x = c /\ "SHUTRD" \in s.flags[Peer(c)]
<1> DEFINE r1 == Raise(s, c, "SSLSHUT")
           e1 == AddEvent(r1, c, FD_OUT, "shutdown")
           f  == s.flags[c] \union {"SHUTWR"}
           t1 == [s EXCEPT !.flags[c] = f]
<1>1. Alike(s, r1) /\ r1 \in Memory /\ Alike(s, s)
  BY AlikeSelf, AlikeRaise, RaiseClearKeeps, HandlerConstants DEF Keeps
<1> HIDE DEF r1
<1>2. Alike(r1, e1)
  BY <1>1, AlikeEvent
<1>3. Alike(s, e1)
  BY <1>1, <1>2, AlikeTrans
<1> HIDE DEF e1
<1>4. ASSUME NEW t, Alike(s, t)
      PROVE  /\ t.svrdata = s.svrdata /\ t.inq = s.inq /\ t.out = s.out /\ t.task = s.task
             /\ \A x \in Conn :
                  /\ "SHUTRD" \in t.flags[x] <=> "SHUTRD" \in s.flags[x]
                  /\ "SHUTWR" \in s.flags[x] => "SHUTWR" \in t.flags[x]
                  /\ "SHUTWR" \in t.flags[x] /\ "SHUTWR" \notin s.flags[x] =>
                       x = c /\ "SHUTRD" \in s.flags[Peer(c)]
  BY <1>4 DEF Alike
<1>5. CASE "SHUTRD" \notin s.flags[Peer(c)] \/ s.ssl[c] # "NULL"
  <2>1. ShutWrite(s, c) \in {s, e1}
    BY <1>5 DEF ShutWrite, e1, r1
  <2> QED  BY <1>1, <1>3, <1>4, <2>1, Zenon
<1>6. CASE "SHUTRD" \in s.flags[Peer(c)] /\ s.ssl[c] = "NULL"
  <2>1. ShutWrite(s, c) = t1
    BY <1>6 DEF ShutWrite, Raise
  <2>2. /\ t1.svrdata = s.svrdata /\ t1.inq = s.inq /\ t1.out = s.out /\ t1.task = s.task
        /\ t1.flags[c] = f /\ \A x \in Conn \ {c} : t1.flags[x] = s.flags[x]
    <3> HIDE DEF f
    <3> QED  BY FlagFields
  <2> HIDE DEF t1
  <2>3. ASSUME NEW x \in Conn
        PROVE  /\ "SHUTRD" \in t1.flags[x] <=> "SHUTRD" \in s.flags[x]
               /\ "SHUTWR" \in s.flags[x] => "SHUTWR" \in t1.flags[x]
               /\ "SHUTWR" \in t1.flags[x] /\ "SHUTWR" \notin s.flags[x] =>
                    x = c /\ "SHUTRD" \in s.flags[Peer(c)]
    BY <1>6, <2>2
  <2> QED  BY <2>1, <2>2, <2>3, Zenon
<1> QED  BY <1>5, <1>6

\* Bytes leave the queue of c in order; the end follows when nothing is left.
LEMMA ConsumeView ==
  ASSUME NEW s \in Memory, NEW c \in Conn, NEW kc, NEW free \in Int,
         NEW o \in SendOutcome(s, c, kc, free)
  PROVE  LET t == Consume(s, c, o)
         IN  /\ t.svrdata = s.svrdata /\ t.inq = s.inq /\ t.task = s.task /\ t.flags = s.flags
             /\ t.out[Peer(c)] = s.out[Peer(c)]
             /\ o.full = 0 /\ o.part = 0 => t.out[c] = s.out[c] /\ SentBytes(s, c, o) = <<>>
             /\ o.full = Len(s.out[c]) /\ o.part = 0 => t.out[c] = <<>>
             /\ \A a, b \in Nat : Contig(Unsents(s.out[c]), a, b) =>
                  \E m \in a..b : /\ SentBytes(s, c, o) = Run(a, m)
                                  /\ Contig(Unsents(t.out[c]), m, b)
<1> DEFINE q == s.out[c]
           h == SubSeq(q, o.full + 1, Len(q))
           v == IF o.part = 0 THEN h ELSE [h EXCEPT ![1].sendpos = @ + o.part]
           d == IF o.part = 0 THEN <<>> ELSE SubSeq(Unsent(q[o.full + 1]), 1, o.part)
           t == [s EXCEPT !.out[c] = v, !.nalloced = @ - o.full]
<1>1. q \in Seq(Packet) /\ Len(q) \in Nat /\ s.out \in [Conn -> Seq(Packet)]
  BY DEF Memory
<1>2. /\ o.full \in 0..Len(q) /\ o.part \in Nat
      /\ o.part # 0 => o.full < Len(q) /\ o.part <= Len(Unsent(q[o.full + 1]))
  BY SendFacts
<1>3. Consume(s, c, o) = t
  BY DEF Consume
<1>4. SentBytes(s, c, o) = UnsentOf(q, o.full) \o d
  BY DEF SentBytes
<1>5. o.full = 0 => h = q
  BY <1>1
<1>6. o.full = Len(q) => h = <<>>
  BY <1>1
<1>7. \A a, b \in Nat : Contig(Unsents(q), a, b) =>
        \E m \in a..b : UnsentOf(q, o.full) \o d = Run(a, m) /\ Contig(Unsents(v), m, b)
  <2> HIDE DEF q
  <2> QED  BY <1>1, <1>2, ContigConsumed
<1>8. o.full = 0 /\ o.part = 0 => UnsentOf(q, o.full) \o d = <<>>
  <2> SUFFICES ASSUME o.full = 0, o.part = 0 PROVE UnsentOf(q, 0) \o <<>> = <<>>
    OBVIOUS
  <2>1. [i \in 1..0 |-> Unsent(q[i])] = <<>>
    OBVIOUS
  <2>2. FlattenSeq(<<>>) = <<>>
    BY DEF FlattenSeq
  <2> QED  BY <2>1, <2>2 DEF UnsentOf
<1> HIDE DEF h, d
<1>9. /\ t.svrdata = s.svrdata /\ t.inq = s.inq /\ t.task = s.task /\ t.flags = s.flags
      /\ t.out = [s.out EXCEPT ![c] = v]
  <2> HIDE DEF v, q
  <2> QED  BY DEF Memory
<1> HIDE DEF t
<1>10. t.out[c] = v /\ t.out[Peer(c)] = s.out[Peer(c)]
  <2> HIDE DEF v
  <2> QED  BY <1>1, <1>9, PeerConn
<1>11. o.full = 0 /\ o.part = 0 => t.out[c] = q /\ SentBytes(s, c, o) = <<>>
  BY <1>4, <1>5, <1>8, <1>10
<1>12. o.full = Len(q) /\ o.part = 0 => t.out[c] = <<>>
  BY <1>6, <1>10
<1>13. \A a, b \in Nat : Contig(Unsents(q), a, b) =>
         \E m \in a..b : SentBytes(s, c, o) = Run(a, m) /\ Contig(Unsents(t.out[c]), m, b)
  <2> HIDE DEF v, q
  <2> QED  BY <1>4, <1>7, <1>10
<1> QED  BY <1>3, <1>9, <1>10, <1>11, <1>12, <1>13

LEMMA SendView ==
  ASSUME NEW s \in Memory, NEW c \in Conn, NEW kc, NEW free \in Int,
         NEW o \in SendOutcome(s, c, kc, free)
  PROVE  LET t == conn_send_data(s, c, o)
         IN  /\ t.svrdata = s.svrdata /\ t.inq = s.inq /\ t.task = s.task
             /\ t.out[Peer(c)] = s.out[Peer(c)]
             /\ \A x \in Conn :
                  /\ "SHUTRD" \in t.flags[x] <=> "SHUTRD" \in s.flags[x]
                  /\ "SHUTWR" \in s.flags[x] => "SHUTWR" \in t.flags[x]
                  /\ "SHUTWR" \in t.flags[x] /\ "SHUTWR" \notin s.flags[x] =>
                       x = c /\ "SHUTRD" \in s.flags[Peer(c)] /\ t.out[c] = <<>>
             /\ "SHUTWR" \in s.flags[c] => SentBytes(s, c, o) = <<>>
             /\ \A a, b \in Nat : Contig(Unsents(s.out[c]), a, b) =>
                  \E m \in a..b : /\ SentBytes(s, c, o) = Run(a, m)
                                  /\ Contig(Unsents(t.out[c]), m, b)
<1> DEFINE s1 == Consume(s, c, o)
           s2 == Unblock(s1, c)
           t  == conn_send_data(s, c, o)
<1>1. /\ s1.svrdata = s.svrdata /\ s1.inq = s.inq /\ s1.task = s.task /\ s1.flags = s.flags
      /\ s1.out[Peer(c)] = s.out[Peer(c)]
      /\ o.full = 0 /\ o.part = 0 => s1.out[c] = s.out[c] /\ SentBytes(s, c, o) = <<>>
      /\ o.full = Len(s.out[c]) /\ o.part = 0 => s1.out[c] = <<>>
  BY ConsumeView
<1>2. \A a, b \in Nat : Contig(Unsents(s.out[c]), a, b) =>
                  \E m \in a..b : /\ SentBytes(s, c, o) = Run(a, m)
                                  /\ Contig(Unsents(s1.out[c]), m, b)
  BY ConsumeView
<1>3. /\ InHandshake(s, c) \/ "SHUTWR" \in s.flags[c] => o.full = 0 /\ o.part = 0
      /\ o.end = "all" /\ ~InHandshake(s, c) => o.full = Len(s.out[c]) /\ o.part = 0
      /\ o.end \in {"all", "part", "err"}
  BY SendFacts
<1>4. s1 \in Memory
  BY SendOutcomeType, ConsumeKeeps DEF Keeps
<1>5. /\ t = IF InHandshake(s, c) THEN s
             ELSE CASE o.end = "err"  -> Raise(s1, c, "ERROR")
                    [] o.end = "part" -> Block(s1, c)
                    [] o.end = "all"  -> ShutWrite(s2, c)
  BY Zenon DEF conn_send_data
<1> HIDE DEF s1, t
<1>6. CASE InHandshake(s, c)
  <2>1. t = s /\ s1.out[c] = s.out[c] /\ SentBytes(s, c, o) = <<>>
    BY <1>1, <1>3, <1>5, <1>6
  <2> QED  BY <1>2, <2>1 DEF t
<1>7. CASE ~InHandshake(s, c) /\ o.end # "all"
  <2>1. t \in {Raise(s1, c, "ERROR"), Block(s1, c)}
    BY <1>3, <1>5, <1>7
  <2>2. Alike(s1, Raise(s1, c, "ERROR")) /\ Alike(s1, Block(s1, c))
    BY <1>4, AlikeRaise, AlikeBlock
  <2>3. Alike(s1, t)
    BY <2>1, <2>2, Zenon
  <2>4. /\ t.svrdata = s.svrdata /\ t.inq = s.inq /\ t.task = s.task /\ t.out = s1.out
        /\ \A x \in Conn : /\ "SHUTRD" \in t.flags[x] <=> "SHUTRD" \in s.flags[x]
                           /\ "SHUTWR" \in t.flags[x] <=> "SHUTWR" \in s.flags[x]
    BY <1>1, <2>3 DEF Alike
  <2> QED  BY <1>1, <1>2, <1>3, <2>4 DEF t
<1>8. CASE ~InHandshake(s, c) /\ o.end = "all"
  <2>1. t = ShutWrite(s2, c) /\ s1.out[c] = <<>>
    BY <1>1, <1>3, <1>5, <1>8
  <2>2. Alike(s1, s2) /\ s2 \in Memory
    BY <1>4, AlikeBlock, BlockKeeps DEF Keeps
  <2> HIDE DEF s2
  <2>3. /\ t.svrdata = s2.svrdata /\ t.inq = s2.inq /\ t.out = s2.out /\ t.task = s2.task
        /\ \A x \in Conn :
             /\ "SHUTRD" \in t.flags[x] <=> "SHUTRD" \in s2.flags[x]
             /\ "SHUTWR" \in s2.flags[x] => "SHUTWR" \in t.flags[x]
             /\ "SHUTWR" \in t.flags[x] /\ "SHUTWR" \notin s2.flags[x] =>
                  x = c /\ "SHUTRD" \in s2.flags[Peer(c)]
    BY <2>1, <2>2, ShutWriteView
  <2>4. /\ s2.svrdata = s.svrdata /\ s2.inq = s.inq /\ s2.task = s.task /\ s2.out = s1.out
        /\ \A x \in Conn : /\ "SHUTRD" \in s2.flags[x] <=> "SHUTRD" \in s.flags[x]
                           /\ "SHUTWR" \in s2.flags[x] <=> "SHUTWR" \in s.flags[x]
    BY <1>1, <2>2 DEF Alike
  <2>5. \A x \in Conn :
             /\ "SHUTRD" \in t.flags[x] <=> "SHUTRD" \in s.flags[x]
             /\ "SHUTWR" \in s.flags[x] => "SHUTWR" \in t.flags[x]
             /\ "SHUTWR" \in t.flags[x] /\ "SHUTWR" \notin s.flags[x] =>
                  x = c /\ "SHUTRD" \in s.flags[Peer(c)]
    BY <2>3, <2>4, PeerConn
  <2>6. t.out = s1.out
    BY <2>3, <2>4
  <2> QED  BY <1>1, <1>2, <1>3, <2>1, <2>3, <2>4, <2>5, <2>6 DEF t
<1> QED  BY <1>6, <1>7, <1>8

\* What is read goes to the end of the queue of c, which was empty.
LEMMA ReceivedView ==
  ASSUME NEW s \in Memory, NEW kc \in Socket, NEW c \in Conn,
         NEW r \in RecvOutcome(s, kc, c), s.inq[c] = <<>>
  PROVE  LET t == Received(s, c, r)
         IN  /\ t.svrdata = s.svrdata /\ t.out = s.out /\ t.task = s.task /\ t.flags = s.flags
             /\ t.inq[Peer(c)] = s.inq[Peer(c)] /\ t.ssl = s.ssl
             /\ \A a, b \in Nat : a <= b /\ r.data = Run(a, b) => Contig(Unsents(t.inq[c]), a, b)
<1> DEFINE new == IF r.data = <<>> THEN <<PKT_INIT>> ELSE Chunks(r.data, r.passes)
           q == s.inq[c] \o new
           n == s.nalloced + Len(new)
           t == [s EXCEPT !.inq[c] = q, !.nalloced = n]
<1>1. ~HasRoom(s, c)
  BY DEF HasRoom
<1>2. /\ r.data \in Seq(Nat) /\ r.passes \in Nat \ {0}
      /\ r.passes = 1 \/ (r.passes - 1) * PktMax < Len(r.data)
  BY <1>1, RecvOutcomeType
<1>3. Received(s, c, r) = t
  BY <1>1 DEF Received
<1>4. new \in Seq(Packet)
  <2>1. CASE r.data = <<>>
    BY <2>1 DEF PKT_INIT, Packet
  <2>2. CASE r.data # <<>>
    BY <1>2, <2>2, ChunksType
  <2> QED  BY <2>1, <2>2
<1>5. ASSUME NEW a \in Nat, NEW b \in Nat, a <= b, r.data = Run(a, b)
      PROVE  Contig(Unsents(new), a, b)
  <2>1. Len(r.data) = b - a
    BY <1>5, RunType
  <2>2. CASE r.data = <<>>
    <3>1. new = <<PKT_INIT>> /\ Len(new) = 1 /\ new[1] = PKT_INIT
      BY <2>2
    <3>2. Unsent(PKT_INIT) = <<>>
      <4>1. <<>> \in Seq(Nat)
        OBVIOUS
      <4>2. Unsent([data |-> <<>>, sendpos |-> 0]) = <<>>
        BY <4>1, UnsentFresh
      <4> QED  BY <4>2, Zenon DEF PKT_INIT
    <3> HIDE DEF new
    <3> QED  BY <1>4, <1>5, <2>2, <3>1, <3>2, ContigSingle
  <2>3. CASE r.data # <<>>
    <3>1. Contig(Unsents(Chunks(Run(a, b), r.passes)), a, b)
      BY <1>2, <1>5, <2>1, ChunksContig
    <3> QED  BY <1>5, <2>3, <3>1
  <2> QED  BY <2>2, <2>3
<1> HIDE DEF new
<1>6. q = new
  BY <1>4
<1>7. s.inq \in [Conn -> Seq(Packet)]
  BY DEF Memory
<1> HIDE DEF q, n
<1>8. /\ t.svrdata = s.svrdata /\ t.out = s.out /\ t.task = s.task /\ t.flags = s.flags
      /\ t.inq = [s.inq EXCEPT ![c] = q] /\ t.ssl = s.ssl
  BY DEF Memory
<1> HIDE DEF t
<1>9. t.inq[c] = new /\ t.inq[Peer(c)] = s.inq[Peer(c)]
  BY <1>6, <1>7, <1>8, PeerConn
<1> QED  BY <1>3, <1>5, <1>8, <1>9

-----------------------------------------------------------------------------
(* The memory of a session whose streams are intact.                       *)

\* No socket of the session was closed yet.
Intact(s) == s.alive /\ s.fd[Client] /\ (s.svrdata => s.fd[Server])

\* A session that lost a socket waits for one task, its deletion; only open
\* connections have tasks; what was read waits for a task that parses it.
Base(s) ==
  /\ s.fd[Server] => s.svrdata
  /\ s.alive /\ ~Intact(s) => \E d \in Conn : s.taskq = <<d>> /\ s.task[d] = "DELETE"
  /\ \A c \in Conn : task_in_queue(s, c) => s.alive /\ s.fd[c]
  /\ Intact(s) => \A c \in Conn : s.inq[c] # <<>> => task_in_queue(s, c) /\ s.task[c] # "SEND"

LEMMA ConnIs == Client \in Conn /\ Server \in Conn /\ \A c \in Conn : c = Client \/ c = Server
  BY DEF Conn

\* Alike, but for the task of c.
AlikeBut(s, c, t) ==
  /\ t.svrdata = s.svrdata /\ t.inq = s.inq /\ t.out = s.out
  /\ t.task[Peer(c)] = s.task[Peer(c)]
  /\ \A x \in Conn : /\ "SHUTRD" \in t.flags[x] <=> "SHUTRD" \in s.flags[x]
                     /\ "SHUTWR" \in t.flags[x] <=> "SHUTWR" \in s.flags[x]

LEMMA AddTaskFields ==
  ASSUME NEW s \in Memory, NEW c \in Conn, NEW v \in TaskType, NEW q \in Seq(Conn)
  PROVE  LET t == [s EXCEPT !.task[c] = v, !.taskq = q]
         IN  /\ t.svrdata = s.svrdata /\ t.inq = s.inq /\ t.out = s.out /\ t.flags = s.flags
             /\ t.task[c] = v /\ t.task[Peer(c)] = s.task[Peer(c)] /\ t.taskq = q
<1> DEFINE t == [s EXCEPT !.task[c] = v, !.taskq = q]
<1>1. s.task \in [Conn -> TaskType]
  BY DEF Memory
<1>2. /\ t.svrdata = s.svrdata /\ t.inq = s.inq /\ t.out = s.out /\ t.flags = s.flags
      /\ t.task = [s.task EXCEPT ![c] = v] /\ t.taskq = q
  BY DEF Memory
<1> HIDE DEF t
<1>3. t.task[c] = v /\ t.task[Peer(c)] = s.task[Peer(c)]
  BY <1>1, <1>2, PeerConn
<1> QED  BY <1>2, <1>3 DEF t

LEMMA AppendHas ==
  ASSUME NEW q \in Seq(Conn), NEW c \in Conn
  PROVE  \E i \in 1..Len(Append(q, c)) : Append(q, c)[i] = c
<1>1. Len(q) + 1 \in 1..Len(Append(q, c)) /\ Append(q, c)[Len(q) + 1] = c
  OBVIOUS
<1> QED  BY <1>1

LEMMA AddTaskView ==
  ASSUME NEW s \in Memory, NEW c \in Conn, NEW v \in TaskType,
         NEW t \in {AddTask(s, c, v), AddTaskAlways(s, c, v)}
  PROVE  /\ AlikeBut(s, c, t) /\ t.task[c] = v /\ task_in_queue(t, c) /\ t.flags = s.flags
<1> DEFINE q == IF task_in_queue(s, c) THEN s.taskq ELSE Append(s.taskq, c)
           r == Append(s.taskq, c)
<1>1. s.taskq \in Seq(Conn)
  BY DEF Memory
<1>2. q \in Seq(Conn) /\ r \in Seq(Conn)
  BY <1>1
<1>3. /\ AddTask(s, c, v) = [s EXCEPT !.task[c] = v, !.taskq = q]
      /\ AddTaskAlways(s, c, v) = [s EXCEPT !.task[c] = v, !.taskq = r]
  BY DEF AddTask, AddTaskAlways
<1>4. /\ \E i \in 1..Len(q) : q[i] = c
      /\ \E i \in 1..Len(r) : r[i] = c
  <2>1. \E i \in 1..Len(r) : r[i] = c
    BY <1>1, AppendHas
  <2> QED  BY <2>1 DEF task_in_queue
<1> HIDE DEF q, r
<1>5. \A z \in {q, r} :
        LET y == [s EXCEPT !.task[c] = v, !.taskq = z]
        IN  /\ y.svrdata = s.svrdata /\ y.inq = s.inq /\ y.out = s.out /\ y.flags = s.flags
            /\ y.task[c] = v /\ y.task[Peer(c)] = s.task[Peer(c)] /\ y.taskq = z
  BY <1>2, AddTaskFields
<1>6. /\ t.svrdata = s.svrdata /\ t.inq = s.inq /\ t.out = s.out /\ t.flags = s.flags
      /\ t.task[c] = v /\ t.task[Peer(c)] = s.task[Peer(c)] /\ t.taskq \in {q, r}
  BY <1>3, <1>5
<1>7. task_in_queue(t, c)
  BY <1>4, <1>6 DEF task_in_queue
<1>8. AlikeBut(s, c, t)
  BY <1>6 DEF AlikeBut
<1> QED  BY <1>6, <1>7, <1>8

LEMMA AlikeThenBut ==
  ASSUME NEW s, NEW t, NEW u, NEW c \in Conn, Alike(s, t), AlikeBut(t, c, u)
  PROVE  AlikeBut(s, c, u)
<1>1. \A x \in Conn : /\ "SHUTRD" \in u.flags[x] <=> "SHUTRD" \in s.flags[x]
                      /\ "SHUTWR" \in u.flags[x] <=> "SHUTWR" \in s.flags[x]
  BY DEF Alike, AlikeBut
<1>2. /\ u.svrdata = s.svrdata /\ u.inq = s.inq /\ u.out = s.out
      /\ u.task[Peer(c)] = s.task[Peer(c)]
  BY DEF Alike, AlikeBut
<1> QED  BY <1>1, <1>2, Zenon DEF AlikeBut

LEMMA AlikeIsBut ==
  ASSUME NEW s, NEW t, NEW c \in Conn, Alike(s, t)
  PROVE  AlikeBut(s, c, t)
  BY DEF Alike, AlikeBut

\* A task of c that is linked after harmless updates.
LEMMA TaskAfter ==
  ASSUME NEW s, NEW t \in Memory, NEW c \in Conn, NEW v \in TaskType, Alike(s, t)
  PROVE  AlikeBut(s, c, AddTask(t, c, v))
<1>1. AlikeBut(t, c, AddTask(t, c, v))
  BY AddTaskView
<1> QED  BY <1>1, AlikeThenBut

LEMMA HandshakeView ==
  ASSUME NEW s \in Memory, NEW c \in Conn, NEW mask, NEW kc, NEW h
  PROVE  AlikeBut(s, c, conn_handshake(s, c, mask, kc, h))
<1> DEFINE F  == (s.flags[c] \ {"HSK"})
                   \union (IF s.ssl[c] # "NULL" THEN {"SSLHSK"} ELSE {})
           f1 == [s EXCEPT !.flags[c] = F]
           s1 == IF "HSK" \in s.flags[c] THEN f1 ELSE s
           s2 == Clear(s1, c, "SSLHSK")
           e0 == Raise(s, c, "ERROR")
           r1 == AddEvent(s1, c, FD_IN, "recv")
           r2 == AddEvent(s2, c, FD_IN, "recv")
           w1 == Rearm(s1, c, mask, h, "handshake")
<1>1. conn_handshake(s, c, mask, kc, h) \in
        {AddTask(s, c, "DELETE"), AddTask(e0, c, "DELETE"), AddTask(s1, c, "DELETE"),
         AddTask(r1, c, "SEND"), AddTask(r2, c, "SEND"), w1}
  BY DEF conn_handshake
<1>2. /\ F \in SUBSET Flag
      /\ "SHUTRD" \in F <=> "SHUTRD" \in s.flags[c]
      /\ "SHUTWR" \in F <=> "SHUTWR" \in s.flags[c]
  BY DEF Memory, Flag
<1> HIDE DEF F
<1>3. Alike(s, f1) /\ Alike(s, s) /\ Alike(s, e0)
  BY <1>2, AlikeFlags, AlikeSelf, AlikeRaise
<1>4. f1 \in Memory /\ e0 \in Memory
  BY <1>2, FlagKeeps, RaiseClearKeeps, HandlerConstants DEF Keeps
<1>5. Alike(s, s1) /\ s1 \in Memory
  BY <1>3, <1>4
<1> HIDE DEF s1, e0
<1>6. Alike(s1, s2) /\ Alike(s1, r1) /\ Alike(s1, w1)
  BY <1>5, AlikeRaise, AlikeEvent, AlikeRearm
<1>7. s2 \in Memory /\ r1 \in Memory
  BY <1>5, RaiseClearKeeps, AddEventKeeps, HandlerConstants DEF Keeps
<1> HIDE DEF r1, w1, s2
<1>8. Alike(s, s2) /\ Alike(s, r1) /\ Alike(s, w1)
  BY <1>5, <1>6, AlikeTrans
<1>9. Alike(s2, r2) /\ r2 \in Memory
  BY <1>7, AlikeEvent, AddEventKeeps, HandlerConstants DEF Keeps
<1> HIDE DEF r2
<1>10. Alike(s, r2)
  BY <1>8, <1>9, AlikeTrans
<1>11. /\ AlikeBut(s, c, AddTask(s, c, "DELETE")) /\ AlikeBut(s, c, AddTask(e0, c, "DELETE"))
       /\ AlikeBut(s, c, AddTask(s1, c, "DELETE"))
  BY <1>3, <1>4, <1>5, TaskAfter, HandlerConstants
<1>12. /\ AlikeBut(s, c, AddTask(r1, c, "SEND")) /\ AlikeBut(s, c, AddTask(r2, c, "SEND"))
  BY <1>7, <1>8, <1>9, <1>10, TaskAfter, HandlerConstants
<1>13. AlikeBut(s, c, w1)
  BY <1>8, AlikeIsBut
<1> QED  BY <1>1, <1>11, <1>12, <1>13, Zenon

LEMMA ShutdownView ==
  ASSUME NEW s \in Memory, NEW c \in Conn, NEW mask, NEW z
  PROVE  AlikeBut(s, c, conn_shutdown(s, c, mask, z))
<1> DEFINE a == AddEvent(s, c, {}, "NULL")
           t == [a EXCEPT !.ssl[c] = "NULL", !.nssl = @ - 1]
           v == Rearm(s, c, mask, z, "handshake")
<1>1. conn_shutdown(s, c, mask, z) \in {AddTask(s, c, "DELETE"), a, t, v}
  BY DEF conn_shutdown
<1>2. Alike(s, a) /\ Alike(s, v) /\ Alike(s, s)
  BY AlikeEvent, AlikeRearm, AlikeSelf
<1>3. a \in Memory
  BY AddEventKeeps, HandlerConstants DEF Keeps
<1> HIDE DEF a, v
<1>4. /\ t.svrdata = a.svrdata /\ t.inq = a.inq /\ t.out = a.out /\ t.task = a.task
      /\ t.flags = a.flags
  BY <1>3 DEF Memory
<1> HIDE DEF t
<1>5. Alike(s, t)
  BY <1>2, <1>4 DEF Alike
<1>6. AlikeBut(s, c, a) /\ AlikeBut(s, c, t) /\ AlikeBut(s, c, v)
  BY <1>2, <1>5, AlikeIsBut
<1>7. AlikeBut(s, c, AddTask(s, c, "DELETE"))
  BY <1>2, TaskAfter, HandlerConstants
<1> QED  BY <1>1, <1>6, <1>7, Zenon

LEMMA DropView ==
  ASSUME NEW s \in Memory, NEW c \in Conn
  PROVE  LET t == DropEmpty(s, c)
         IN  /\ t.svrdata = s.svrdata /\ t.out = s.out /\ t.task = s.task /\ t.flags = s.flags
             /\ t.inq[Peer(c)] = s.inq[Peer(c)]
             /\ \A a, b \in Nat : Contig(Unsents(s.inq[c]), a, b) => Contig(Unsents(t.inq[c]), a, b)
<1> DEFINE q == s.inq[c]
           v == SubSeq(q, 1, Len(q) - 1)
           t == [s EXCEPT !.inq[c] = v, !.nalloced = @ - 1]
<1>1. q \in Seq(Packet) /\ s.inq \in [Conn -> Seq(Packet)]
  BY DEF Memory
<1>2. CASE ~(q # <<>> /\ q[Len(q)].data = <<>>)
  <2>1. DropEmpty(s, c) = s
    BY <1>2 DEF DropEmpty
  <2> QED  BY <2>1
<1>3. CASE q # <<>> /\ q[Len(q)].data = <<>>
  <2>1. DropEmpty(s, c) = t
    BY <1>3 DEF DropEmpty
  <2>2. \A a, b \in Nat : Contig(Unsents(q), a, b) => Contig(Unsents(v), a, b)
    <3> HIDE DEF q
    <3> QED  BY <1>1, <1>3, ContigDrop
  <2> HIDE DEF v
  <2>3. /\ t.svrdata = s.svrdata /\ t.out = s.out /\ t.task = s.task /\ t.flags = s.flags
        /\ t.inq = [s.inq EXCEPT ![c] = v]
    BY DEF Memory
  <2> HIDE DEF t
  <2>4. t.inq[c] = v /\ t.inq[Peer(c)] = s.inq[Peer(c)]
    BY <1>1, <2>3, PeerConn
  <2> QED  BY <2>1, <2>2, <2>3, <2>4
<1> QED  BY <1>2, <1>3

LEMMA RaiseFields ==
  ASSUME NEW s \in Memory, NEW c \in Conn, NEW f
  PROVE  LET t == Raise(s, c, f)
         IN  /\ t.svrdata = s.svrdata /\ t.inq = s.inq /\ t.out = s.out /\ t.task = s.task
             /\ t.flags[c] = s.flags[c] \union {f}
             /\ \A x \in Conn \ {c} : t.flags[x] = s.flags[x]
<1> DEFINE t == Raise(s, c, f)
<1>1. s.flags \in [Conn -> SUBSET Flag]
  BY DEF Memory
<1>2. /\ t.svrdata = s.svrdata /\ t.inq = s.inq /\ t.out = s.out /\ t.task = s.task
      /\ t.flags = [s.flags EXCEPT ![c] = s.flags[c] \union {f}]
  BY DEF Memory, Raise
<1> HIDE DEF t
<1>3. t.flags[c] = s.flags[c] \union {f} /\ \A x \in Conn \ {c} : t.flags[x] = s.flags[x]
  BY <1>1, <1>2
<1> QED  BY <1>2, <1>3 DEF t

\* What reading from c does to the streams: the bytes read are queued and a
\* task waits for them; the end of the stream is marked when the kernel
\* reported it.
Reads(s, c, t, ends) ==
  /\ t.svrdata = s.svrdata /\ t.out = s.out /\ t.inq[Peer(c)] = s.inq[Peer(c)]
  /\ t.task[Peer(c)] = s.task[Peer(c)]
  /\ \A x \in Conn :
       /\ "SHUTWR" \in t.flags[x] <=> "SHUTWR" \in s.flags[x]
       /\ "SHUTRD" \in t.flags[x] => "SHUTRD" \in s.flags[x] \/ (x = c /\ ends)

LEMMA RecvClosedView ==
  ASSUME NEW s \in Memory, NEW kc \in Socket, NEW c \in Conn,
         NEW r \in RecvOutcome(s, kc, c), s.inq[c] = <<>>
  PROVE  LET s1 == Received(s, c, r)
             s2 == Raise(s1, c, "SHUTRD")
             s3 == IF s.ssl[c] # "NULL"
                   THEN AddEvent(Raise(s2, c, "SSLSHUT"), c, FD_OUT, "shutdown")
                   ELSE AddEvent(s2, c, {}, "NULL")
             t  == DropEmpty(s3, c)
         IN  /\ t \in Memory /\ Reads(s, c, t, TRUE)
             /\ \A a, b \in Nat : a <= b /\ r.data = Run(a, b) => Contig(Unsents(t.inq[c]), a, b)
<1> DEFINE s1 == Received(s, c, r)
           s2 == Raise(s1, c, "SHUTRD")
           s4 == Raise(s2, c, "SSLSHUT")
           e1 == AddEvent(s4, c, FD_OUT, "shutdown")
           e2 == AddEvent(s2, c, {}, "NULL")
           s3 == IF s.ssl[c] # "NULL" THEN e1 ELSE e2
           t  == DropEmpty(s3, c)
<1>1. /\ s1.svrdata = s.svrdata /\ s1.out = s.out /\ s1.task = s.task /\ s1.flags = s.flags
      /\ s1.inq[Peer(c)] = s.inq[Peer(c)]
  BY ReceivedView
<1>2. \A a, b \in Nat : a <= b /\ r.data = Run(a, b) => Contig(Unsents(s1.inq[c]), a, b)
  BY ReceivedView
<1>3. s1 \in Memory
  BY ReceivedKeeps DEF Keeps
<1> HIDE DEF s1
<1>4. /\ s2 \in Memory
      /\ s2.svrdata = s1.svrdata /\ s2.inq = s1.inq /\ s2.out = s1.out /\ s2.task = s1.task
      /\ s2.flags[c] = s1.flags[c] \union {"SHUTRD"}
      /\ \A x \in Conn \ {c} : s2.flags[x] = s1.flags[x]
  <2>1. s2 \in Memory
    BY <1>3, RaiseClearKeeps, HandlerConstants DEF Keeps
  <2> QED  BY <1>3, <2>1, RaiseFields
<1> HIDE DEF s2
<1>5. Alike(s2, s4) /\ s4 \in Memory /\ Alike(s2, e2) /\ e2 \in Memory
  BY <1>4, AlikeRaise, AlikeEvent, RaiseClearKeeps, AddEventKeeps, HandlerConstants DEF Keeps
<1> HIDE DEF s4, e2
<1>6. Alike(s4, e1) /\ e1 \in Memory
  BY <1>5, AlikeEvent, AddEventKeeps, HandlerConstants DEF Keeps
<1> HIDE DEF e1
<1>7. Alike(s2, s3) /\ s3 \in Memory
  BY <1>5, <1>6, AlikeTrans
<1>8. s3 = IF s.ssl[c] # "NULL"
           THEN AddEvent(Raise(s2, c, "SSLSHUT"), c, FD_OUT, "shutdown")
           ELSE AddEvent(s2, c, {}, "NULL")
  BY DEF e1, e2, s4
<1> HIDE DEF s3
<1>9. /\ t.svrdata = s3.svrdata /\ t.out = s3.out /\ t.task = s3.task /\ t.flags = s3.flags
      /\ t.inq[Peer(c)] = s3.inq[Peer(c)]
      /\ \A a, b \in Nat : Contig(Unsents(s3.inq[c]), a, b) => Contig(Unsents(t.inq[c]), a, b)
  BY <1>7, DropView
<1>10. t \in Memory
  BY <1>7, DropEmptyKeeps DEF Keeps
<1> HIDE DEF t
<1>11. s3.inq = s1.inq /\ s3.svrdata = s1.svrdata /\ s3.out = s1.out /\ s3.task = s1.task
  BY <1>4, <1>7 DEF Alike
<1>12. \A x \in Conn : /\ "SHUTWR" \in t.flags[x] <=> "SHUTWR" \in s.flags[x]
                       /\ "SHUTRD" \in t.flags[x] => "SHUTRD" \in s.flags[x] \/ x = c
  BY <1>1, <1>4, <1>7, <1>9 DEF Alike
<1>13. \A a, b \in Nat : a <= b /\ r.data = Run(a, b) => Contig(Unsents(t.inq[c]), a, b)
  BY <1>2, <1>9, <1>11
<1>14. Reads(s, c, t, TRUE)
  BY <1>1, <1>9, <1>11, <1>12 DEF Reads
<1> QED  BY <1>8, <1>10, <1>13, <1>14 DEF t, s2, s1

LEMMA ReadsTask ==
  ASSUME NEW s, NEW c \in Conn, NEW t \in Memory, NEW ends, Reads(s, c, t, ends),
         NEW v \in TaskType
  PROVE  LET u == AddTask(t, c, v)
         IN  /\ Reads(s, c, u, ends) /\ u.inq = t.inq /\ u.task[c] = v /\ task_in_queue(u, c)
<1> DEFINE u == AddTask(t, c, v)
<1>1. AlikeBut(t, c, u) /\ u.task[c] = v /\ task_in_queue(u, c)
  BY AddTaskView
<1> HIDE DEF u
<1>2. Reads(s, c, u, ends)
  BY <1>1 DEF Reads, AlikeBut
<1> QED  BY <1>1, <1>2 DEF u, AlikeBut

\* What a read returns: the first bytes that wait, nothing from a broken
\* connection, and the end only when the remote program hung up.
LEMMA RecvFacts ==
  ASSUME NEW s \in Memory, NEW kc \in Socket, NEW c \in Conn,
         NEW r \in RecvOutcome(s, kc, c)
  PROVE  /\ r.closed => kc.fin
         /\ kc.rst => r.data = <<>>
         /\ Len(r.data) \in 0..Len(kc.rcv) /\ r.data = SubSeq(kc.rcv, 1, Len(r.data))
         /\ r.n \in {"data", "error", "nomem"} /\ (r.n # "data" => r.data = <<>>)
<1> DEFINE q == kc.rcv
<1>1. q \in Seq(Nat) /\ Len(q) \in Nat
  BY DEF Socket
<1>2. \A m \in 0..Len(q) : Len(SubSeq(q, 1, m)) = m
  BY <1>1
<1>3. Len(r.data) \in 0..Len(q)
  BY RecvOutcomeType
<1>4. SubSeq(q, 1, 0) = <<>>
  BY <1>1
<1> HIDE DEF q
<1>5. CASE r.n = "data"
  <2>1. /\ r.data \in {SubSeq(q, 1, m) : m \in 0..Len(q)}
        /\ SockOpen(kc) /\ (r.closed <=> (kc.fin /\ kc.rcv = <<>>))
    BY <1>5 DEF RecvOutcome, q
  <2>2. PICK m \in 0..Len(q) : r.data = SubSeq(q, 1, m)
    BY <2>1
  <2>3. r.data = SubSeq(q, 1, Len(r.data))
    BY <1>2, <2>2
  <2> QED  BY <1>3, <1>5, <2>1, <2>3 DEF q, SockOpen
<1>6. CASE r.n # "data"
  <2>1. r.data = <<>> /\ r.closed = FALSE /\ r.n \in {"error", "nomem"}
    BY <1>6 DEF RecvOutcome
  <2>2. r.data = SubSeq(q, 1, Len(r.data))
    BY <1>4, <2>1
  <2> QED  BY <1>3, <2>1, <2>2 DEF q
<1> QED  BY <1>5, <1>6

LEMMA NothingContig ==
  ASSUME NEW a \in Nat, NEW b \in Nat, a <= b, Run(a, b) = <<>>
  PROVE  Contig(Unsents(<<>>), a, b)
<1>1. Len(Run(a, b)) = b - a /\ Len(<<>>) = 0
  BY RunType
<1>2. a = b
  BY <1>1
<1> QED  BY <1>2, ContigNone, UnsentsNone, Zenon

LEMMA RecvView ==
  ASSUME NEW s \in Memory, NEW kc \in Socket, NEW c \in Conn, NEW mask,
         NEW r \in RecvOutcome(s, kc, c), s.inq[c] = <<>>
  PROVE  LET t == conn_recv_data(s, c, mask, r)
         IN  /\ Reads(s, c, t, r.closed \/ "RDHUP" \in mask)
             /\ t.task[c] # "SEND" /\ task_in_queue(t, c)
             /\ "ERR" \in mask => t.inq[c] = <<>>
             /\ "ERR" \notin mask => \A a, b \in Nat :
                  a <= b /\ r.data = Run(a, b) => Contig(Unsents(t.inq[c]), a, b)
<1> DEFINE ends == r.closed \/ "RDHUP" \in mask
           e1 == Raise(s, c, "ERROR")
           s1 == Received(s, c, r)
           e2 == Raise(s1, c, "ERROR")
           s2 == Raise(s1, c, "SHUTRD")
           s3 == IF s.ssl[c] # "NULL"
                 THEN AddEvent(Raise(s2, c, "SSLSHUT"), c, FD_OUT, "shutdown")
                 ELSE AddEvent(s2, c, {}, "NULL")
           d  == DropEmpty(s3, c)
           x  == IF ends THEN d ELSE s1
           t  == conn_recv_data(s, c, mask, r)
<1>1. /\ s1.svrdata = s.svrdata /\ s1.out = s.out /\ s1.task = s.task /\ s1.flags = s.flags
      /\ s1.inq[Peer(c)] = s.inq[Peer(c)]
  BY ReceivedView
<1>2. \A a, b \in Nat : a <= b /\ r.data = Run(a, b) => Contig(Unsents(s1.inq[c]), a, b)
  BY ReceivedView
<1>3. s1 \in Memory
  BY ReceivedKeeps DEF Keeps
<1>4. d \in Memory /\ Reads(s, c, d, TRUE)
  BY RecvClosedView
<1>5. \A a, b \in Nat : a <= b /\ r.data = Run(a, b) => Contig(Unsents(d.inq[c]), a, b)
  BY RecvClosedView
<1>6. /\ r.n \in {"data", "error", "nomem"} /\ (r.n # "data" => r.data = <<>>)
  BY RecvFacts
<1>7. t = IF "ERR" \in mask THEN AddTask(e1, c, "DELETE")
          ELSE IF r.n = "nomem" THEN AddTask(s, c, "DELETE")
          ELSE IF r.n = "error" THEN AddTask(e2, c, "DELETE")
          ELSE AddTask(x, c, "PARSE")
  BY Zenon DEF conn_recv_data
<1> HIDE DEF s1, d, t, ends
<1>8. Reads(s, c, s, ends) /\ Reads(s, c, s1, ends) /\ (ends => Reads(s, c, d, ends))
  <2>1. Reads(s, c, s, ends)
    BY Zenon DEF Reads
  <2>2. Reads(s, c, s1, ends)
    BY <1>1, Zenon DEF Reads
  <2>3. ends => Reads(s, c, d, ends)
    BY <1>4, Zenon DEF Reads
  <2> QED  BY <2>1, <2>2, <2>3, Zenon
<1>9. Alike(s, e1) /\ e1 \in Memory /\ Alike(s1, e2) /\ e2 \in Memory
  BY <1>3, AlikeRaise, RaiseClearKeeps, HandlerConstants DEF Keeps
<1> HIDE DEF e1, e2
<1>10. Reads(s, c, e1, ends) /\ Reads(s, c, e2, ends) /\ e1.inq = s.inq /\ e2.inq = s1.inq
  BY <1>8, <1>9 DEF Reads, Alike
<1>11. CASE "ERR" \in mask
  <2>1. /\ Reads(s, c, AddTask(e1, c, "DELETE"), ends) /\ AddTask(e1, c, "DELETE").inq = e1.inq
        /\ AddTask(e1, c, "DELETE").task[c] = "DELETE" /\ task_in_queue(AddTask(e1, c, "DELETE"), c)
    BY <1>9, <1>10, ReadsTask, HandlerConstants
  <2> QED  BY <1>7, <1>10, <1>11, <2>1 DEF t, ends
<1>12. CASE "ERR" \notin mask /\ r.n = "nomem"
  <2>1. /\ Reads(s, c, AddTask(s, c, "DELETE"), ends) /\ AddTask(s, c, "DELETE").inq = s.inq
        /\ AddTask(s, c, "DELETE").task[c] = "DELETE" /\ task_in_queue(AddTask(s, c, "DELETE"), c)
    BY <1>8, ReadsTask, HandlerConstants
  <2>2. \A a, b \in Nat : a <= b /\ r.data = Run(a, b) => Contig(Unsents(<<>>), a, b)
    BY <1>6, <1>12, NothingContig
  <2>3. t = AddTask(s, c, "DELETE") /\ t.inq[c] = <<>>
    BY <1>7, <1>12, <2>1
  <2> QED  BY <1>12, <2>1, <2>2, <2>3 DEF t, ends
<1>13. CASE "ERR" \notin mask /\ r.n = "error"
  <2>1. /\ Reads(s, c, AddTask(e2, c, "DELETE"), ends) /\ AddTask(e2, c, "DELETE").inq = e2.inq
        /\ AddTask(e2, c, "DELETE").task[c] = "DELETE" /\ task_in_queue(AddTask(e2, c, "DELETE"), c)
    BY <1>9, <1>10, ReadsTask, HandlerConstants
  <2>3. t = AddTask(e2, c, "DELETE") /\ t.inq[c] = s1.inq[c]
    BY <1>7, <1>10, <1>13, <2>1
  <2> QED  BY <1>2, <1>13, <2>1, <2>3 DEF t, ends
<1>14. CASE "ERR" \notin mask /\ r.n = "data"
  <2>1. /\ Reads(s, c, x, ends) /\ x \in Memory
        /\ \A a, b \in Nat : a <= b /\ r.data = Run(a, b) => Contig(Unsents(x.inq[c]), a, b)
    <3>1. CASE ends
      BY <1>4, <1>5, <1>8, <3>1
    <3>2. CASE ~ends
      BY <1>2, <1>3, <1>8, <3>2
    <3> QED  BY <3>1, <3>2
  <2> HIDE DEF x
  <2>2. /\ Reads(s, c, AddTask(x, c, "PARSE"), ends) /\ AddTask(x, c, "PARSE").inq = x.inq
        /\ AddTask(x, c, "PARSE").task[c] = "PARSE" /\ task_in_queue(AddTask(x, c, "PARSE"), c)
    BY <2>1, ReadsTask, HandlerConstants
  <2>3. t = AddTask(x, c, "PARSE")
    BY <1>7, <1>14
  <2> QED  BY <1>14, <2>1, <2>2, <2>3 DEF t, ends
<1> QED  BY <1>6, <1>11, <1>12, <1>13, <1>14

\* A callback of c that leaves what was read from c with a task keeps Base.
LEMMA CallbackBase ==
  ASSUME NEW s, NEW c \in Conn, NEW t, Base(s), Intact(s), s \in Memory, s.fd[c], Links(s, c, t),
         t.svrdata = s.svrdata, t.inq[Peer(c)] = s.inq[Peer(c)],
         t.task[Peer(c)] = s.task[Peer(c)],
         t.inq[c] # <<>> => task_in_queue(t, c) /\ t.task[c] # "SEND"
  PROVE  Base(t) /\ Intact(t)
<1>1. /\ t.alive = s.alive /\ t.fd = s.fd
      /\ t.taskq = s.taskq \/ t.taskq = Append(s.taskq, c)
  BY DEF Links
<1>2. s.taskq \in Seq(Conn)
  BY DEF Memory
<1>3. \A x \in Conn : /\ task_in_queue(s, x) => task_in_queue(t, x)
                      /\ task_in_queue(t, x) => task_in_queue(s, x) \/ x = c
  <2> DEFINE q == s.taskq
             r == Append(q, c)
  <2>1. q \in Seq(Conn)
    BY <1>2
  <2> HIDE DEF q
  <2>2. /\ \A i \in 1..Len(q) : i \in 1..Len(r) /\ r[i] = q[i]
        /\ \A i \in 1..Len(r) : (i \in 1..Len(q) /\ r[i] = q[i]) \/ r[i] = c
    BY <2>1
  <2>3. t.taskq = q \/ t.taskq = r
    BY <1>1 DEF q
  <2> HIDE DEF r
  <2> QED  BY <2>2, <2>3, Zenon DEF task_in_queue, q
<1>4. Intact(t)
  BY <1>1 DEF Intact
<1>5. t.fd[Server] => t.svrdata
  BY <1>1 DEF Base
<1>6. \A x \in Conn : task_in_queue(t, x) => t.alive /\ t.fd[x]
  BY <1>1, <1>3 DEF Base, Intact
<1>7. ASSUME NEW x \in Conn, t.inq[x] # <<>>
      PROVE  task_in_queue(t, x) /\ t.task[x] # "SEND"
  <2>1. x = c \/ x = Peer(c)
    BY PeerConn
  <2> QED  BY <1>3, <1>7, <2>1 DEF Base
<1> QED  BY <1>4, <1>5, <1>6, <1>7, Zenon DEF Base

LEMMA OnlyPeer ==
  ASSUME NEW q \in Seq(Conn), NEW c \in Conn,
         \A i, j \in 1..Len(q) : q[i] = q[j] => i = j,
         \A i \in 1..Len(q) : q[i] # c, \E i \in 1..Len(q) : q[i] = Peer(c)
  PROVE  q = <<Peer(c)>>
<1>1. \A i \in 1..Len(q) : q[i] = Peer(c)
  BY PeerConn
<1>2. Len(q) \in Nat /\ 1 \in 1..Len(q) /\ Len(q) \in 1..Len(q)
  OBVIOUS
<1>3. q[1] = q[Len(q)]
  BY <1>1, <1>2
<1>4. Len(q) = 1
  BY <1>2, <1>3
<1> QED  BY <1>1, <1>2, <1>4

LEMMA ConnFreeView ==
  ASSUME NEW s \in Memory, NEW c \in Conn
  PROVE  conn_free(s, c).svrdata = s.svrdata /\ conn_free(s, c).flags = s.flags
<1> DEFINE a == FreePackets(s, c)
           b == AddEvent(a, c, {}, "NULL")
           t == [b EXCEPT !.fd[c] = FALSE, !.task[c] = "NONE"]
<1>1. a \in Memory
  BY FreePacketsKeeps DEF Keeps
<1>2. a.svrdata = s.svrdata /\ a.flags = s.flags
  BY DEF FreePackets, Memory
<1> HIDE DEF a
<1>3. b \in Memory
  BY <1>1, AddEventKeeps, HandlerConstants DEF Keeps
<1>4. b.svrdata = a.svrdata /\ b.flags = a.flags
  BY <1>1 DEF AddEvent, Memory
<1> HIDE DEF b
<1>5. t.svrdata = b.svrdata /\ t.flags = b.flags
  BY <1>3 DEF Memory
<1>6. conn_free(s, c) = t
  BY Zenon DEF conn_free, a, b
<1> QED  BY <1>2, <1>4, <1>5, <1>6

\* What deleting a session leaves: nothing, or a session that waits for the
\* task of the other connection to delete it.
LEMMA FreeView ==
  ASSUME NEW s, Sound(s), NEW c \in Conn, ~task_in_queue(s, c),
         s.fd[Server] => s.svrdata, c = Server => s.svrdata,
         task_in_queue(s, Peer(c)) => s.fd[Peer(c)]
  PROVE  LET t == session_free(s, c)
         IN  /\ Base(t) /\ ~Intact(t)
             /\ t.svrdata = s.svrdata /\ t.flags = s.flags
             /\ \A x \in Conn : t.fd[x] => s.fd[x]
             /\ t.alive => t.inq[Peer(c)] = s.inq[Peer(c)] /\ t.inq[c] = <<>>
<1> DEFINE p == Peer(c)
           a == conn_free(s, c)
           b == conn_free(a, p)
           x == [a EXCEPT !.task[p] = "DELETE"]
           y == [b EXCEPT !.alive  = FALSE, !.plref  = @ - 1,
                          !.svrref = IF s.svrdata THEN @ - 1 ELSE @]
           t == session_free(s, c)
<1>1. s \in Memory /\ p \in Conn /\ p # c /\ \A z \in Conn : z = c \/ z = p
  BY PeerConn DEF Sound
<1>2. /\ a \in Memory /\ a.alive = s.alive /\ a.taskq = s.taskq
      /\ a.fd = [s.fd EXCEPT ![c] = FALSE] /\ a.inq = [s.inq EXCEPT ![c] = <<>>]
  BY <1>1, ConnFree
<1>3. a.svrdata = s.svrdata /\ a.flags = s.flags
  BY <1>1, ConnFreeView
<1>4. t = IF task_in_queue(a, p) THEN x ELSE y
  BY Zenon DEF session_free
<1>5. Sound(t) /\ t.taskq = s.taskq
  BY SessionFree
<1>6. s.fd \in [Conn -> BOOLEAN] /\ s.taskq \in Seq(Conn) /\ s.inq \in [Conn -> Seq(Packet)]
  BY <1>1 DEF Memory
<1> HIDE DEF a, p, t
<1>7. task_in_queue(a, p) <=> task_in_queue(s, p)
  BY <1>2 DEF task_in_queue
<1>8. CASE task_in_queue(s, p)
  <2>1. t = x
    BY <1>4, <1>7, <1>8
  <2>2. /\ x.svrdata = a.svrdata /\ x.flags = a.flags /\ x.fd = a.fd /\ x.inq = a.inq
        /\ x.alive = a.alive /\ x.task = [a.task EXCEPT ![p] = "DELETE"]
        /\ a.task \in [Conn -> TaskType]
    BY <1>2 DEF Memory
  <2> HIDE DEF x
  <2>3. x.task[p] = "DELETE"
    BY <1>1, <2>2
  <2>4. x.fd[c] = FALSE /\ x.fd[p] = s.fd[p] /\ x.inq[p] = s.inq[p] /\ x.inq[c] = <<>>
    BY <1>1, <1>2, <1>6, <2>2
  <2>5. s.taskq = <<p>>
    <3> DEFINE q == s.taskq
    <3>1. /\ q \in Seq(Conn) /\ \A i, j \in 1..Len(q) : q[i] = q[j] => i = j
          /\ \A i \in 1..Len(q) : q[i] # c
          /\ \E i \in 1..Len(q) : q[i] = Peer(c)
      BY <1>6, <1>8 DEF Sound, task_in_queue, p
    <3> HIDE DEF q
    <3>2. q = <<Peer(c)>>
      BY <3>1, OnlyPeer
    <3> QED  BY <3>2 DEF q, p
  <2>6. ~Intact(t)
    BY <1>3, <2>1, <2>2, <2>4, ConnIs DEF Intact
  <2>7. t.fd[Server] => t.svrdata
    BY <1>1, <1>3, <2>1, <2>2, <2>4, ConnIs
  <2>8. s.alive
    BY <1>1, <2>5 DEF Sound
  <2>9. \A z \in Conn : task_in_queue(t, z) => t.alive /\ t.fd[z]
    <3>1. \A z \in Conn : task_in_queue(t, z) => z = p
      BY <1>5, <2>5 DEF task_in_queue
    <3> QED  BY <1>2, <1>8, <2>1, <2>2, <2>4, <2>8, <3>1 DEF p
  <2>10. \E d \in Conn : t.taskq = <<d>> /\ t.task[d] = "DELETE"
    BY <1>1, <1>5, <2>1, <2>3, <2>5
  <2>11. Base(t)
    BY <2>6, <2>7, <2>9, <2>10, Zenon DEF Base
  <2>12. \A z \in Conn : t.fd[z] => s.fd[z]
    BY <1>1, <2>1, <2>4
  <2>13. t.svrdata = s.svrdata /\ t.flags = s.flags
    BY <1>3, <2>1, <2>2
  <2>14. t.inq[p] = s.inq[p] /\ t.inq[c] = <<>>
    BY <2>1, <2>4
  <2> QED  BY <2>6, <2>11, <2>12, <2>13, <2>14 DEF t, p
<1>9. CASE ~task_in_queue(s, p)
  <2>1. t = y
    BY <1>4, <1>7, <1>9
  <2>2. /\ b \in Memory
        /\ b.fd = [a.fd EXCEPT ![p] = FALSE]
    BY <1>1, <1>2, ConnFree
  <2>3. b.svrdata = a.svrdata /\ b.flags = a.flags
    BY <1>1, <1>2, ConnFreeView
  <2> HIDE DEF b
  <2>4. /\ y.svrdata = b.svrdata /\ y.flags = b.flags /\ y.alive = FALSE
    BY <2>2 DEF Memory
  <2> HIDE DEF y
  <2>5. ~t.alive
    BY <2>1, <2>4
  <2>6. t.taskq = <<>> /\ \A z \in Conn : ~t.fd[z]
    BY <1>5, <2>5 DEF Sound
  <2>7. ~Intact(t)
    BY <2>5 DEF Intact
  <2>8. \A z \in Conn : ~task_in_queue(t, z)
    BY <2>6 DEF task_in_queue
  <2>9. Base(t)
    BY <2>5, <2>6, <2>7, <2>8, ConnIs, Zenon DEF Base
  <2>10. t.svrdata = s.svrdata /\ t.flags = s.flags
    BY <1>3, <2>1, <2>3, <2>4
  <2> QED  BY <2>5, <2>6, <2>7, <2>9, <2>10 DEF t
<1> QED  BY <1>8, <1>9

\* Forwarding for c moves what was read from c behind the output of its peer.
\* It may open the server's socket.
LEMMA GetServerView ==
  ASSUME NEW s \in Memory, NEW c \in Conn
  PROVE  LET t == session_get_server(s, c)
         IN  /\ t.svrdata /\ t.inq = s.inq /\ t.out = s.out /\ t.task = s.task
             /\ t.flags = s.flags /\ t.fd = s.fd
  BY DEF session_get_server, Memory

LEMMA JoinView ==
  ASSUME NEW s, Sound(s), NEW c \in Conn
  PROVE  LET x == session_fparse(s, c)
             j == Joined(x, Peer(c))
         IN  /\ j.inq[c] = <<>> /\ j.inq[Peer(c)] = s.inq[Peer(c)]
             /\ j.out[c] = s.out[c] /\ j.out[Peer(c)] = s.out[Peer(c)] \o s.inq[c]
             /\ j.task = s.task /\ j.flags = s.flags /\ j.svrdata = s.svrdata
             /\ j.fd = s.fd /\ x.fd = s.fd
<1> DEFINE p == Peer(c)
           x == session_fparse(s, c)
           q == s.mid[c] \o s.inq[c]
           j == Joined(x, p)
<1>1. /\ s \in Memory /\ p \in Conn /\ p # c /\ Peer(p) = c
  BY PeerConn DEF Sound
<1>2. /\ s.inq \in [Conn -> Seq(Packet)] /\ s.out \in [Conn -> Seq(Packet)]
      /\ s.mid \in [Conn -> Seq(Packet)]
  BY <1>1 DEF Memory
<1>3. q = s.inq[c]
  <2>1. s.mid[c] = <<>> /\ s.inq[c] \in Seq(Packet)
    BY <1>2 DEF Sound
  <2> QED  BY <2>1
<1> HIDE DEF q, p
<1>4. /\ x.inq = [s.inq EXCEPT ![c] = <<>>] /\ x.mid = [s.mid EXCEPT ![c] = q]
      /\ x.out = s.out /\ x.task = s.task /\ x.flags = s.flags /\ x.svrdata = s.svrdata
      /\ x.fd = s.fd
  BY <1>1 DEF session_fparse, Memory, q
<1>5. x = [s EXCEPT !.mid[c] = q, !.inq[c] = <<>>]
  BY DEF session_fparse, q
<1>6. q \in Seq(Packet)
  BY <1>2, <1>3
<1>7. x \in Memory
  <2> DEFINE y == [s EXCEPT !.mid[c] = q]
  <2>1. y \in Memory
    BY <1>1, <1>6, SetQueue
  <2>3. <<>> \in Seq(Packet)
    OBVIOUS
  <2>2. x = [y EXCEPT !.inq[c] = <<>>]
    BY <1>5, Zenon
  <2> HIDE DEF y, x
  <2> QED  BY <2>1, <2>2, <2>3, SetQueue, Zenon
<1> HIDE DEF x
<1>8. /\ j.out = [x.out EXCEPT ![p] = x.out[p] \o x.mid[c]] /\ j.inq = x.inq
      /\ j.task = x.task /\ j.flags = x.flags /\ j.svrdata = x.svrdata /\ j.fd = x.fd
  BY <1>1, <1>7 DEF Joined, Memory
<1> HIDE DEF j
<1>9. x.mid[c] = s.inq[c]
  BY <1>2, <1>3, <1>4
<1>10. j.out[p] = s.out[p] \o s.inq[c] /\ j.out[c] = s.out[c]
  <2> DEFINE z == x.out[p] \o x.mid[c]
  <2>1. z = s.out[p] \o s.inq[c]
    BY <1>4, <1>9
  <2>2. j.out = [s.out EXCEPT ![p] = z]
    BY <1>4, <1>8
  <2> HIDE DEF z
  <2>3. j.out[p] = z /\ j.out[c] = s.out[c]
    BY <1>1, <1>2, <2>2
  <2> QED  BY <2>1, <2>3
<1>11. j.inq[c] = <<>> /\ j.inq[p] = s.inq[p]
  BY <1>1, <1>2, <1>4, <1>8
<1> QED  BY <1>4, <1>8, <1>10, <1>11 DEF j, x, p

\* From j to t the server may have been chosen, and connected.
Connects(j, p, t) ==
  /\ t.inq = j.inq /\ t.out = j.out /\ t.task = j.task
  /\ \A x \in Conn : /\ "SHUTRD" \in t.flags[x] <=> "SHUTRD" \in j.flags[x]
                     /\ "SHUTWR" \in t.flags[x] <=> "SHUTWR" \in j.flags[x]
  /\ t.svrdata = j.svrdata \/ (~j.fd[p] /\ t.svrdata)
  /\ t.fd = j.fd \/ (~j.fd[p] /\ t.svrdata /\ t.fd = [j.fd EXCEPT ![p] = TRUE])

LEMMA ConnectsAlike ==
  ASSUME NEW j, NEW p, NEW t, NEW u, Connects(j, p, t), Alike(t, u), u.fd = t.fd
  PROVE  Connects(j, p, u)
<1>1. \A x \in Conn : /\ "SHUTRD" \in u.flags[x] <=> "SHUTRD" \in j.flags[x]
                      /\ "SHUTWR" \in u.flags[x] <=> "SHUTWR" \in j.flags[x]
  BY DEF Connects, Alike
<1>2. /\ u.inq = j.inq /\ u.out = j.out /\ u.task = j.task
      /\ u.svrdata = t.svrdata
  BY DEF Connects, Alike
<1>3. /\ u.svrdata = j.svrdata \/ (~j.fd[p] /\ u.svrdata)
      /\ u.fd = j.fd \/ (~j.fd[p] /\ u.svrdata /\ u.fd = [j.fd EXCEPT ![p] = TRUE])
  BY <1>2, Zenon DEF Connects
<1> QED  BY <1>1, <1>2, <1>3, Zenon DEF Connects

LEMMA ForwardView ==
  ASSUME NEW s, NEW c \in Conn, NEW f \in {"noserver", "fail", "wait", "now"},
         Joined(s, c) \in Memory, s.fd = Joined(s, c).fd
  PROVE  LET t == session_forward(s, c, f)
         IN  Connects(Joined(s, c), c, t) /\ (f \in {"wait", "now"} => t.fd[c])
<1> DEFINE j  == Joined(s, c)
           g  == session_get_server(j, c)
           o  == [g EXCEPT !.fd[c] = TRUE]
           oa == Raise(o, c, "HSK")
           wa == AddEvent(oa, c, FD_OUT, "handshake")
           fl == o.flags[c] \union {"SSLHSK"}
           up == [o EXCEPT !.ssl[c] = "fd", !.flags[c] = fl]
           ua == AddEvent(up, c, FD_OUT, "handshake")
           na == AddEvent(o, c, FD_IN, "recv")
           t  == session_forward(s, c, f)
<1>1. j \in Memory /\ s.fd = j.fd /\ j.fd \in [Conn -> BOOLEAN]
  BY DEF Memory
<1>2. t = IF s.fd[c] THEN j
          ELSE CASE f = "noserver" -> j
                 [] f = "fail"     -> g
                 [] f = "wait"     -> wa
                 [] f = "now"      -> IF g.ssl[c] # "NULL" THEN ua ELSE na
  BY DEF session_forward
<1> HIDE DEF t, j
<1>3. Connects(j, c, j)
  BY DEF Connects
<1>4. CASE s.fd[c] \/ f = "noserver"
  <2>1. t = j
    BY <1>2, <1>4
  <2> QED  BY <1>1, <1>3, <1>4, <2>1 DEF t, j
<1>5. CASE ~s.fd[c] /\ f # "noserver"
  <2>1. g \in Memory
    BY <1>1, GetServerOpens DEF Opens
  <2>2. /\ g.svrdata /\ g.inq = j.inq /\ g.out = j.out /\ g.task = j.task
        /\ g.flags = j.flags /\ g.fd = j.fd
    BY <1>1, GetServerView
  <2> HIDE DEF g
  <2>3. Connects(j, c, g)
    BY <1>1, <1>5, <2>2 DEF Connects
  <2>4. o \in Memory
    BY <2>1, OpensFd DEF Opens
  <2>5. /\ o.svrdata = g.svrdata /\ o.inq = g.inq /\ o.out = g.out /\ o.task = g.task
        /\ o.flags = g.flags /\ o.fd = [g.fd EXCEPT ![c] = TRUE]
    BY <2>1 DEF Memory
  <2> HIDE DEF o
  <2>6. Connects(j, c, o) /\ o.fd[c]
    BY <1>1, <1>5, <2>2, <2>5 DEF Connects
  <2>7. /\ Alike(o, oa) /\ oa \in Memory /\ oa.fd = o.fd
    BY <2>4, AlikeRaise, RaiseClearKeeps, HandlerConstants DEF Keeps
  <2> HIDE DEF oa
  <2>8. Alike(oa, wa) /\ wa.fd = oa.fd /\ Alike(o, na) /\ na.fd = o.fd
    BY <2>4, <2>7, AlikeEvent, AddEventKeeps, HandlerConstants DEF Keeps
  <2> HIDE DEF wa, na
  <2>9. /\ fl \in SUBSET Flag
        /\ "SHUTRD" \in fl <=> "SHUTRD" \in o.flags[c]
        /\ "SHUTWR" \in fl <=> "SHUTWR" \in o.flags[c]
    BY <2>4 DEF Memory, Flag
  <2> HIDE DEF fl
  <2>10. up \in Memory
    BY <2>4, <2>9 DEF Memory
  <2>11. /\ up.svrdata = o.svrdata /\ up.inq = o.inq /\ up.out = o.out /\ up.task = o.task
         /\ up.flags = [o.flags EXCEPT ![c] = fl] /\ up.fd = o.fd
         /\ o.flags \in [Conn -> SUBSET Flag]
    BY <2>4 DEF Memory
  <2> HIDE DEF up
  <2>12. Alike(o, up)
    <3>1. \A x \in Conn : up.flags[x] = IF x = c THEN fl ELSE o.flags[x]
      BY <2>11
    <3>2. \A x \in Conn : /\ "SHUTRD" \in up.flags[x] <=> "SHUTRD" \in o.flags[x]
                          /\ "SHUTWR" \in up.flags[x] <=> "SHUTWR" \in o.flags[x]
      BY <2>9, <3>1
    <3> QED  BY <2>11, <3>2, Zenon DEF Alike
  <2>13. Alike(up, ua) /\ ua.fd = up.fd
    BY <2>10, AlikeEvent, AddEventKeeps, HandlerConstants DEF Keeps
  <2> HIDE DEF ua
  <2>14. Alike(o, wa) /\ Alike(o, ua) /\ wa.fd = o.fd /\ ua.fd = o.fd
    BY <2>7, <2>8, <2>11, <2>12, <2>13, AlikeTrans
  <2>15. Connects(j, c, wa) /\ Connects(j, c, ua) /\ Connects(j, c, na)
    BY <2>6, <2>8, <2>14, ConnectsAlike
  <2>16. t \in {g, wa, ua, na} /\ (f \in {"wait", "now"} => t \in {wa, ua, na})
    BY <1>2, <1>5
  <2>17. Connects(j, c, t)
    BY <2>3, <2>15, <2>16, Zenon
  <2>18. f \in {"wait", "now"} => t.fd[c]
    BY <2>6, <2>8, <2>14, <2>16
  <2> QED  BY <2>17, <2>18 DEF t, j
<1> QED  BY <1>4, <1>5

-----------------------------------------------------------------------------
(* The invariant of the streams.                                           *)

\* A stream of g bytes: z was written, o is the output, i is what was read and
\* not parsed yet, and x is the socket that it comes from.
Flow(z, o, i, x, g) ==
  \E n, m, j \in 0..g : /\ z = Run(0, n)
                        /\ Contig(Unsents(o), n, m) /\ Contig(Unsents(i), m, j)
                        /\ x.rst \/ x.rcv = Run(j, g)

Flows(s, kk, zz, gg) ==
  \A c \in Conn : Flow(zz[c], s.out[c], s.inq[Peer(c)], kk[Peer(c)], gg[Peer(c)])

Lead(z, g) == \E n \in 0..g : z = Run(0, n)

\* What the worker knows of its sockets agrees with the kernel.
Agrees(s, kk) ==
  \A c \in Conn : IF s.fd[c] THEN kk[c].st # "closed" ELSE kk[c] = NoSock

\* A remote program that hung up is known by its socket, and by it alone.
Net(s, kk, hh) ==
  /\ Agrees(s, kk)
  /\ \A c \in Conn : /\ kk[c].fin \/ kk[c].rst => c \in hh
                     /\ c \in hh /\ s.fd[c] => kk[c].fin \/ kk[c].rst
                     /\ "SHUTRD" \in s.flags[c] => c \in hh
  /\ Intact(s) /\ ~s.fd[Server] => Server \notin hh

Poll ==
  /\ \A i \in 1..Len(batch) :
       batch[i].fd \in Conn /\ "RDHUP" \in batch[i].mask => batch[i].fd \in hung
  /\ phase = "poll" /\ w.alive => Intact(w)

Wrote(zz, gg) == zz \in [Conn -> Seq(Nat)] /\ \A c \in Conn : Lead(zz[c], gg[Peer(c)])

SInv ==
  /\ Base(w) /\ Net(w, k, hung) /\ Poll /\ Wrote(wrote, sent)
  /\ Intact(w) => Flows(w, k, wrote, sent)

LEMMA FlowLead ==
  ASSUME NEW z, NEW o, NEW i, NEW x, NEW g, Flow(z, o, i, x, g)
  PROVE  Lead(z, g)
  BY Zenon DEF Flow, Lead

LEMMA FlowsWrote ==
  ASSUME NEW s, NEW kk, NEW zz, NEW gg, zz \in [Conn -> Seq(Nat)], Flows(s, kk, zz, gg)
  PROVE  Wrote(zz, gg)
<1>1. \A c \in Conn : Lead(zz[c], gg[Peer(c)])
  BY FlowLead, Zenon DEF Flows
<1> QED  BY <1>1, Zenon DEF Wrote

\* The streams depend on the packets, and on what waits in the sockets.
LEMMA FlowsSame ==
  ASSUME NEW s, NEW t, NEW kk, NEW ll, NEW zz, NEW gg, Flows(s, kk, zz, gg),
         t.out = s.out, t.inq = s.inq,
         \A c \in Conn : ll[c].rst = kk[c].rst /\ ll[c].rcv = kk[c].rcv
  PROVE  Flows(t, ll, zz, gg)
<1> SUFFICES ASSUME NEW c \in Conn
             PROVE  Flow(zz[c], t.out[c], t.inq[Peer(c)], ll[Peer(c)], gg[Peer(c)])
  BY Zenon DEF Flows
<1>1. Flow(zz[c], s.out[c], s.inq[Peer(c)], kk[Peer(c)], gg[Peer(c)])
  BY DEF Flows
<1>2. ll[Peer(c)].rst = kk[Peer(c)].rst /\ ll[Peer(c)].rcv = kk[Peer(c)].rcv
  BY PeerConn
<1> QED  BY <1>1, <1>2, Zenon DEF Flow

\* From zz to y more bytes were written to c, at most the g that were sent.
Advances(zz, c, y, g) ==
  \E n, m \in 0..g : n <= m /\ zz[c] = Run(0, n) /\ y = [zz EXCEPT ![c] = Run(0, m)]

LEMMA SendFlows ==
  ASSUME NEW s \in Memory, NEW c \in Conn, NEW kc, NEW free \in Int,
         NEW o \in SendOutcome(s, c, kc, free), NEW kk,
         NEW zz \in [Conn -> Seq(Nat)], NEW gg \in [Conn -> Nat], Flows(s, kk, zz, gg),
         NEW y, y = [zz EXCEPT ![c] = @ \o SentBytes(s, c, o)]
  PROVE  /\ y \in [Conn -> Seq(Nat)] /\ Flows(conn_send_data(s, c, o), kk, y, gg)
         /\ Advances(zz, c, y, gg[Peer(c)])
<1> DEFINE t == conn_send_data(s, c, o)
           d == SentBytes(s, c, o)
           p == Peer(c)
           v == zz[c] \o d
<1>1. /\ t.inq = s.inq /\ t.out[p] = s.out[p]
  BY SendView
<1>2. \A a, b \in Nat : Contig(Unsents(s.out[c]), a, b) =>
                  \E m \in a..b : /\ d = Run(a, m) /\ Contig(Unsents(t.out[c]), m, b)
  BY SendView
<1>3. p \in Conn /\ p # c /\ Peer(p) = c /\ gg[p] \in Nat /\ \A x \in Conn : x = c \/ x = p
  BY PeerConn
<1>17. y = [zz EXCEPT ![c] = v]
  OBVIOUS
<1> HIDE DEF t, d, p
<1>4. Flow(zz[c], s.out[c], s.inq[p], kk[p], gg[p])
  BY DEF Flows, p
<1>5. PICK n, m, j \in 0..gg[p] :
        /\ zz[c] = Run(0, n)
        /\ Contig(Unsents(s.out[c]), n, m) /\ Contig(Unsents(s.inq[p]), m, j)
        /\ kk[p].rst \/ kk[p].rcv = Run(j, gg[p])
  BY <1>4, Zenon DEF Flow
<1>6. n \in Nat /\ m \in Nat /\ j \in Nat /\ m <= gg[p]
  BY <1>3
<1>7. PICK x \in n..m : d = Run(n, x) /\ Contig(Unsents(t.out[c]), x, m)
  BY <1>2, <1>5, <1>6
<1>8. x \in Nat /\ x \in 0..gg[p] /\ n <= x /\ 0 \in Nat /\ 0 <= n /\ 0 <= x
  <2> DEFINE e == gg[p]
  <2>1. e \in Nat /\ m <= e
    BY <1>3, <1>6
  <2> HIDE DEF e
  <2>2. x \in Nat /\ x \in 0..e /\ n <= x /\ 0 \in Nat /\ 0 <= n /\ 0 <= x
    BY <1>6, <2>1
  <2> QED  BY <2>2 DEF e
<1>9. v = Run(0, x)
  <2>1. Run(0, n) \o Run(n, x) = Run(0, x)
    BY <1>6, <1>8, RunJoin
  <2> QED  BY <1>5, <1>7, <2>1
<1>10. Run(0, x) \in Seq(Nat)
  BY <1>8, RunType
<1> HIDE DEF v
<1>11. y \in [Conn -> Seq(Nat)] /\ y[c] = Run(0, x) /\ y[p] = zz[p]
  BY <1>3, <1>9, <1>10, <1>17
<1>12. y = [zz EXCEPT ![c] = Run(0, x)]
  BY <1>9, <1>17
<1>13. Flow(y[c], t.out[c], t.inq[p], kk[p], gg[p])
  BY <1>1, <1>5, <1>7, <1>8, <1>11, Zenon DEF Flow
<1>14. Flow(y[p], t.out[p], t.inq[c], kk[c], gg[c])
  <2>1. Flow(zz[p], s.out[p], s.inq[Peer(p)], kk[Peer(p)], gg[Peer(p)])
    BY <1>3, Zenon DEF Flows
  <2> QED  BY <1>1, <1>3, <1>11, <2>1
<1>15. Flows(t, kk, y, gg)
  <2> SUFFICES ASSUME NEW z \in Conn
               PROVE  Flow(y[z], t.out[z], t.inq[Peer(z)], kk[Peer(z)], gg[Peer(z)])
    BY Zenon DEF Flows
  <2>1. CASE z = c
    BY <1>13, <2>1 DEF p
  <2>2. CASE z = p
    BY <1>3, <1>14, <2>2
  <2> QED  BY <1>3, <2>1, <2>2
<1>16. Advances(zz, c, y, gg[p])
  BY <1>5, <1>8, <1>12 DEF Advances
<1> QED  BY <1>11, <1>15, <1>16 DEF t, p

LEMMA SocketsAgree ==
  ASSUME NEW s \in Memory, NEW kk \in [Conn -> Socket]
  PROVE  Agrees(s, Sockets(s, kk))
<1> SUFFICES ASSUME NEW c \in Conn
             PROVE  IF s.fd[c] THEN Sockets(s, kk)[c].st # "closed" ELSE Sockets(s, kk)[c] = NoSock
  BY Zenon DEF Agrees
<1> DEFINE v == IF "HSK" \in s.flags[c] THEN "connecting" ELSE "up"
<1>1. Sockets(s, kk)[c] = IF ~s.fd[c] THEN NoSock
                          ELSE IF kk[c].st # "closed" THEN kk[c] ELSE [NoSock EXCEPT !.st = v]
  BY DEF Sockets
<1>2. v # "closed"
  OBVIOUS
<1> HIDE DEF v
<1>3. [NoSock EXCEPT !.st = v].st = v
  BY DEF NoSock
<1> QED  BY <1>1, <1>2, <1>3

LEMMA SocketsSame ==
  ASSUME NEW s, NEW u, NEW kk \in [Conn -> Socket], Agrees(u, kk), s.fd = u.fd
  PROVE  Sockets(s, kk) = kk
<1>1. \A c \in Conn : (s.fd[c] => kk[c].st # "closed") /\ (~s.fd[c] => kk[c] = NoSock)
  BY DEF Agrees
<1>2. \A c \in Conn : Sockets(s, kk)[c] = kk[c]
  BY <1>1 DEF Sockets
<1>3. DOMAIN Sockets(s, kk) = Conn /\ Sockets(s, kk) = [c \in Conn |-> Sockets(s, kk)[c]]
  BY DEF Sockets
<1>4. kk = [c \in Conn |-> kk[c]]
  OBVIOUS
<1> QED  BY <1>2, <1>3, <1>4

LEMMA SocketsOpen ==
  ASSUME NEW s, NEW u, NEW kk \in [Conn -> Socket], Agrees(u, kk), NEW c \in Conn
  PROVE  LET x == Sockets(s, kk)[c]
         IN  /\ s.fd[c] => x.rst = kk[c].rst /\ x.rcv = kk[c].rcv /\ x.fin = kk[c].fin
             /\ ~s.fd[c] => x = NoSock
<1> DEFINE v == IF "HSK" \in s.flags[c] THEN "connecting" ELSE "up"
           x == Sockets(s, kk)[c]
           y == [NoSock EXCEPT !.st = v]
<1>1. x = IF ~s.fd[c] THEN NoSock
          ELSE IF kk[c].st # "closed" THEN kk[c] ELSE y
  BY DEF Sockets
<1>2. kk[c].st = "closed" => kk[c] = NoSock
  BY DEF Agrees
<1> HIDE DEF v, x
<1>3. y.rst = NoSock.rst /\ y.rcv = NoSock.rcv /\ y.fin = NoSock.fin
  BY DEF NoSock
<1> HIDE DEF y
<1> QED  BY <1>1, <1>2, <1>3 DEF x

\* Sockets that a task closes or opens keep the agreement.
LEMMA NetAfter ==
  ASSUME NEW u, NEW s \in Memory, NEW kk \in [Conn -> Socket], NEW hh, Net(u, kk, hh),
         \A c \in Conn : s.fd[c] /\ ~u.fd[c] => c = Server /\ Intact(u),
         \A c \in Conn : "SHUTRD" \in s.flags[c] => "SHUTRD" \in u.flags[c],
         Intact(s) /\ ~s.fd[Server] => Intact(u) /\ ~u.fd[Server]
  PROVE  Net(s, Sockets(s, kk), hh)
<1> DEFINE ll == Sockets(s, kk)
<1>1. Agrees(s, ll)
  BY SocketsAgree
<1>2. \A c \in Conn :
        /\ s.fd[c] => ll[c].rst = kk[c].rst /\ ll[c].rcv = kk[c].rcv /\ ll[c].fin = kk[c].fin
        /\ ~s.fd[c] => ll[c] = NoSock
  BY SocketsOpen DEF Net
<1> HIDE DEF ll
<1>3. NoSock.fin = FALSE /\ NoSock.rst = FALSE
  BY DEF NoSock
<1>4. ASSUME NEW c \in Conn
      PROVE  /\ ll[c].fin \/ ll[c].rst => c \in hh
             /\ c \in hh /\ s.fd[c] => ll[c].fin \/ ll[c].rst
             /\ "SHUTRD" \in s.flags[c] => c \in hh
  <2>1. /\ kk[c].fin \/ kk[c].rst => c \in hh
        /\ c \in hh /\ u.fd[c] => kk[c].fin \/ kk[c].rst
        /\ "SHUTRD" \in u.flags[c] => c \in hh
    BY Zenon DEF Net
  <2>2. ll[c].fin \/ ll[c].rst => c \in hh
    BY <1>2, <1>3, <2>1
  <2>3. "SHUTRD" \in s.flags[c] => c \in hh
    BY <2>1
  <2>4. ASSUME c \in hh, s.fd[c] PROVE ll[c].fin \/ ll[c].rst
    <3>1. u.fd[c]
      BY <2>4 DEF Net
    <3> QED  BY <1>2, <2>1, <2>4, <3>1
  <2> QED  BY <2>2, <2>3, <2>4
<1>5. Intact(s) /\ ~s.fd[Server] => Server \notin hh
  BY DEF Net
<1>6. Net(s, ll, hh)
  BY <1>1, <1>4, <1>5, Zenon DEF Net
<1> QED  BY <1>6 DEF ll

-----------------------------------------------------------------------------
(* Steps of the relay.                                                     *)

EndedOf(s) == {c \in Conn : "SHUTWR" \in s.flags[c]}

LEMMA StutterStep ==
  ASSUME w'.alive = w.alive, EndedOf(w)' = EndedOf(w), UNCHANGED <<sent, hung, wrote>>
  PROVE  [R!RelayNext]_(R!rvars)
  BY DEF R!rvars, EndedOf

LEMMA EndStep ==
  ASSUME w.alive, ~w'.alive, EndedOf(w)' = EndedOf(w), UNCHANGED <<sent, hung, wrote>>
  PROVE  [R!RelayNext]_(R!rvars)
  BY DEF R!RelayNext, R!End, EndedOf

LEMMA OpenStep ==
  ASSUME ~w.alive, w'.alive, EndedOf(w)' = {}, hung' = {},
         sent' = [c \in Conn |-> 0], wrote' = [c \in Conn |-> <<>>]
  PROVE  [R!RelayNext]_(R!rvars)
  BY DEF R!RelayNext, R!Open, EndedOf

LEMMA EmitStep ==
  ASSUME w.alive, NEW c \in Conn, c \notin hung, sent' = [sent EXCEPT ![c] = @ + 1],
         UNCHANGED <<w, hung, wrote>>
  PROVE  [R!RelayNext]_(R!rvars)
<1>1. R!Emit(c)
  BY DEF R!Emit
<1> QED  BY <1>1 DEF R!RelayNext

LEMMA HangUpStep ==
  ASSUME w.alive, NEW c \in Conn, hung' = hung \union {c}, UNCHANGED <<w, sent, wrote>>
  PROVE  [R!RelayNext]_(R!rvars)
<1>1. CASE c \in hung
  <2>1. hung' = hung
    BY <1>1
  <2>2. w'.alive = w.alive /\ EndedOf(w)' = EndedOf(w)
    BY DEF EndedOf
  <2> QED  BY <2>1, <2>2, StutterStep
<1>2. CASE c \notin hung
  <2>1. R!HangUp(c)
    BY <1>2 DEF R!HangUp
  <2> QED  BY <2>1 DEF R!RelayNext
<1> QED  BY <1>1, <1>2

\* Bytes written to c are delivered, in order; the end may come with them.
LEMMA DeliverStep ==
  ASSUME w.alive, w'.alive \in BOOLEAN, NEW c \in Conn, wrote \in [Conn -> Seq(Nat)],
         sent \in [Conn -> Nat],
         NEW n \in 0..sent[Peer(c)], NEW m \in 0..sent[Peer(c)], n <= m,
         wrote[c] = Run(0, n), wrote' = [wrote EXCEPT ![c] = Run(0, m)],
         UNCHANGED <<sent, hung>>,
         EndedOf(w)' = EndedOf(w) \/ (Peer(c) \in hung /\ EndedOf(w)' = EndedOf(w) \union {c}),
         c \in EndedOf(w) => n = m
  PROVE  [R!RelayNext]_(R!rvars)
<1> DEFINE e == EndedOf(w)
           g == sent[Peer(c)]
<1>0. g \in Nat /\ n \in Nat /\ m \in Nat /\ m <= g /\ 0 \in Nat /\ 0 <= n /\ 0 <= m
  BY PeerConn
<1>1. CASE c \in e
  <2>1. wrote' = wrote
    BY <1>1
  <2>2. e' = e
    BY <1>1
  <2>3. CASE w'.alive = w.alive
    BY <2>1, <2>2, <2>3, StutterStep
  <2>4. CASE w'.alive # w.alive
    <3>1. ~w'.alive
      BY <2>4
    <3> QED  BY <2>1, <2>2, <3>1, EndStep
  <2> QED  BY <2>3, <2>4
<1>2. CASE c \notin e
  <2>1. Len(wrote[c]) = n
    <3>1. Len(Run(0, n)) = n - 0
      BY <1>0, RunType
    <3> QED  BY <1>0, <3>1
  <2>2. wrote[c] \o Run(n, m) = Run(0, m)
    <3>1. Run(0, n) \o Run(n, m) = Run(0, m)
      BY <1>0, RunJoin
    <3> QED  BY <3>1
  <2>3. Run(n, m) = [i \in 1..(m - Len(wrote[c])) |-> Len(wrote[c]) + i]
    BY <2>1 DEF Run
  <2>4. wrote' = [wrote EXCEPT ![c] = wrote[c] \o [i \in 1..(m - Len(wrote[c])) |-> Len(wrote[c]) + i]]
    BY <2>2, <2>3
  <2>5. m \in Len(wrote[c])..sent[(c + 1) % 2]
    BY <1>0, <2>1 DEF Peer
  <2>6. \E x \in Len(wrote[c])..sent[(c + 1) % 2] :
          wrote' = [wrote EXCEPT ![c] = wrote[c] \o [i \in 1..(x - Len(wrote[c])) |-> Len(wrote[c]) + i]]
    BY <2>4, <2>5
  <2>7. e' = e \/ ((c + 1) % 2 \in hung /\ e' = e \union {c})
    BY DEF Peer
  <2>8. R!Deliver(c)
    BY <1>2, <2>6, <2>7 DEF R!Deliver, R!Other, EndedOf
  <2> QED  BY <2>8 DEF R!RelayNext
<1> QED  BY <1>1, <1>2

\* What a step that shuts down the write side of c leaves.
ShutOK ==
  \A c \in Conn :
    LET p == Peer(c)
    IN  (w'.alive /\ ~k[p].rst /\ "SHUTWR" \in w'.flags[c] \ w.flags[c]) =>
          Len(wrote'[c]) + Len(UnsentOf(w'.inq[p], Len(w'.inq[p]))) = sent[p] - Len(k[p].rcv)

\* The three things to show of every step.
StreamStep == SInv' /\ [R!RelayNext]_(R!rvars) /\ ShutOK

LEMMA ShutSame ==
  ASSUME EndedOf(w)' = EndedOf(w)
  PROVE  ShutOK
<1> SUFFICES ASSUME NEW c \in Conn, "SHUTWR" \in w'.flags[c], "SHUTWR" \notin w.flags[c]
             PROVE  FALSE
  BY DEF ShutOK
<1>1. c \in EndedOf(w)' /\ c \notin EndedOf(w)
  BY DEF EndedOf
<1> QED  BY <1>1

LEMMA RunAppend ==
  ASSUME NEW j \in Nat, NEW g \in Nat, j <= g
  PROVE  Append(Run(j, g), g + 1) = Run(j, g + 1)
<1> DEFINE r == Run(j, g)
           x == Append(r, g + 1)
           y == Run(j, g + 1)
<1>1. g + 1 \in Nat /\ j <= g + 1
  OBVIOUS
<1>2. r \in Seq(Nat) /\ Len(r) = g - j /\ \A i \in 1 .. g - j : r[i] = j + i
  BY RunType
<1>3. y \in Seq(Nat) /\ Len(y) = (g + 1) - j /\ \A i \in 1 .. (g + 1) - j : y[i] = j + i
  BY <1>1, RunType
<1> HIDE DEF r, y
<1>4. /\ x \in Seq(Nat) /\ Len(x) = Len(r) + 1 /\ x[Len(r) + 1] = g + 1
      /\ \A i \in 1..Len(r) : x[i] = r[i]
  BY <1>1, <1>2
<1> HIDE DEF x
<1>5. Len(x) = Len(y)
  BY <1>2, <1>3, <1>4
<1>6. \A i \in 1..Len(x) : x[i] = y[i]
  <2> SUFFICES ASSUME NEW i \in 1..Len(x) PROVE x[i] = y[i]
    OBVIOUS
  <2>1. CASE i \in 1..Len(r)
    BY <1>2, <1>3, <1>4, <2>1
  <2>2. CASE i = Len(r) + 1
    BY <1>2, <1>3, <1>4, <2>2
  <2> QED  BY <1>2, <1>4, <2>1, <2>2
<1>7. x = y
  BY <1>3, <1>4, <1>5, <1>6, SeqEqual
<1> QED  BY <1>7 DEF x, y, r

\* The remote programs: what a program sends follows what it sent before.
LEMMA EnvironmentNet ==
  ASSUME IInv, SInv, NEW c \in Conn, w' = w, phase' = phase, batch' = batch, k' \in [Conn -> Socket],
         k'[Peer(c)] = k[Peer(c)], hung \subseteq hung', hung' \subseteq hung \union {c},
         w.fd[c], k'[c].st # "closed",
         k'[c].fin \/ k'[c].rst <=> c \in hung'
  PROVE  Net(w, k, hung)' /\ Poll'
<1> DEFINE p == Peer(c)
<1>1. p \in Conn /\ p # c /\ \A x \in Conn : x = c \/ x = p
  BY PeerConn
<1> HIDE DEF p
<1>2. \A x \in Conn : x \in hung' /\ x # c => x \in hung
  OBVIOUS
<1>3. Net(w, k, hung)
  BY DEF SInv
<1>4. Agrees(w, k')
  <2> SUFFICES ASSUME NEW x \in Conn
               PROVE  IF w.fd[x] THEN k'[x].st # "closed" ELSE k'[x] = NoSock
    BY Zenon DEF Agrees
  <2>1. IF w.fd[x] THEN k[x].st # "closed" ELSE k[x] = NoSock
    BY <1>3 DEF Net, Agrees
  <2> QED  BY <1>1, <2>1 DEF p
<1>5. ASSUME NEW x \in Conn
      PROVE  /\ k'[x].fin \/ k'[x].rst => x \in hung'
             /\ x \in hung' /\ w.fd[x] => k'[x].fin \/ k'[x].rst
             /\ "SHUTRD" \in w.flags[x] => x \in hung'
  <2>1. /\ k[x].fin \/ k[x].rst => x \in hung
        /\ x \in hung /\ w.fd[x] => k[x].fin \/ k[x].rst
        /\ "SHUTRD" \in w.flags[x] => x \in hung
    BY <1>3, Zenon DEF Net
  <2>2. CASE x = c
    BY <2>1, <2>2
  <2>3. CASE x = p
    BY <1>1, <1>2, <2>1, <2>3 DEF p
  <2> QED  BY <1>1, <2>2, <2>3
<1>6. Intact(w) /\ ~w.fd[Server] => Server \notin hung'
  BY <1>2, <1>3, ConnIs DEF Net
<1>7. Net(w, k', hung')
  BY <1>4, <1>5, <1>6, Zenon DEF Net
<1>8. Net(w, k, hung)' <=> Net(w, k', hung')
  BY DEF Net, Agrees, Intact, NoSock
<1>9. Poll'
  BY DEF Poll, SInv, Intact
<1> QED  BY <1>7, <1>8, <1>9

LEMMA OpenIsAlive ==
  ASSUME IInv, SInv, NEW c \in Conn, k[c].st # "closed"
  PROVE  w.alive /\ w.fd[c] /\ (c \in hung => k[c].fin \/ k[c].rst)
<1>1. w.fd[c]
  <2>1. NoSock.st = "closed"
    BY DEF NoSock
  <2> QED  BY <2>1 DEF SInv, Net, Agrees
<1>2. w.alive
  BY <1>1 DEF IInv, Sound
<1>3. c \in hung => k[c].fin \/ k[c].rst
  BY <1>1 DEF SInv, Net
<1> QED  BY <1>1, <1>2, <1>3

LEMMA SendStream ==
  ASSUME IInv, SInv, NEW c \in Conn, RemoteSend(c)
  PROVE  StreamStep
<1> DEFINE g == sent[c]
           p == Peer(c)
           q == Append(k[c].rcv, g + 1)
<1>1. /\ SockOpen(k[c]) /\ ~k[c].fin
      /\ k' = [k EXCEPT ![c].rcv = q] /\ sent' = [sent EXCEPT ![c] = g + 1]
      /\ UNCHANGED <<w, phase, batch, hung, wrote>>
  BY DEF RemoteSend, Talking
<1>2. /\ k \in [Conn -> Socket] /\ sent \in [Conn -> Nat] /\ g \in Nat /\ k[c] \in Socket
      /\ k[c].rcv \in Seq(Nat)
  BY DEF IInv, TypeOK, Socket
<1>3. q \in Seq(Nat)
  BY <1>2
<1>4. p \in Conn /\ p # c /\ Peer(p) = c /\ \A x \in Conn : x = c \/ x = p
  BY PeerConn
<1> HIDE DEF q, p
<1>5. /\ k'[c] = [k[c] EXCEPT !.rcv = q] /\ k'[p] = k[p]
  BY <1>1, <1>2, <1>4
<1>6. /\ k'[c].rcv = q /\ k'[c].st = k[c].st /\ k'[c].fin = k[c].fin /\ k'[c].rst = k[c].rst
      /\ k'[c] \in Socket
  BY <1>2, <1>3, <1>5 DEF Socket
<1>7. k' \in [Conn -> Socket]
  BY <1>1, <1>2, <1>5, <1>6
<1>8. k[c].st = "up" /\ ~k[c].rst
  BY <1>1 DEF SockOpen
<1>9. w.alive /\ w.fd[c] /\ c \notin hung
  BY <1>1, <1>8, OpenIsAlive
<1>10. Net(w, k, hung)' /\ Poll'
  <2>1. k'[c].st # "closed" /\ (k'[c].fin \/ k'[c].rst <=> c \in hung')
    BY <1>1, <1>6, <1>8, <1>9
  <2>2. k'[Peer(c)] = k[Peer(c)]
    BY <1>5 DEF p
  <2> QED  BY <1>1, <1>7, <1>9, <2>1, <2>2, EnvironmentNet
<1>11. sent'[c] = g + 1 /\ sent'[p] = sent[p]
  BY <1>1, <1>2, <1>4
<1>12. Wrote(wrote, sent)'
  <2>1. wrote \in [Conn -> Seq(Nat)] /\ Lead(wrote[c], sent[p]) /\ Lead(wrote[p], sent[c])
    BY <1>4 DEF SInv, Wrote, p
  <2>2. Lead(wrote[p], sent'[c])
    <3>1. PICK n \in 0..g : wrote[p] = Run(0, n)
      BY <2>1 DEF Lead
    <3>2. n \in 0..(g + 1)
      BY <1>2
    <3> QED  BY <1>11, <3>1, <3>2 DEF Lead
  <2>3. \A x \in Conn : Lead(wrote[x], sent'[Peer(x)])
    BY <1>4, <1>11, <2>1, <2>2 DEF p
  <2>4. Wrote(wrote, sent')
    BY <2>1, <2>3, Zenon DEF Wrote
  <2>5. Wrote(wrote, sent)' <=> Wrote(wrote, sent')
    BY <1>1 DEF Wrote, Lead, Run
  <2> QED  BY <2>4, <2>5
<1>13. ASSUME Intact(w) PROVE Flows(w, k', wrote, sent')
  <2>1. Flow(wrote[p], w.out[p], w.inq[c], k[c], sent[c])
    BY <1>4, <1>13 DEF SInv, Flows
  <2>2. Flow(wrote[c], w.out[c], w.inq[p], k[p], sent[p])
    BY <1>4, <1>13 DEF SInv, Flows, p
  <2>3. PICK n, m, j \in 0..g : /\ wrote[p] = Run(0, n)
                        /\ Contig(Unsents(w.out[p]), n, m) /\ Contig(Unsents(w.inq[c]), m, j)
                        /\ k[c].rcv = Run(j, g)
    BY <1>8, <2>1, Zenon DEF Flow
  <2>4. q = Run(j, g + 1)
    <3>1. j \in Nat /\ g \in Nat /\ j <= g
      BY <1>2
    <3>2. q = Append(Run(j, g), g + 1)
      BY <2>3 DEF q
    <3> QED  BY <3>1, <3>2, RunAppend
  <2>5. n \in 0..(g + 1) /\ m \in 0..(g + 1) /\ j \in 0..(g + 1)
    BY <1>2
  <2>6. Flow(wrote[p], w.out[p], w.inq[c], k'[c], sent'[c])
    <3>1. \E a, b, d \in 0..(g + 1) :
             /\ wrote[p] = Run(0, a)
             /\ Contig(Unsents(w.out[p]), a, b) /\ Contig(Unsents(w.inq[c]), b, d)
             /\ k'[c].rst \/ k'[c].rcv = Run(d, g + 1)
      BY <1>6, <2>3, <2>4, <2>5, Zenon
    <3> QED  BY <1>11, <3>1 DEF Flow
  <2>7. Flow(wrote[c], w.out[c], w.inq[p], k'[p], sent'[p])
    BY <1>5, <1>11, <2>2
  <2> SUFFICES ASSUME NEW x \in Conn
               PROVE  Flow(wrote[x], w.out[x], w.inq[Peer(x)], k'[Peer(x)], sent'[Peer(x)])
    BY Zenon DEF Flows
  <2>8. CASE x = c
    BY <2>7, <2>8 DEF p
  <2>9. CASE x = p
    BY <1>4, <2>6, <2>9
  <2> QED  BY <1>4, <2>8, <2>9
<1>14. SInv'
  <2>1. Base(w)'
    BY <1>1 DEF SInv, Base, Intact, task_in_queue
  <2>2. Flows(w, k, wrote, sent)' <=> Flows(w, k', wrote, sent')
    BY <1>1 DEF Flows, Flow, Contig, Cuts, Run, Unsents, Unsent
  <2>3. Intact(w)' <=> Intact(w)
    BY <1>1 DEF Intact
  <2> QED  BY <1>10, <1>12, <1>13, <2>1, <2>2, <2>3 DEF SInv
<1>15. [R!RelayNext]_(R!rvars)
  BY <1>1, <1>9, EmitStep
<1>16. ShutOK
  <2>1. EndedOf(w)' = EndedOf(w)
    BY <1>1 DEF EndedOf
  <2> QED  BY <2>1, ShutSame
<1> QED  BY <1>14, <1>15, <1>16 DEF StreamStep

LEMMA EnvironmentKeeps ==
  ASSUME SInv, UNCHANGED <<w, wrote, sent>>, Net(w, k, hung)', Poll',
         \A x \in Conn : k'[x].rst \/ (k'[x].rst = k[x].rst /\ k'[x].rcv = k[x].rcv)
  PROVE  SInv'
<1>1. Base(w)'
  BY DEF SInv, Base, Intact, task_in_queue
<1>2. Wrote(wrote, sent)'
  BY DEF SInv, Wrote, Lead, Run
<1>3. ASSUME Intact(w) PROVE Flows(w, k', wrote, sent)
  <2> SUFFICES ASSUME NEW c \in Conn
               PROVE  Flow(wrote[c], w.out[c], w.inq[Peer(c)], k'[Peer(c)], sent[Peer(c)])
    BY Zenon DEF Flows
  <2>1. Flow(wrote[c], w.out[c], w.inq[Peer(c)], k[Peer(c)], sent[Peer(c)])
    BY <1>3 DEF SInv, Flows
  <2>2. \/ k'[Peer(c)].rst
        \/ k'[Peer(c)].rst = k[Peer(c)].rst /\ k'[Peer(c)].rcv = k[Peer(c)].rcv
    BY PeerConn
  <2> QED  BY <2>1, <2>2, Zenon DEF Flow
<1>4. Flows(w, k, wrote, sent)' <=> Flows(w, k', wrote, sent)
  BY DEF Flows, Flow, Contig, Cuts, Run, Unsents, Unsent
<1>5. Intact(w)' <=> Intact(w)
  BY DEF Intact
<1> QED  BY <1>1, <1>2, <1>3, <1>4, <1>5 DEF SInv

LEMMA SocketPart ==
  ASSUME NEW kk \in [Conn -> Socket], NEW c \in Conn
  PROVE  /\ LET l == [kk EXCEPT ![c].fin = TRUE]
            IN  /\ l \in [Conn -> Socket] /\ l[Peer(c)] = kk[Peer(c)]
                /\ l[c].fin = TRUE /\ l[c].st = kk[c].st /\ l[c].rst = kk[c].rst
                /\ l[c].rcv = kk[c].rcv
         /\ LET l == [kk EXCEPT ![c].st = "up"]
            IN  /\ l \in [Conn -> Socket] /\ l[Peer(c)] = kk[Peer(c)]
                /\ l[c].fin = kk[c].fin /\ l[c].st = "up" /\ l[c].rst = kk[c].rst
                /\ l[c].rcv = kk[c].rcv
<1>0. kk[c] \in Socket /\ Peer(c) \in Conn /\ Peer(c) # c
  BY PeerConn
<1> DEFINE x1 == [kk[c] EXCEPT !.fin = TRUE]
           x3 == [kk[c] EXCEPT !.st = "up"]
<1>1. /\ x1 \in Socket /\ x1.fin = TRUE /\ x1.st = kk[c].st /\ x1.rst = kk[c].rst
      /\ x1.rcv = kk[c].rcv
  BY <1>0 DEF Socket
<1>4. /\ x3 \in Socket /\ x3.fin = kk[c].fin /\ x3.st = "up" /\ x3.rst = kk[c].rst
      /\ x3.rcv = kk[c].rcv
  BY <1>0 DEF Socket
<1>5. /\ [kk EXCEPT ![c].fin = TRUE] = [kk EXCEPT ![c] = x1]
      /\ [kk EXCEPT ![c].st = "up"] = [kk EXCEPT ![c] = x3]
  OBVIOUS
<1> HIDE DEF x1, x3
<1>6. \A x \in Socket : /\ [kk EXCEPT ![c] = x] \in [Conn -> Socket]
                        /\ [kk EXCEPT ![c] = x][c] = x /\ [kk EXCEPT ![c] = x][Peer(c)] = kk[Peer(c)]
  BY <1>0
<1> QED  BY <1>1, <1>4, <1>5, <1>6

LEMMA FinStream ==
  ASSUME IInv, SInv, NEW c \in Conn, RemoteFin(c)
  PROVE  StreamStep
<1>1. /\ k[c].st = "up" /\ ~k[c].rst /\ ~k[c].fin /\ k' = [k EXCEPT ![c].fin = TRUE]
      /\ hung' = hung \union {c} /\ UNCHANGED <<w, phase, batch, sent, wrote>>
  BY DEF RemoteFin, Talking, SockOpen
<1>2. k \in [Conn -> Socket]
  BY DEF IInv, TypeOK
<1>3. w.alive /\ w.fd[c]
  BY <1>1, OpenIsAlive
<1>4. /\ k' \in [Conn -> Socket] /\ k'[Peer(c)] = k[Peer(c)]
      /\ k'[c].fin = TRUE /\ k'[c].st = k[c].st /\ k'[c].rst = k[c].rst /\ k'[c].rcv = k[c].rcv
  BY <1>1, <1>2, SocketPart
<1>5. Net(w, k, hung)' /\ Poll'
  BY <1>1, <1>3, <1>4, EnvironmentNet
<1>6. \A x \in Conn : k'[x].rst \/ (k'[x].rst = k[x].rst /\ k'[x].rcv = k[x].rcv)
  BY <1>4, PeerConn
<1>7. SInv'
  BY <1>1, <1>5, <1>6, EnvironmentKeeps
<1>8. [R!RelayNext]_(R!rvars)
  BY <1>1, <1>3, HangUpStep
<1>9. ShutOK
  <2>1. EndedOf(w)' = EndedOf(w)
    BY <1>1 DEF EndedOf
  <2> QED  BY <2>1, ShutSame
<1> QED  BY <1>7, <1>8, <1>9 DEF StreamStep

LEMMA ResetStream ==
  ASSUME IInv, SInv, NEW c \in Conn, RemoteReset(c)
  PROVE  StreamStep
<1>1. /\ k[c].st # "closed" /\ k' = [k EXCEPT ![c].rst = TRUE, ![c].rcv = <<>>]
      /\ hung' = hung \union {c} /\ UNCHANGED <<w, phase, batch, sent, wrote>>
  BY DEF RemoteReset
<1>2. k \in [Conn -> Socket]
  BY DEF IInv, TypeOK
<1>3. w.alive /\ w.fd[c]
  BY <1>1, OpenIsAlive
<1>4. /\ k' \in [Conn -> Socket] /\ k'[Peer(c)] = k[Peer(c)]
      /\ k'[c].fin = k[c].fin /\ k'[c].st = k[c].st /\ k'[c].rst = TRUE
  <2> DEFINE x == [k[c] EXCEPT !.rst = TRUE, !.rcv = <<>>]
  <2>0. k[c] \in Socket /\ Peer(c) \in Conn /\ Peer(c) # c /\ <<>> \in Seq(Nat)
    BY <1>2, PeerConn
  <2>1. x \in Socket /\ x.fin = k[c].fin /\ x.st = k[c].st /\ x.rst = TRUE
    BY <2>0 DEF Socket
  <2>2. k' = [k EXCEPT ![c] = x]
    BY <1>1, <1>2
  <2> HIDE DEF x
  <2>3. k'[c] = x /\ k'[Peer(c)] = k[Peer(c)] /\ k' \in [Conn -> Socket]
    BY <1>2, <2>0, <2>1, <2>2
  <2> QED  BY <2>1, <2>3
<1>5. Net(w, k, hung)' /\ Poll'
  BY <1>1, <1>3, <1>4, EnvironmentNet
<1>6. \A x \in Conn : k'[x].rst \/ (k'[x].rst = k[x].rst /\ k'[x].rcv = k[x].rcv)
  BY <1>4, PeerConn
<1>7. SInv'
  BY <1>1, <1>5, <1>6, EnvironmentKeeps
<1>8. [R!RelayNext]_(R!rvars)
  BY <1>1, <1>3, HangUpStep
<1>9. ShutOK
  <2>1. EndedOf(w)' = EndedOf(w)
    BY <1>1 DEF EndedOf
  <2> QED  BY <2>1, ShutSame
<1> QED  BY <1>7, <1>8, <1>9 DEF StreamStep

\* Steps that neither the worker's memory nor the streams see.
LEMMA QuietStream ==
  ASSUME SInv, UNCHANGED <<w, sent, hung, wrote>>, Net(w, k, hung)', Poll',
         \A x \in Conn : k'[x].rst = k[x].rst /\ k'[x].rcv = k[x].rcv
  PROVE  StreamStep
<1>1. SInv'
  BY EnvironmentKeeps
<1>2. w'.alive = w.alive /\ EndedOf(w)' = EndedOf(w)
  BY DEF EndedOf
<1> QED  BY <1>1, <1>2, StutterStep, ShutSame DEF StreamStep

LEMMA ConnectStream ==
  ASSUME IInv, SInv, NEW c \in Conn, RemoteConnect(c)
  PROVE  StreamStep
<1>1. /\ k[c].st = "connecting" /\ k' = [k EXCEPT ![c].st = "up"]
      /\ UNCHANGED <<w, phase, batch, sent, hung, wrote>>
  BY DEF RemoteConnect
<1>2. k \in [Conn -> Socket]
  BY DEF IInv, TypeOK
<1>3. w.fd[c] /\ (c \in hung => k[c].fin \/ k[c].rst)
  BY <1>1, OpenIsAlive
<1>4. /\ k' \in [Conn -> Socket] /\ k'[Peer(c)] = k[Peer(c)]
      /\ k'[c].fin = k[c].fin /\ k'[c].st = "up" /\ k'[c].rst = k[c].rst /\ k'[c].rcv = k[c].rcv
  BY <1>1, <1>2, SocketPart
<1>5. k'[c].fin \/ k'[c].rst <=> c \in hung'
  <2>1. k[c].fin \/ k[c].rst => c \in hung
    BY DEF SInv, Net
  <2> QED  BY <1>1, <1>3, <1>4, <2>1
<1>6. Net(w, k, hung)' /\ Poll'
  BY <1>1, <1>3, <1>4, <1>5, EnvironmentNet
<1>7. \A x \in Conn : k'[x].rst = k[x].rst /\ k'[x].rcv = k[x].rcv
  BY <1>4, PeerConn
<1> QED  BY <1>1, <1>6, <1>7, QuietStream

LEMMA NetUnchanged ==
  ASSUME SInv, UNCHANGED <<w, k, hung>>
  PROVE  Net(w, k, hung)' /\ \A x \in Conn : k'[x].rst = k[x].rst /\ k'[x].rcv = k[x].rcv
  BY DEF SInv, Net, Agrees, Intact, NoSock

LEMMA ReadStream ==
  ASSUME SInv, NEW c \in Conn, RemoteRead(c)
  PROVE  StreamStep
<1>1. UNCHANGED <<w, k, phase, batch, sent, hung, wrote>>
  BY DEF RemoteRead
<1>2. Poll'
  BY <1>1 DEF SInv, Poll, Intact
<1> QED  BY <1>1, <1>2, NetUnchanged, QuietStream

LEMMA FlushStream ==
  ASSUME SInv, fd_epoll_flush_events
  PROVE  StreamStep
<1>1. UNCHANGED <<w, k, batch, sent, hung, wrote>> /\ phase' = "wait"
  BY DEF fd_epoll_flush_events
<1>2. Poll'
  BY <1>1 DEF SInv, Poll
<1> QED  BY <1>1, <1>2, NetUnchanged, QuietStream

LEMMA WaitStream ==
  ASSUME IInv, SInv, epoll_wait
  PROVE  StreamStep
<1>1. UNCHANGED <<w, k, sent, hung, wrote>> /\ phase = "wait"
  BY DEF epoll_wait
<1>2. w.alive => Intact(w)
  <2>1. w.taskq = <<>>
    BY <1>1 DEF IInv, PhaseOK
  <2> QED  BY <2>1 DEF SInv, Base
<1>3. ASSUME NEW i \in 1..Len(batch'), batch'[i].fd \in Conn, "RDHUP" \in batch'[i].mask
      PROVE  batch'[i].fd \in hung
  <2> DEFINE ready == {c \in Conn : Events(c, pev[c]) # {}}
             size  == IF Cardinality(ready) < MaxWait THEN Cardinality(ready) ELSE MaxWait
  <2>1. CASE batch' = <<[fd |-> LFD, mask |-> {"IN"}]>>
    BY <1>3, <2>1
  <2>2. CASE \E b \in Injection(1..size, ready) :
                 batch' = [j \in 1..size |->
                             [fd |-> b[j], mask |-> Events(b[j], pev[b[j]])]]
    <3> HIDE DEF size
    <3>1. PICK b \in Injection(1..size, ready) :
                 batch' = [j \in 1..size |-> [fd |-> b[j], mask |-> Events(b[j], pev[b[j]])]]
      BY <2>2
    <3>2. ready \in SUBSET Conn /\ IsFiniteSet(ready)
      <4>1. Conn = {Client} \union {Server}
        BY DEF Conn
      <4>2. IsFiniteSet(Conn)
        BY <4>1, FS_Singleton, FS_Union
      <4> QED  BY <4>2, FS_Subset
    <3>3. size \in Nat
      BY <3>2, FS_CardinalityType, SessionAssumption DEF size
    <3>4. b \in [1..size -> ready]
      BY DEF Injection, IsInjective
    <3> HIDE DEF ready
    <3>5. Len(batch') = size
      BY <3>1, <3>3
    <3>6. b[i] \in Conn /\ batch'[i].fd = b[i] /\ batch'[i].mask = Events(b[i], pev[b[i]])
      BY <3>1, <3>2, <3>4, <3>5
    <3>7. "RDHUP" \in Events(b[i], pev[b[i]])
      BY <1>3, <3>6
    <3>8. k[b[i]].fin \/ k[b[i]].rst
      BY <3>7 DEF Events
    <3> QED  BY <3>6, <3>8 DEF SInv, Net
  <2> QED  BY <2>1, <2>2 DEF epoll_wait
<1>4. Poll'
  BY <1>1, <1>2, <1>3 DEF Poll, Intact
<1> QED  BY <1>1, <1>4, NetUnchanged, QuietStream

\* The invariant after a step, from the values the step leaves.
LEMMA SInvMade ==
  ASSUME NEW s, NEW kk, NEW zz, NEW gg, NEW hh,
         w' = s, k' = kk, wrote' = zz, sent' = gg, hung' = hh,
         Base(s), Net(s, kk, hh), Poll', Wrote(zz, gg),
         Intact(s) => Flows(s, kk, zz, gg)
  PROVE  SInv'
<1>1. Base(w)' <=> Base(s)
  BY DEF Base, Intact, task_in_queue
<1>2. Net(w, k, hung)' <=> Net(s, kk, hh)
  BY DEF Net, Agrees, Intact, NoSock
<1>3. Wrote(wrote, sent)' <=> Wrote(zz, gg)
  BY DEF Wrote, Lead, Run
<1>4. Flows(w, k, wrote, sent)' <=> Flows(s, kk, zz, gg)
  BY DEF Flows, Flow, Contig, Cuts, Run, Unsents, Unsent
<1>5. Intact(w)' <=> Intact(s)
  BY DEF Intact
<1> QED  BY <1>1, <1>2, <1>3, <1>4, <1>5 DEF SInv

LEMMA SInvNext ==
  ASSUME NEW s, NEW kk, NEW zz, w' = s, k' = kk, wrote' = zz, UNCHANGED <<sent, hung>>,
         Base(s), Net(s, kk, hung), Poll', Wrote(zz, sent),
         Intact(s) => Flows(s, kk, zz, sent)
  PROVE  SInv'
  BY SInvMade

\* What a callback of c finds.
LEMMA CallbackFacts ==
  ASSUME IInv, SInv, NEW c \in Conn, Dispatch(c)
  PROVE  /\ w.alive /\ w.fd[c] /\ ~task_in_queue(w, c) /\ Intact(w) /\ w.inq[c] = <<>>
         /\ Flows(w, k, wrote, sent)
         /\ "RDHUP" \in batch[1].mask => c \in hung
<1>1. batch \in Seq(Event) /\ batch # <<>> /\ batch[1].fd = c /\ phase = "poll"
  BY DEF Dispatch, IInv, TypeOK
<1>2. 1 \in 1..Len(batch)
  BY <1>1
<1>3. w.alive /\ w.fd[c] /\ ~task_in_queue(w, c)
  BY <1>1, <1>2 DEF IInv, BatchOK
<1>4. Intact(w) /\ ("RDHUP" \in batch[1].mask => c \in hung)
  BY <1>1, <1>2, <1>3 DEF SInv, Poll
<1> QED  BY <1>3, <1>4 DEF SInv, Base

LEMMA CallbackPoll ==
  ASSUME IInv, SInv, NEW c \in Conn, Dispatch(c), NEW s, Called(s), Intact(s), hung' = hung
  PROVE  Poll'
<1>1. w' = s /\ batch' = Tail(batch)
  BY DEF Called
<1>2. batch \in Seq(Event) /\ batch # <<>>
  BY DEF Dispatch, IInv, TypeOK
<1>3. \A i \in 1..Len(Tail(batch)) : i + 1 \in 1..Len(batch) /\ Tail(batch)[i] = batch[i + 1]
  BY <1>2
<1>4. ASSUME NEW i \in 1..Len(batch'), batch'[i].fd \in Conn, "RDHUP" \in batch'[i].mask
      PROVE  batch'[i].fd \in hung
  <2>1. i + 1 \in 1..Len(batch) /\ batch'[i] = batch[i + 1]
    BY <1>1, <1>3
  <2> QED  BY <1>4, <2>1 DEF SInv, Poll
<1>5. Intact(w)'
  BY <1>1 DEF Intact
<1> QED  BY <1>4, <1>5 DEF Poll

LEMMA NetFlags ==
  ASSUME NEW u, NEW s, NEW kk, NEW hh, Net(u, kk, hh), s.fd = u.fd,
         s.alive = u.alive, s.svrdata = u.svrdata,
         \A x \in Conn : "SHUTRD" \in s.flags[x] => "SHUTRD" \in u.flags[x] \/ x \in hh
  PROVE  Net(s, kk, hh)
  BY DEF Net, Agrees, Intact

\* Callbacks that touch no byte.
LEMMA AlikeStream ==
  ASSUME IInv, SInv, NEW c \in Conn, Dispatch(c), NEW s, Called(s), Links(w, c, s),
         AlikeBut(w, c, s), UNCHANGED <<k, sent, hung, wrote>>
  PROVE  StreamStep
<1>1. /\ w.alive /\ w.fd[c] /\ ~task_in_queue(w, c) /\ Intact(w) /\ w.inq[c] = <<>>
      /\ Flows(w, k, wrote, sent)
  BY CallbackFacts
<1>2. /\ s.svrdata = w.svrdata /\ s.inq = w.inq /\ s.out = w.out
      /\ s.task[Peer(c)] = w.task[Peer(c)]
  BY DEF AlikeBut
<1>3. s.fd = w.fd /\ s.alive = w.alive
  BY DEF Links
<1>4. Base(s) /\ Intact(s)
  <2>1. w \in Memory /\ Base(w)
    BY DEF IInv, TypeOK, SInv
  <2> QED  BY <1>1, <1>2, <2>1, CallbackBase
<1>5. Poll'
  BY <1>4, CallbackPoll
<1>6. Net(s, k, hung)
  <2>1. Net(w, k, hung)
    BY DEF SInv
  <2>2. \A x \in Conn : "SHUTRD" \in s.flags[x] => "SHUTRD" \in w.flags[x] \/ x \in hung
    BY DEF AlikeBut
  <2> QED  BY <1>2, <1>3, <2>1, <2>2, NetFlags
<1>7. Flows(s, k, wrote, sent)
  BY <1>1, <1>2, FlowsSame
<1>8. w' = s
  BY DEF Called
<1>9. SInv'
  <2>1. Wrote(wrote, sent)
    BY DEF SInv
  <2> QED  BY <1>4, <1>5, <1>6, <1>7, <1>8, <2>1, SInvNext
<1>10. EndedOf(w)' = EndedOf(w) /\ w'.alive = w.alive
  BY <1>3, <1>8 DEF EndedOf, AlikeBut
<1> QED  BY <1>9, <1>10, StutterStep, ShutSame DEF StreamStep

LEMMA HandshakeStream ==
  ASSUME IInv, SInv, NEW c \in Conn, HandshakeCallback(c)
  PROVE  StreamStep
<1>1. PICK h \in HandshakeResult(w, k[c], c) :
        Called(conn_handshake(w, c, batch[1].mask, k[c], h))
  BY DEF HandshakeCallback
<1>2. Dispatch(c) /\ UNCHANGED <<k, sent, hung, wrote>> /\ w \in Memory
  BY DEF HandshakeCallback, IInv, TypeOK
<1>3. /\ Links(w, c, conn_handshake(w, c, batch[1].mask, k[c], h))
      /\ AlikeBut(w, c, conn_handshake(w, c, batch[1].mask, k[c], h))
  BY <1>2, HandshakeLinks, HandshakeView
<1> QED  BY <1>1, <1>2, <1>3, AlikeStream

LEMMA ShutdownStream ==
  ASSUME IInv, SInv, NEW c \in Conn, ShutdownCallback(c)
  PROVE  StreamStep
<1>1. PICK z \in ShutdownResult(w, k[c], c) :
        Called(conn_shutdown(w, c, batch[1].mask, z))
  BY DEF ShutdownCallback
<1>2. Dispatch(c) /\ UNCHANGED <<k, sent, hung, wrote>> /\ w \in Memory
  BY DEF ShutdownCallback, IInv, TypeOK
<1>3. /\ Links(w, c, conn_shutdown(w, c, batch[1].mask, z))
      /\ AlikeBut(w, c, conn_shutdown(w, c, batch[1].mask, z))
  BY <1>2, ShutdownLinks, ShutdownView
<1> QED  BY <1>1, <1>2, <1>3, AlikeStream

\* Reading moves the first bytes that wait in the socket into the queue.
LEMMA RecvFlow ==
  ASSUME NEW z, NEW o, NEW i, NEW x \in Socket, NEW g \in Nat, Flow(z, o, <<>>, x, g),
         NEW d, Len(d) \in 0..Len(x.rcv), d = SubSeq(x.rcv, 1, Len(d)),
         x.rst => d = <<>>,
         \A a, b \in Nat : a <= b /\ d = Run(a, b) => Contig(Unsents(i), a, b),
         NEW y, y.rst = x.rst, y.rcv = SubSeq(x.rcv, Len(d) + 1, Len(x.rcv))
  PROVE  Flow(z, o, i, y, g)
<1>1. PICK n, m, j \in 0..g :
        /\ z = Run(0, n)
        /\ Contig(Unsents(o), n, m) /\ Contig(Unsents(<<>>), m, j)
        /\ x.rst \/ x.rcv = Run(j, g)
  BY Zenon DEF Flow
<1>2. n \in Nat /\ m \in Nat /\ j \in Nat /\ n <= g /\ m <= g /\ j <= g
  OBVIOUS
<1>3. m = j
  <2>1. Contig(<<>>, m, j)
    BY <1>1, UnsentsNone
  <2>2. Len(<<>>) = 0
    OBVIOUS
  <2> QED  BY <2>1, <2>2 DEF Contig, Cuts
<1>4. CASE x.rst
  <2>1. d = Run(j, j)
    BY <1>2, <1>4, RunNone
  <2>2. Contig(Unsents(i), j, j)
    BY <1>2, <2>1
  <2>3. Contig(Unsents(i), m, j) /\ y.rst
    BY <1>3, <1>4, <2>2
  <2> QED  BY <1>1, <2>3, Zenon DEF Flow
<1>5. CASE ~x.rst
  <2> DEFINE e == Len(d)
             b == j + e
  <2>1. x.rcv = Run(j, g) /\ Len(x.rcv) = g - j
    <3>1. x.rcv = Run(j, g)
      BY <1>1, <1>5
    <3>2. Len(Run(j, g)) = g - j
      BY <1>2, RunType
    <3> QED  BY <3>1, <3>2
  <2>2. e \in Nat /\ b \in Nat /\ j <= b /\ b <= g /\ b \in 0..g
    BY <1>2, <2>1
  <2> HIDE DEF e
  <2>4. j - j + 1 = 1 /\ b - j = e /\ j <= j /\ g <= g
    BY <1>2, <2>2
  <2> HIDE DEF b
  <2>11. \A a, l, h \in Nat : a <= l /\ l <= h /\ h <= g =>
           SubSeq(Run(a, g), l - a + 1, h - a) = Run(l, h)
    BY RunPiece
  <2>3. SubSeq(Run(j, g), j - j + 1, b - j) = Run(j, b)
    BY <1>2, <2>2, <2>4, <2>11
  <2>5. d = SubSeq(Run(j, g), 1, e)
    <3>1. d = SubSeq(x.rcv, 1, e)
      BY DEF e
    <3> QED  BY <2>1, <3>1
  <2>6. d = Run(j, b)
    <3>1. SubSeq(Run(j, g), 1, e) = Run(j, b)
      BY <2>3, <2>4
    <3> QED  BY <2>5, <3>1
  <2>7. Contig(Unsents(i), j, b)
    BY <1>2, <2>2, <2>6
  <2>8. SubSeq(Run(j, g), b - j + 1, g - j) = Run(b, g)
    BY <1>2, <2>2, <2>4, <2>11
  <2>9. y.rcv = Run(b, g)
    <3>1. y.rcv = SubSeq(Run(j, g), e + 1, g - j)
      BY <2>1 DEF e
    <3> QED  BY <2>4, <2>8, <3>1
  <2>10. Contig(Unsents(i), m, b)
    BY <1>3, <2>7
  <2> QED  BY <1>1, <2>2, <2>9, <2>10, Zenon DEF Flow
<1> QED  BY <1>4, <1>5

LEMMA RecvStream ==
  ASSUME IInv, SInv, NEW c \in Conn, RecvCallback(c)
  PROVE  StreamStep
<1> DEFINE p == Peer(c)
           mask == batch[1].mask
<1>1. PICK r \in RecvOutcome(w, k[c], c) :
        /\ Called(conn_recv_data(w, c, mask, r))
        /\ k' = [k EXCEPT ![c].rcv = IF "ERR" \in mask THEN @
                                     ELSE SubSeq(@, Len(r.data) + 1, Len(@))]
  BY DEF RecvCallback
<1>2. /\ Dispatch(c) /\ UNCHANGED <<sent, hung, wrote>> /\ w \in Memory /\ Base(w)
      /\ k \in [Conn -> Socket] /\ k[c] \in Socket /\ sent \in [Conn -> Nat]
  BY DEF RecvCallback, IInv, TypeOK, SInv
<1>3. /\ w.alive /\ w.fd[c] /\ ~task_in_queue(w, c) /\ Intact(w) /\ w.inq[c] = <<>>
      /\ Flows(w, k, wrote, sent)
      /\ "RDHUP" \in mask => c \in hung
  BY <1>2, CallbackFacts
<1>4. p \in Conn /\ p # c /\ Peer(p) = c /\ Peer(c) = p /\ \A x \in Conn : x = c \/ x = p
  BY PeerConn, ConnIs DEF p
<1> DEFINE s == conn_recv_data(w, c, mask, r)
           ends == r.closed \/ "RDHUP" \in mask
           q == IF "ERR" \in mask THEN k[c].rcv ELSE SubSeq(k[c].rcv, Len(r.data) + 1, Len(k[c].rcv))
           y == [k[c] EXCEPT !.rcv = q]
<1> HIDE DEF p, mask
<1>5. Links(w, c, s)
  BY <1>2, RecvLinks
<1>6. /\ Reads(w, c, s, ends)
      /\ s.task[c] # "SEND" /\ task_in_queue(s, c)
      /\ "ERR" \in mask => s.inq[c] = <<>>
      /\ "ERR" \notin mask => \A a, b \in Nat :
            a <= b /\ r.data = Run(a, b) => Contig(Unsents(s.inq[c]), a, b)
  BY <1>2, <1>3, RecvView
<1>7. /\ r.closed => k[c].fin
      /\ k[c].rst => r.data = <<>>
      /\ Len(r.data) \in 0..Len(k[c].rcv) /\ r.data = SubSeq(k[c].rcv, 1, Len(r.data))
  BY <1>2, RecvFacts
<1>8. w' = s /\ Called(s)
  BY <1>1 DEF Called
<1>9. k' = [k EXCEPT ![c] = y]
  BY <1>1
<1>10. /\ y.rcv = q /\ y.st = k[c].st /\ y.fin = k[c].fin /\ y.rst = k[c].rst
  BY <1>2 DEF Socket
<1> HIDE DEF s, y
<1>11. k'[c] = y /\ k'[p] = k[p]
  BY <1>2, <1>4, <1>9
<1>12. /\ s.svrdata = w.svrdata /\ s.out = w.out /\ s.inq[p] = w.inq[p]
       /\ s.task[p] = w.task[p]
       /\ \A x \in Conn :
            /\ "SHUTWR" \in s.flags[x] <=> "SHUTWR" \in w.flags[x]
            /\ "SHUTRD" \in s.flags[x] => "SHUTRD" \in w.flags[x] \/ (x = c /\ ends)
  BY <1>4, <1>6 DEF Reads
<1>13. s.fd = w.fd /\ s.alive = w.alive
  BY <1>5 DEF Links
<1>14. Base(s) /\ Intact(s)
  <2>1. s.inq[Peer(c)] = w.inq[Peer(c)] /\ s.task[Peer(c)] = w.task[Peer(c)]
    BY <1>4, <1>12
  <2> QED  BY <1>2, <1>3, <1>5, <1>6, <1>12, <2>1, CallbackBase
<1>15. Poll'
  BY <1>2, <1>8, <1>14, CallbackPoll
<1>16. Net(w, k', hung)
  <2>1. Net(w, k, hung)
    BY DEF SInv
  <2>2. Agrees(w, k')
    <3> SUFFICES ASSUME NEW x \in Conn
                 PROVE  IF w.fd[x] THEN k'[x].st # "closed" ELSE k'[x] = NoSock
      BY DEF Agrees
    <3>1. IF w.fd[x] THEN k[x].st # "closed" ELSE k[x] = NoSock
      BY <2>1 DEF Net, Agrees
    <3>2. CASE x = c
      BY <1>3, <1>10, <1>11, <3>1, <3>2
    <3>3. CASE x = p
      BY <1>11, <3>1, <3>3
    <3> QED  BY <1>4, <3>2, <3>3
  <2>3. \A x \in Conn : k'[x].fin = k[x].fin /\ k'[x].rst = k[x].rst
    BY <1>4, <1>10, <1>11
  <2> QED  BY <2>1, <2>2, <2>3 DEF Net
<1>17. Net(s, k', hung)
  <2>1. ends => c \in hung
    BY <1>3, <1>7 DEF SInv, Net
  <2>2. \A x \in Conn : "SHUTRD" \in s.flags[x] => "SHUTRD" \in w.flags[x] \/ x \in hung
    BY <1>12, <2>1
  <2> QED  BY <1>12, <1>13, <1>16, <2>2, NetFlags
<1>18. Flow(wrote[p], s.out[p], s.inq[c], k'[c], sent[c])
  <2>1. Flow(wrote[p], w.out[p], <<>>, k[c], sent[c])
    BY <1>3, <1>4 DEF Flows
  <2>2. CASE "ERR" \in mask
    <3>1. y.rcv = k[c].rcv
      BY <1>10, <2>2
    <3> QED  BY <1>6, <1>10, <1>11, <1>12, <2>1, <2>2, <3>1, Zenon DEF Flow
  <2>3. CASE "ERR" \notin mask
    <3>1. sent[c] \in Nat
      BY <1>2
    <3>2. y.rcv = SubSeq(k[c].rcv, Len(r.data) + 1, Len(k[c].rcv))
      BY <1>10, <2>3
    <3>3. \A a, b \in Nat : a <= b /\ r.data = Run(a, b) => Contig(Unsents(s.inq[c]), a, b)
      BY <1>6, <2>3
    <3>4. Flow(wrote[p], w.out[p], s.inq[c], y, sent[c])
      BY <1>2, <1>7, <1>10, <2>1, <3>1, <3>2, <3>3, RecvFlow
    <3> QED  BY <1>11, <1>12, <3>4
  <2> QED  BY <2>2, <2>3
<1>19. Flow(wrote[c], s.out[c], s.inq[p], k'[p], sent[p])
  BY <1>3, <1>4, <1>11, <1>12 DEF Flows
<1>20. Flows(s, k', wrote, sent)
  <2> SUFFICES ASSUME NEW x \in Conn
               PROVE  Flow(wrote[x], s.out[x], s.inq[Peer(x)], k'[Peer(x)], sent[Peer(x)])
    BY DEF Flows
  <2>1. CASE x = c
    BY <1>4, <1>19, <2>1
  <2>2. CASE x = p
    BY <1>4, <1>18, <2>2
  <2> QED  BY <1>4, <2>1, <2>2
<1>21. SInv'
  <2>1. Wrote(wrote, sent)
    BY DEF SInv
  <2> DEFINE kk == k'
  <2>2. k' = kk /\ Net(s, kk, hung) /\ Flows(s, kk, wrote, sent)
    BY <1>17, <1>20
  <2> HIDE DEF kk
  <2> QED  BY <1>2, <1>8, <1>14, <1>15, <2>1, <2>2, SInvNext
<1>22. EndedOf(w)' = EndedOf(w) /\ w'.alive = w.alive
  BY <1>8, <1>12, <1>13 DEF EndedOf
<1> QED  BY <1>2, <1>21, <1>22, StutterStep, ShutSame DEF StreamStep

\* When the output is empty, all that was read and parsed was written.
LEMMA FlowDone ==
  ASSUME NEW z, NEW q \in Seq(Packet), NEW x, NEW g \in Nat, Flow(z, <<>>, q, x, g), ~x.rst
  PROVE  Len(z) + Len(UnsentOf(q, Len(q))) = g - Len(x.rcv)
<1>1. PICK n, m, j \in 0..g :
        /\ z = Run(0, n)
        /\ Contig(Unsents(<<>>), n, m) /\ Contig(Unsents(q), m, j)
        /\ x.rst \/ x.rcv = Run(j, g)
  BY Zenon DEF Flow
<1>2. n \in Nat /\ m \in Nat /\ j \in Nat /\ j <= g /\ 0 \in Nat /\ 0 <= n
  OBVIOUS
<1>3. n = m
  <2>1. Contig(<<>>, n, m)
    BY <1>1, UnsentsNone
  <2>2. Len(<<>>) = 0
    OBVIOUS
  <2> QED  BY <2>1, <2>2 DEF Contig, Cuts
<1>4. FlattenSeq(Unsents(q)) = Run(m, j) /\ m <= j
  <2>1. Unsents(q) \in Seq(Seq(Nat))
    BY UnsentsType
  <2>2. Contig(Unsents(q), m, j)
    BY <1>1
  <2> QED  BY <1>2, <2>1, <2>2, FlattenRun
<1>5. UnsentOf(q, Len(q)) = FlattenSeq(Unsents(q))
  BY DEF UnsentOf, Unsents
<1>6. \A a, b \in Nat : a <= b => Len(Run(a, b)) = b - a
  BY RunType
<1>7. Len(Run(0, n)) = n - 0 /\ Len(Run(m, j)) = j - m /\ Len(Run(j, g)) = g - j
  BY <1>2, <1>4, <1>6
<1>8. x.rcv = Run(j, g)
  BY <1>1
<1>9. Len(z) = n - 0 /\ Len(UnsentOf(q, Len(q))) = j - m /\ Len(x.rcv) = g - j
  BY <1>1, <1>4, <1>5, <1>7, <1>8
<1> QED  BY <1>2, <1>3, <1>9

\* A step that sends on c from memory t and leaves memory s.
LEMMA SentStream ==
  ASSUME w.alive, NEW t \in Memory, NEW c \in Conn, NEW kc, NEW free \in Int,
         NEW o \in SendOutcome(t, c, kc, free),
         wrote \in [Conn -> Seq(Nat)], sent \in [Conn -> Nat], Flows(t, k, wrote, sent),
         \A x \in Conn : /\ "SHUTRD" \in t.flags[x] => x \in hung
                         /\ "SHUTWR" \in t.flags[x] <=> "SHUTWR" \in w.flags[x],
         w'.alive \in BOOLEAN, w'.flags = conn_send_data(t, c, o).flags,
         w'.alive => w'.inq[Peer(c)] = t.inq[Peer(c)],
         wrote' = [wrote EXCEPT ![c] = @ \o SentBytes(t, c, o)], UNCHANGED <<sent, hung>>
  PROVE  /\ [R!RelayNext]_(R!rvars) /\ ShutOK
         /\ Flows(conn_send_data(t, c, o), k, wrote', sent) /\ Wrote(wrote', sent)
<1> DEFINE a == conn_send_data(t, c, o)
           p == Peer(c)
           b == SentBytes(t, c, o)
<1>1. /\ a.inq = t.inq
      /\ \A x \in Conn :
           /\ "SHUTWR" \in t.flags[x] => "SHUTWR" \in a.flags[x]
           /\ "SHUTWR" \in a.flags[x] /\ "SHUTWR" \notin t.flags[x] =>
                x = c /\ "SHUTRD" \in t.flags[Peer(c)] /\ a.out[c] = <<>>
      /\ "SHUTWR" \in t.flags[c] => b = <<>>
  <2>1. a.inq = t.inq
    BY SendView
  <2>2. \A x \in Conn :
           /\ "SHUTWR" \in t.flags[x] => "SHUTWR" \in a.flags[x]
           /\ "SHUTWR" \in a.flags[x] /\ "SHUTWR" \notin t.flags[x] =>
                x = c /\ "SHUTRD" \in t.flags[Peer(c)] /\ a.out[c] = <<>>
    BY SendView
  <2>3. "SHUTWR" \in t.flags[c] => b = <<>>
    BY SendView
  <2> QED  BY <2>1, <2>2, <2>3
<1>2. /\ wrote' \in [Conn -> Seq(Nat)] /\ Flows(a, k, wrote', sent)
      /\ Advances(wrote, c, wrote', sent[Peer(c)])
  <2> DEFINE z == wrote
             l == k
             g == sent
             y == wrote'
  <2>1. z \in [Conn -> Seq(Nat)] /\ g \in [Conn -> Nat] /\ Flows(t, l, z, g)
    OBVIOUS
  <2>2. y = [z EXCEPT ![c] = @ \o SentBytes(t, c, o)]
    OBVIOUS
  <2> HIDE DEF z, l, g, y
  <2>3. y \in [Conn -> Seq(Nat)] /\ Flows(a, l, y, g) /\ Advances(z, c, y, g[Peer(c)])
    BY <2>1, <2>2, SendFlows
  <2> QED  BY <2>3 DEF z, l, g, y
<1>3. p \in Conn /\ Peer(c) = p /\ sent[p] \in Nat
  BY PeerConn DEF p
<1>4. w'.flags = a.flags
  OBVIOUS
<1> HIDE DEF a, p, b
<1>5. Wrote(wrote', sent)
  BY <1>2, FlowsWrote
<1>6. PICK n, m \in 0..sent[p] : n <= m /\ wrote[c] = Run(0, n) /\ wrote' = [wrote EXCEPT ![c] = Run(0, m)]
  BY <1>2, <1>3 DEF Advances
<1>7. EndedOf(w)' = EndedOf(w) \/ (p \in hung /\ EndedOf(w)' = EndedOf(w) \union {c})
  <2>1. \A x \in Conn : x \in EndedOf(w)' <=> "SHUTWR" \in a.flags[x]
    BY <1>4 DEF EndedOf
  <2>2. \A x \in Conn : x \in EndedOf(w) <=> "SHUTWR" \in t.flags[x]
    BY DEF EndedOf
  <2>3. EndedOf(w)' \subseteq Conn /\ EndedOf(w) \subseteq Conn
    BY DEF EndedOf
  <2>4. CASE "SHUTWR" \in a.flags[c] /\ "SHUTWR" \notin t.flags[c]
    <3>1. p \in hung
      BY <1>1, <1>3, <2>4
    <3>2. EndedOf(w)' = EndedOf(w) \union {c}
      BY <1>1, <2>1, <2>2, <2>3, <2>4
    <3> QED  BY <3>1, <3>2
  <2>5. CASE ~("SHUTWR" \in a.flags[c] /\ "SHUTWR" \notin t.flags[c])
    BY <1>1, <2>1, <2>2, <2>3, <2>5
  <2> QED  BY <2>4, <2>5
<1>8. c \in EndedOf(w) => n = m
  <2> SUFFICES ASSUME c \in EndedOf(w) PROVE n = m
    OBVIOUS
  <2>1. b = <<>>
    BY <1>1 DEF EndedOf
  <2>2. wrote' = [wrote EXCEPT ![c] = wrote[c] \o b]
    BY DEF b
  <2>3. wrote'[c] = wrote[c]
    <3>1. wrote[c] \in Seq(Nat)
      OBVIOUS
    <3>2. wrote[c] \o <<>> = wrote[c]
      BY <3>1
    <3> QED  BY <2>1, <2>2, <3>2
  <2>4. Run(0, m) = Run(0, n)
    BY <1>6, <2>3
  <2>5. \A d, e \in Nat : d <= e => Len(Run(d, e)) = e - d
    BY RunType
  <2>7. m \in Nat /\ n \in Nat /\ 0 \in Nat /\ 0 <= m /\ 0 <= n
    BY <1>3
  <2>6. Len(Run(0, m)) = m - 0 /\ Len(Run(0, n)) = n - 0
    BY <2>5, <2>7
  <2> QED  BY <1>3, <2>4, <2>6
<1>9. [R!RelayNext]_(R!rvars)
  BY <1>3, <1>6, <1>7, <1>8, DeliverStep
<1>10. ShutOK
  <2> SUFFICES ASSUME NEW x \in Conn, w'.alive, ~k[Peer(x)].rst,
                      "SHUTWR" \in w'.flags[x], "SHUTWR" \notin w.flags[x]
               PROVE  Len(wrote'[x]) + Len(UnsentOf(w'.inq[Peer(x)], Len(w'.inq[Peer(x)])))
                        = sent[Peer(x)] - Len(k[Peer(x)].rcv)
    BY DEF ShutOK
  <2>1. x = c /\ a.out[c] = <<>>
    BY <1>1, <1>4
  <2>2. w'.inq[p] = a.inq[p]
    BY <1>1, <1>3
  <2>3. Flow(wrote'[c], <<>>, a.inq[p], k[p], sent[p])
    BY <1>2, <1>3, <2>1 DEF Flows
  <2>4. a.inq[p] \in Seq(Packet)
    BY <1>1, <1>3 DEF Memory
  <2>5. Len(wrote'[c]) + Len(UnsentOf(a.inq[p], Len(a.inq[p]))) = sent[p] - Len(k[p].rcv)
    <3>1. ~k[p].rst
      BY <1>3, <2>1
    <3> DEFINE z == wrote'[c]
               q == a.inq[p]
               y == k[p]
               g == sent[p]
    <3>2. g \in Nat /\ q \in Seq(Packet) /\ Flow(z, <<>>, q, y, g) /\ ~y.rst
      BY <1>3, <2>3, <2>4, <3>1
    <3> HIDE DEF z, q, y, g
    <3>3. Len(z) + Len(UnsentOf(q, Len(q))) = g - Len(y.rcv)
      BY <3>2, FlowDone
    <3> QED  BY <3>3 DEF z, q, y, g
  <2>6. Peer(x) = p /\ wrote'[x] = wrote'[c]
    BY <1>3, <2>1
  <2> QED  BY <2>2, <2>5, <2>6
<1> QED  BY <1>2, <1>5, <1>9, <1>10 DEF a

LEMMA SendEventView ==
  ASSUME NEW s \in Memory, NEW c \in Conn, NEW kc, NEW free \in Int,
         NEW o \in SendOutcome(s, c, kc, free)
  PROVE  LET a == conn_send_data(s, c, o)
             t == SendEvent(s, c, o)
         IN  /\ Links(s, c, t)
             /\ t.flags = a.flags /\ t.out = a.out /\ t.inq = s.inq
             /\ t.svrdata = s.svrdata /\ t.task[Peer(c)] = s.task[Peer(c)]
             /\ \A x \in Conn : "SHUTRD" \in t.flags[x] <=> "SHUTRD" \in s.flags[x]
<1> DEFINE a == conn_send_data(s, c, o)
           b == AddTaskAlways(a, c, "DELETE")
           t == SendEvent(s, c, o)
<1>1. o \in SendResult(s.out[c])
  BY DEF SendOutcome
<1>2. Links(s, c, t)
  BY <1>1, SendEventLinks
<1>3. a \in Memory
  BY <1>1, SendKeeps DEF Keeps
<1>4. /\ a.svrdata = s.svrdata /\ a.inq = s.inq /\ a.task = s.task
      /\ \A x \in Conn : "SHUTRD" \in a.flags[x] <=> "SHUTRD" \in s.flags[x]
  BY SendView
<1>5. t = IF o.end = "err" THEN b ELSE a
  BY DEF SendEvent
<1> HIDE DEF a, t
<1>6. AlikeBut(a, c, b) /\ b.flags = a.flags
  <2>1. "DELETE" \in TaskType
    BY DEF TaskType
  <2> QED  BY <1>3, <2>1, AddTaskView
<1> HIDE DEF b
<1>7. /\ b.svrdata = a.svrdata /\ b.inq = a.inq /\ b.out = a.out
      /\ b.task[Peer(c)] = a.task[Peer(c)]
  BY <1>6 DEF AlikeBut
<1>8. /\ t.flags = a.flags /\ t.out = a.out /\ t.inq = a.inq
      /\ t.svrdata = a.svrdata /\ t.task[Peer(c)] = a.task[Peer(c)]
  BY <1>5, <1>6, <1>7
<1>9. t.inq = s.inq /\ t.svrdata = s.svrdata /\ t.task[Peer(c)] = s.task[Peer(c)]
  BY <1>4, <1>8
<1>10. \A x \in Conn : "SHUTRD" \in t.flags[x] <=> "SHUTRD" \in s.flags[x]
  BY <1>4, <1>8
<1> QED  BY <1>2, <1>8, <1>9, <1>10 DEF a, t

LEMMA SendCallbackStream ==
  ASSUME IInv, SInv, NEW c \in Conn, SendCallback(c)
  PROVE  StreamStep
<1>1. PICK o \in SendOutcome(w, c, k[c], SndBuf - sndq[c]) :
        Called(SendEvent(w, c, o)) /\ Sent(w, c, o, SendEvent(w, c, o))
  BY DEF SendCallback
<1>2. /\ Dispatch(c) /\ UNCHANGED <<sent, hung>> /\ w \in Memory /\ Base(w)
      /\ k \in [Conn -> Socket] /\ sent \in [Conn -> Nat] /\ wrote \in [Conn -> Seq(Nat)]
      /\ Net(w, k, hung)
  BY DEF SendCallback, IInv, TypeOK, SInv, Wrote
<1>3. SndBuf - sndq[c] \in Int
  BY SessionAssumption DEF IInv, TypeOK
<1>4. /\ w.alive /\ w.fd[c] /\ ~task_in_queue(w, c) /\ Intact(w) /\ w.inq[c] = <<>>
      /\ Flows(w, k, wrote, sent)
  BY <1>2, CallbackFacts
<1> DEFINE s == SendEvent(w, c, o)
           a == conn_send_data(w, c, o)
           kc == k[c]
           free == SndBuf - sndq[c]
<1>5. /\ w' = s /\ Called(s) /\ k' = Sockets(s, k)
      /\ wrote' = [wrote EXCEPT ![c] = @ \o SentBytes(w, c, o)]
  BY <1>1 DEF Called, Sent
<1>6. free \in Int /\ o \in SendOutcome(w, c, kc, free)
  BY <1>3
<1> HIDE DEF kc, free
<1>7. /\ Links(w, c, s)
      /\ s.flags = a.flags /\ s.out = a.out /\ s.inq = w.inq
      /\ s.svrdata = w.svrdata /\ s.task[Peer(c)] = w.task[Peer(c)]
      /\ \A x \in Conn : "SHUTRD" \in s.flags[x] <=> "SHUTRD" \in w.flags[x]
  BY <1>2, <1>6, SendEventView
<1> HIDE DEF s
<1>8. s.fd = w.fd /\ s.alive = w.alive /\ s \in Memory
  BY <1>7 DEF Links
<1>9. k' = k
  BY <1>2, <1>5, <1>8, SocketsSame DEF Net
<1>10. /\ [R!RelayNext]_(R!rvars) /\ ShutOK
       /\ Flows(a, k, wrote', sent) /\ Wrote(wrote', sent)
  <2>1. \A x \in Conn : "SHUTRD" \in w.flags[x] => x \in hung
    BY <1>2 DEF Net
  <2>2. w'.alive \in BOOLEAN /\ w'.flags = a.flags /\ w'.inq = w.inq
    BY <1>5, <1>7, <1>8 DEF Memory
  <2> QED  BY <1>2, <1>4, <1>5, <1>6, <2>1, <2>2, SentStream
<1> HIDE DEF a
<1>11. Base(s) /\ Intact(s)
  BY <1>2, <1>4, <1>7, CallbackBase
<1>12. Poll'
  BY <1>2, <1>5, <1>11, CallbackPoll
<1>13. Net(s, k, hung)
  <2>1. \A x \in Conn : "SHUTRD" \in s.flags[x] => "SHUTRD" \in w.flags[x] \/ x \in hung
    BY <1>7
  <2> QED  BY <1>2, <1>7, <1>8, <2>1, NetFlags
<1>14. SInv'
  <2> DEFINE z == wrote'
             l == k
             g == sent
  <2>0. s.out = a.out /\ s.inq = a.inq
    <3>1. a.inq = w.inq
      BY <1>2, <1>6, SendView DEF a
    <3> QED  BY <1>7, <3>1
  <2>1. Flows(a, l, z, g) /\ Wrote(z, g) /\ wrote' = z /\ l = k /\ g = sent
    BY <1>10
  <2> HIDE DEF z, l, g
  <2>2. Flows(s, l, z, g)
    BY <2>0, <2>1, FlowsSame
  <2>3. Flows(s, k, z, sent) /\ Wrote(z, sent)
    BY <2>1, <2>2
  <2> QED  BY <1>2, <1>5, <1>9, <1>11, <1>12, <1>13, <2>1, <2>3, SInvNext
<1> QED  BY <1>10, <1>14 DEF StreamStep

\* A new session: the client's socket, and nothing read or written.
LEMMA AcceptView ==
  ASSUME NEW s, Sound(s), ~s.alive
  PROVE  LET t == _ltn_accept(s)
         IN  /\ ~t.svrdata /\ t.fd[Client] /\ ~t.fd[Server]
             /\ \A c \in Conn : /\ t.inq[c] = <<>> /\ t.out[c] = <<>>
                                /\ "SHUTRD" \notin t.flags[c] /\ "SHUTWR" \notin t.flags[c]
<1> DEFINE cb == IF Client \in SSLConn THEN "handshake" ELSE "recv"
           i == session_init(s)
           n == AddEvent(i, Client, FD_IN, cb)
           a == [n EXCEPT !.alive = TRUE, !.fd[Client] = TRUE, !.plref = @ + 1]
           x == [a EXCEPT !.ssl[Client] = "fd", !.nssl = @ + 1, !.flags[Client] = {"SSLHSK"}]
<1>1. s.plref \in Int /\ s.svrref \in Int /\ s.nssl \in Int /\ Client \in Conn
  BY DEF Sound, Memory, Conn
<1>2. i = Slot(0, <<>>, s.plref, s.svrref, s.nssl)
  BY DEF session_init, Sound
<1>3. i \in Memory
  <2>1. Sound(Slot(0, <<>>, s.plref, s.svrref, s.nssl))
    BY <1>1, SlotSound
  <2>2. Sound(i)
    BY <1>2, <2>1, Zenon
  <2> HIDE DEF i
  <2> QED  BY <2>2 DEF Sound
<1>4. /\ i.svrdata = FALSE /\ i.fd = [c \in Conn |-> FALSE]
      /\ i.inq = [c \in Conn |-> <<>>] /\ i.out = [c \in Conn |-> <<>>]
      /\ i.flags = [c \in Conn |-> {}]
  BY <1>2 DEF Slot
<1> HIDE DEF i
<1>5. cb \in Callback
  BY DEF Callback
<1> HIDE DEF cb
<1>6. Keeps(i, n) /\ n \in Memory
  BY <1>1, <1>3, <1>5, AddEventKeeps, HandlerConstants DEF Keeps
<1>7. Alike(i, n)
  BY <1>1, <1>3, AlikeEvent
<1> HIDE DEF n
<1>8. /\ n.svrdata = FALSE /\ n.fd = [c \in Conn |-> FALSE]
      /\ n.inq = [c \in Conn |-> <<>>] /\ n.out = [c \in Conn |-> <<>>]
      /\ \A c \in Conn : "SHUTRD" \notin n.flags[c] /\ "SHUTWR" \notin n.flags[c]
  BY <1>4, <1>6, <1>7 DEF Keeps, Alike
<1>9. /\ a.svrdata = n.svrdata /\ a.inq = n.inq /\ a.out = n.out /\ a.flags = n.flags
      /\ a.fd = [n.fd EXCEPT ![Client] = TRUE]
  BY <1>6 DEF Memory
<1>10. /\ x.svrdata = a.svrdata /\ x.inq = a.inq /\ x.out = a.out
       /\ x.flags = [a.flags EXCEPT ![Client] = {"SSLHSK"}] /\ x.fd = a.fd
  BY <1>6 DEF Memory
<1> HIDE DEF a, x
<1>11. _ltn_accept(s) \in {a, x}
  BY Zenon DEF _ltn_accept, n, i, cb, a, x
<1>12. Server \in Conn /\ Server # Client
  BY DEF Conn, Client, Server
<1>13. \A t \in {a, x} :
         /\ ~t.svrdata /\ t.fd[Client] /\ ~t.fd[Server]
         /\ \A c \in Conn : t.inq[c] = <<>> /\ t.out[c] = <<>>
  BY <1>1, <1>8, <1>9, <1>10, <1>12
<1>14. n.flags \in [Conn -> SUBSET Flag]
  BY <1>6 DEF Memory
<1>15. \A t \in {a, x} : \A c \in Conn : "SHUTRD" \notin t.flags[c] /\ "SHUTWR" \notin t.flags[c]
  <2>1. \A c \in Conn : "SHUTRD" \notin a.flags[c] /\ "SHUTWR" \notin a.flags[c]
    BY <1>8, <1>9
  <2>2. \A c \in Conn : x.flags[c] = IF c = Client THEN {"SSLHSK"} ELSE a.flags[c]
    BY <1>9, <1>10, <1>14
  <2> QED  BY <2>1, <2>2
<1> QED  BY <1>11, <1>13, <1>15

LEMMA FlowNew ==
  ASSUME NEW x, x.rcv = <<>>
  PROVE  Flow(<<>>, <<>>, <<>>, x, 0)
<1>1. 0 \in 0..0 /\ 0 \in Nat
  OBVIOUS
<1>2. Run(0, 0) = <<>>
  BY <1>1, RunNone
<1>3. Contig(Unsents(<<>>), 0, 0)
  BY <1>1, UnsentsNone, ContigNone
<1> QED  BY <1>1, <1>2, <1>3 DEF Flow

LEMMA AcceptStream ==
  ASSUME IInv, SInv, listener_accept
  PROVE  StreamStep
<1> DEFINE s == _ltn_accept(w)
           z == [c \in Conn |-> <<>>]
           g == [c \in Conn |-> 0]
           l == Sockets(s, k)
<1>1. /\ Dispatch(LFD) /\ Called(s) /\ w' = s /\ k' = l /\ sent' = g /\ hung' = {} /\ wrote' = z
  BY DEF listener_accept, Called
<1>2. batch \in Seq(Event) /\ batch # <<>> /\ batch[1].fd = LFD
  BY <1>1 DEF Dispatch, IInv, TypeOK
<1>3. ~w.alive /\ Len(batch) = 1
  BY <1>2 DEF IInv, BatchOK
<1>4. batch' = <<>>
  BY <1>1, <1>2, <1>3 DEF Called
<1>5. Sound(w) /\ \A c \in Conn : ~w.fd[c]
  BY <1>3 DEF IInv, Sound
<1>6. Sound(s) /\ s.alive /\ s.taskq = <<>>
  BY <1>3, <1>5, AcceptSound
<1>7. /\ ~s.svrdata /\ s.fd[Client] /\ ~s.fd[Server]
      /\ \A c \in Conn : /\ s.inq[c] = <<>> /\ s.out[c] = <<>>
                         /\ "SHUTRD" \notin s.flags[c] /\ "SHUTWR" \notin s.flags[c]
  BY <1>3, <1>5, AcceptView
<1> HIDE DEF s
<1>8. k \in [Conn -> Socket] /\ Agrees(w, k)
  BY DEF IInv, TypeOK, SInv, Net
<1>9. \A c \in Conn : ~l[c].rst /\ ~l[c].fin /\ l[c].rcv = <<>>
  <2> SUFFICES ASSUME NEW c \in Conn PROVE ~l[c].rst /\ ~l[c].fin /\ l[c].rcv = <<>>
    OBVIOUS
  <2>1. k[c] = NoSock
    BY <1>5, <1>8 DEF Agrees
  <2>2. ~NoSock.rst /\ ~NoSock.fin /\ NoSock.rcv = <<>>
    BY DEF NoSock
  <2>3. /\ s.fd[c] => l[c].rst = k[c].rst /\ l[c].rcv = k[c].rcv /\ l[c].fin = k[c].fin
        /\ ~s.fd[c] => l[c] = NoSock
    BY <1>8, SocketsOpen
  <2> QED  BY <2>1, <2>2, <2>3
<1>10. Agrees(s, l)
  BY <1>6, <1>8, SocketsAgree DEF Sound
<1> HIDE DEF l
<1>11. Intact(s)
  BY <1>6, <1>7 DEF Intact
<1>12. Net(s, l, {})
  BY <1>7, <1>9, <1>10 DEF Net
<1>13. Base(s)
  BY <1>6, <1>7, <1>11 DEF Base, task_in_queue
<1>14. z \in [Conn -> Seq(Nat)] /\ g \in [Conn -> Nat]
  OBVIOUS
<1>15. \A c \in Conn : z[c] = <<>> /\ g[c] = 0 /\ Peer(c) \in Conn
  BY PeerConn
<1>16. Flows(s, l, z, g)
  <2> SUFFICES ASSUME NEW c \in Conn
               PROVE  Flow(z[c], s.out[c], s.inq[Peer(c)], l[Peer(c)], g[Peer(c)])
    BY DEF Flows
  <2>1. Flow(<<>>, <<>>, <<>>, l[Peer(c)], 0)
    BY <1>9, <1>15, FlowNew
  <2> QED  BY <1>7, <1>15, <2>1
<1> HIDE DEF z, g
<1>17. Wrote(z, g)
  BY <1>14, <1>16, FlowsWrote
<1>18. Poll'
  <2>1. Len(batch') = 0
    BY <1>4
  <2>2. Intact(w)'
    BY <1>1, <1>11 DEF Intact
  <2> QED  BY <2>1, <2>2 DEF Poll
<1>19. SInv'
  BY <1>1, <1>12, <1>13, <1>16, <1>17, <1>18, SInvMade
<1>20. EndedOf(w)' = {}
  BY <1>1, <1>7 DEF EndedOf
<1>21. [R!RelayNext]_(R!rvars)
  BY <1>1, <1>3, <1>6, <1>20, OpenStep DEF z, g
<1>22. ShutOK
  <2>1. \A c \in Conn : "SHUTWR" \notin w'.flags[c]
    BY <1>1, <1>7
  <2> QED  BY <2>1 DEF ShutOK
<1> QED  BY <1>19, <1>21, <1>22 DEF StreamStep

\* What a task of c finds, once it is unlinked.
LEMMA TaskFacts ==
  ASSUME IInv, SInv, NEW c \in Conn, NEW type, Running(c, type)
  PROVE  /\ Sound(Unlinked) /\ Unlinked.alive /\ ~task_in_queue(Unlinked, c)
         /\ Unlinked.fd = w.fd /\ Unlinked.out = w.out /\ Unlinked.inq = w.inq
         /\ Unlinked.flags = w.flags /\ Unlinked.svrdata = w.svrdata /\ Unlinked.task = w.task
         /\ w.alive /\ w.fd[c] /\ (w.fd[Server] => w.svrdata) /\ (c = Server => w.svrdata)
         /\ task_in_queue(Unlinked, Peer(c)) => w.fd[Peer(c)]
         /\ type # "DELETE" => Intact(w)
         /\ type = "SEND" => w.inq[c] = <<>>
         /\ Intact(w) /\ w.inq[Peer(c)] # <<>> =>
              task_in_queue(Unlinked, Peer(c)) /\ w.task[Peer(c)] # "SEND"
<1> DEFINE u == Unlinked
           q == w.taskq
           p == Peer(c)
<1>1. /\ Sound(u) /\ u.alive /\ ~task_in_queue(u, c)
      /\ u.taskq = Tail(q) /\ u.out = w.out /\ u.fd = w.fd
  BY UnlinkedSound
<1>2. /\ w \in Memory /\ q \in Seq(Conn) /\ q # <<>> /\ q[1] = c /\ w.task[c] = type /\ Base(w)
  BY DEF IInv, TypeOK, Memory, Running, SInv
<1>3. /\ u.inq = w.inq /\ u.flags = w.flags /\ u.svrdata = w.svrdata /\ u.task = w.task
  BY <1>2 DEF Unlinked, Memory
<1> HIDE DEF u
<1>4. 1 \in 1..Len(q) /\ Len(q) >= 1
  BY <1>2
<1>5. task_in_queue(w, c)
  BY <1>2, <1>4 DEF task_in_queue
<1>6. w.alive /\ w.fd[c] /\ (w.fd[Server] => w.svrdata) /\ (c = Server => w.svrdata)
  BY <1>2, <1>5 DEF Base
<1>7. \A i \in 1..Len(Tail(q)) : i + 1 \in 1..Len(q) /\ Tail(q)[i] = q[i + 1]
  BY <1>2
<1>8. task_in_queue(u, p) => task_in_queue(w, p)
  BY <1>1, <1>7 DEF task_in_queue
<1>9. p \in Conn /\ p # c
  BY PeerConn
<1> HIDE DEF p
<1>10. task_in_queue(w, p) => task_in_queue(u, p)
  <2> SUFFICES ASSUME NEW i \in 1..Len(q), q[i] = p
               PROVE  \E j \in 1..Len(Tail(q)) : Tail(q)[j] = p
    BY <1>1 DEF task_in_queue
  <2>1. i # 1
    BY <1>2, <1>9
  <2>2. i - 1 \in 1..Len(Tail(q)) /\ Tail(q)[i - 1] = q[i]
    BY <1>2, <2>1
  <2> QED  BY <2>2
<1>11. task_in_queue(u, p) => w.fd[p]
  BY <1>2, <1>8, <1>9 DEF Base
<1>12. type # "DELETE" => Intact(w)
  <2> SUFFICES ASSUME ~Intact(w) PROVE type = "DELETE"
    OBVIOUS
  <2>1. PICK d \in Conn : q = <<d>> /\ w.task[d] = "DELETE"
    BY <1>2, <1>6 DEF Base
  <2> QED  BY <1>2, <2>1
<1>13. type = "SEND" => w.inq[c] = <<>>
  BY <1>2, <1>12 DEF Base
<1>14. Intact(w) /\ w.inq[p] # <<>> => task_in_queue(u, p) /\ w.task[p] # "SEND"
  BY <1>2, <1>9, <1>10 DEF Base
<1> QED  BY <1>1, <1>3, <1>6, <1>11, <1>12, <1>13, <1>14 DEF u, p

LEMMA RanPoll ==
  ASSUME IInv, NEW c \in Conn, NEW type, Running(c, type), NEW s, Ran(s)
  PROVE  Poll'
<1>1. batch = <<>>
  BY DEF Running, IInv, PhaseOK
<1>2. batch' = <<>> /\ phase' # "poll"
  BY <1>1 DEF Ran
<1>3. Len(batch') = 0
  BY <1>2
<1> QED  BY <1>2, <1>3 DEF Poll

\* A task that deletes the session and sends nothing.
LEMMA FreedStream ==
  ASSUME IInv, SInv, NEW c \in Conn, NEW type, Running(c, type), w.alive,
         NEW s \in Memory, Freed(s), Base(s), ~Intact(s),
         \A x \in Conn : s.fd[x] /\ ~w.fd[x] => x = Server /\ Intact(w),
         \A x \in Conn : /\ "SHUTRD" \in s.flags[x] => "SHUTRD" \in w.flags[x]
                         /\ "SHUTWR" \in s.flags[x] <=> "SHUTWR" \in w.flags[x]
  PROVE  StreamStep
<1>1. Ran(s) /\ w' = s /\ k' = Sockets(s, k) /\ UNCHANGED <<sent, hung, wrote>>
  BY DEF Freed, Ran
<1>2. Poll'
  BY <1>1, RanPoll
<1>3. k \in [Conn -> Socket] /\ Net(w, k, hung) /\ Wrote(wrote, sent)
  BY DEF IInv, TypeOK, SInv
<1>4. Net(s, Sockets(s, k), hung)
  BY <1>3, NetAfter
<1>5. SInv'
  BY <1>1, <1>2, <1>3, <1>4, SInvMade
<1>6. EndedOf(w)' = EndedOf(w)
  BY <1>1 DEF EndedOf
<1>7. s.alive \in BOOLEAN
  BY DEF Memory
<1>8. CASE s.alive
  <2>1. w'.alive = w.alive
    <3>1. w.alive \in BOOLEAN
      BY DEF IInv, TypeOK, Memory
    <3> QED  BY <1>1, <1>7, <1>8, <3>1
  <2> QED  BY <1>1, <1>5, <1>6, <2>1, StutterStep, ShutSame DEF StreamStep
<1>9. CASE ~s.alive
  BY <1>1, <1>5, <1>6, <1>9, EndStep, ShutSame DEF StreamStep
<1> QED  BY <1>8, <1>9

LEMMA DeleteStream ==
  ASSUME IInv, SInv, NEW c \in Conn, TaskDelete(c)
  PROVE  StreamStep
<1> DEFINE u == Unlinked
           s == session_free(u, c)
<1>1. Running(c, "DELETE") /\ Freed(s)
  BY DEF TaskDelete
<1>2. /\ Sound(u) /\ u.alive /\ ~task_in_queue(u, c)
      /\ u.fd = w.fd /\ u.flags = w.flags /\ u.svrdata = w.svrdata
      /\ w.alive /\ (w.fd[Server] => w.svrdata) /\ (c = Server => w.svrdata)
      /\ task_in_queue(u, Peer(c)) => w.fd[Peer(c)]
  BY <1>1, TaskFacts
<1> HIDE DEF u
<1>3. /\ Base(s) /\ ~Intact(s) /\ s.flags = u.flags
      /\ \A x \in Conn : s.fd[x] => u.fd[x]
  BY <1>2, FreeView
<1>4. s \in Memory
  BY <1>2, SessionFree DEF Sound
<1> HIDE DEF s
<1>5. \A x \in Conn : s.fd[x] /\ ~w.fd[x] => x = Server /\ Intact(w)
  BY <1>2, <1>3
<1>6. \A x \in Conn : /\ "SHUTRD" \in s.flags[x] => "SHUTRD" \in w.flags[x]
                      /\ "SHUTWR" \in s.flags[x] <=> "SHUTWR" \in w.flags[x]
  BY <1>2, <1>3
<1> QED  BY <1>1, <1>2, <1>3, <1>4, <1>5, <1>6, FreedStream

\* A task that sends on x from memory t, and then keeps or deletes the session.
LEMMA SentTask ==
  ASSUME IInv, SInv, NEW c \in Conn, NEW type, Running(c, type), Intact(w),
         NEW t \in Memory, NEW x \in Conn, NEW kc, NEW free \in Int,
         NEW o \in SendOutcome(t, x, kc, free), Flows(t, k, wrote, sent),
         \A y \in Conn : /\ "SHUTRD" \in t.flags[y] <=> "SHUTRD" \in w.flags[y]
                         /\ "SHUTWR" \in t.flags[y] <=> "SHUTWR" \in w.flags[y],
         \A y \in Conn : (w.fd[y] => t.fd[y]) /\ (t.fd[y] /\ ~w.fd[y] => y = Server),
         NEW s \in Memory, Ran(s), Sent(t, x, o, s), Base(s),
         s.flags = conn_send_data(t, x, o).flags,
         s.alive => s.inq[Peer(x)] = t.inq[Peer(x)],
         s = conn_send_data(t, x, o) \/ (~Intact(s) /\ \A y \in Conn : s.fd[y] => t.fd[y])
  PROVE  StreamStep
<1> DEFINE a == conn_send_data(t, x, o)
           l == Sockets(s, k)
<1>1. /\ w' = s /\ k' = l /\ UNCHANGED <<sent, hung>>
      /\ wrote' = [wrote EXCEPT ![x] = @ \o SentBytes(t, x, o)]
  BY DEF Ran, Sent
<1>2. /\ k \in [Conn -> Socket] /\ sent \in [Conn -> Nat] /\ wrote \in [Conn -> Seq(Nat)]
      /\ Net(w, k, hung) /\ w.alive
  BY DEF IInv, TypeOK, SInv, Wrote, Intact
<1>3. Poll'
  BY RanPoll
<1>4. /\ [R!RelayNext]_(R!rvars) /\ ShutOK
      /\ Flows(a, k, wrote', sent) /\ Wrote(wrote', sent)
  <2>1. \A y \in Conn : "SHUTRD" \in t.flags[y] => y \in hung
    BY <1>2 DEF Net
  <2>2. w'.alive \in BOOLEAN /\ w'.flags = a.flags /\ (w'.alive => w'.inq[Peer(x)] = t.inq[Peer(x)])
    BY <1>1 DEF Memory
  <2> QED  BY <1>1, <1>2, <2>1, <2>2, SentStream
<1>5. a.fd = t.fd
  <2>1. o \in SendResult(t.out[x])
    BY DEF SendOutcome
  <2> QED  BY <2>1, SendKeeps DEF Keeps
<1>6. \A y \in Conn : "SHUTRD" \in a.flags[y] <=> "SHUTRD" \in t.flags[y]
  BY SendView
<1>7. s = a \/ (~Intact(s) /\ \A y \in Conn : s.fd[y] => t.fd[y])
  OBVIOUS
<1>8. s.flags = a.flags
  OBVIOUS
<1> HIDE DEF a
<1>9. Net(s, l, hung)
  <2>1. \A y \in Conn : s.fd[y] /\ ~w.fd[y] => y = Server /\ Intact(w)
    BY <1>5, <1>7
  <2>2. \A y \in Conn : "SHUTRD" \in s.flags[y] => "SHUTRD" \in w.flags[y]
    BY <1>6, <1>8
  <2>3. Intact(s) /\ ~s.fd[Server] => Intact(w) /\ ~w.fd[Server]
    BY <1>5, <1>7, ConnIs
  <2> QED  BY <1>2, <2>1, <2>2, <2>3, NetAfter
<1>10. ASSUME Intact(s) PROVE Flows(s, l, wrote', sent)
  <2>1. s = a /\ s.fd = t.fd
    BY <1>5, <1>7, <1>10
  <2>2. \A y \in Conn : l[y].rst = k[y].rst /\ l[y].rcv = k[y].rcv
    <3> SUFFICES ASSUME NEW y \in Conn PROVE l[y].rst = k[y].rst /\ l[y].rcv = k[y].rcv
      OBVIOUS
    <3>1. /\ s.fd[y] => l[y].rst = k[y].rst /\ l[y].rcv = k[y].rcv /\ l[y].fin = k[y].fin
          /\ ~s.fd[y] => l[y] = NoSock
      <4>1. Agrees(w, k)
        BY <1>2 DEF Net
      <4> QED  BY <1>2, <4>1, SocketsOpen
    <3>2. ~s.fd[y] => k[y] = NoSock
      <4>1. ~s.fd[y] => ~w.fd[y]
        BY <2>1
      <4> QED  BY <1>2, <4>1 DEF Net, Agrees
    <3> QED  BY <3>1, <3>2
  <2> DEFINE z == wrote'
             g == sent
             ll == l
             kk == k
  <2>3. Flows(a, kk, z, g) /\ \A y \in Conn : ll[y].rst = kk[y].rst /\ ll[y].rcv = kk[y].rcv
    BY <1>4, <2>2
  <2> HIDE DEF z, g, ll, kk
  <2>4. Flows(s, ll, z, g)
    BY <2>1, <2>3, FlowsSame
  <2> QED  BY <2>4 DEF z, g, ll
<1>11. SInv'
  <2> DEFINE z == wrote'
             g == sent
             h == hung
             ll == l
  <2>1. /\ w' = s /\ k' = ll /\ wrote' = z /\ sent' = g /\ hung' = h
        /\ Net(s, ll, h) /\ Wrote(z, g) /\ (Intact(s) => Flows(s, ll, z, g))
    BY <1>1, <1>4, <1>9, <1>10
  <2> HIDE DEF z, g, h, ll
  <2> QED  BY <1>3, <2>1, SInvMade
<1> QED  BY <1>4, <1>11 DEF StreamStep

LEMMA TaskSendStream ==
  ASSUME IInv, SInv, NEW c \in Conn, TaskSend(c)
  PROVE  StreamStep
<1> DEFINE u == Unlinked
           kc == k[c]
           free == SndBuf - sndq[c]
<1>1. PICK o \in SendOutcome(u, c, kc, free) :
        Ran(RunSend(u, c, o)) /\ Sent(u, c, o, RunSend(u, c, o))
  BY DEF TaskSend
<1>2. Running(c, "SEND")
  BY DEF TaskSend
<1>3. /\ Sound(u) /\ u.alive /\ ~task_in_queue(u, c)
      /\ u.fd = w.fd /\ u.inq = w.inq /\ u.flags = w.flags /\ u.out = w.out
      /\ u.svrdata = w.svrdata /\ u.task = w.task
      /\ w.alive /\ w.fd[c] /\ (w.fd[Server] => w.svrdata) /\ (c = Server => w.svrdata)
      /\ task_in_queue(u, Peer(c)) => w.fd[Peer(c)]
      /\ Intact(w) /\ w.inq[c] = <<>>
      /\ w.inq[Peer(c)] # <<>> => task_in_queue(u, Peer(c)) /\ w.task[Peer(c)] # "SEND"
  BY <1>2, TaskFacts
<1>4. free \in Int
  BY SessionAssumption DEF IInv, TypeOK
<1> HIDE DEF u, kc, free
<1> DEFINE a == conn_send_data(u, c, o)
           s == RunSend(u, c, o)
           f == session_free(a, c)
<1>5. u \in Memory /\ o \in SendResult(u.out[c])
  BY <1>1, <1>3 DEF SendOutcome, Sound
<1>6. Keeps(u, a)
  BY <1>5, SendKeeps
<1>7. Sound(s)
  BY <1>3, <1>5, RunSendSound
<1>8. s \in {a, f}
  BY DEF RunSend, ClosedCheck
<1>9. a.svrdata = u.svrdata /\ a.inq = u.inq /\ a.task = u.task
  BY <1>4, <1>5, SendView
<1> HIDE DEF a, s
<1>10. Sound(a) /\ a.alive /\ a.fd = w.fd /\ a.taskq = u.taskq
  BY <1>3, <1>6, KeepsSound DEF Keeps
<1>11. /\ ~task_in_queue(a, c) /\ (task_in_queue(a, Peer(c)) <=> task_in_queue(u, Peer(c)))
  BY <1>3, <1>10 DEF task_in_queue
<1>12. Base(a) /\ Intact(a)
  <2>1. Intact(a)
    BY <1>3, <1>9, <1>10 DEF Intact
  <2>2. \A x \in Conn : x = c \/ x = Peer(c)
    BY PeerConn, ConnIs
  <2>3. \A x \in Conn : task_in_queue(a, x) => a.alive /\ a.fd[x]
    BY <1>3, <1>10, <1>11, <2>2
  <2>4. \A x \in Conn : a.inq[x] # <<>> => task_in_queue(a, x) /\ a.task[x] # "SEND"
    BY <1>3, <1>9, <1>11, <2>2
  <2> QED  BY <1>3, <1>9, <1>10, <2>1, <2>3, <2>4 DEF Base
<1>13. /\ Base(f) /\ ~Intact(f) /\ f.flags = a.flags /\ (\A x \in Conn : f.fd[x] => a.fd[x])
       /\ f.alive => f.inq[Peer(c)] = a.inq[Peer(c)]
  <2>1. /\ a.fd[Server] => a.svrdata
        /\ c = Server => a.svrdata
        /\ task_in_queue(a, Peer(c)) => a.fd[Peer(c)]
    BY <1>3, <1>9, <1>10, <1>11
  <2> QED  BY <1>10, <1>11, <2>1, FreeView
<1> HIDE DEF f
<1>14. /\ Base(s) /\ s.flags = a.flags /\ s \in Memory
       /\ s.alive => s.inq[Peer(c)] = u.inq[Peer(c)]
       /\ s = a \/ (~Intact(s) /\ \A y \in Conn : s.fd[y] => u.fd[y])
  BY <1>3, <1>7, <1>8, <1>9, <1>10, <1>12, <1>13 DEF Sound
<1>15. Flows(u, k, wrote, sent)
  <2>1. Flows(w, k, wrote, sent) /\ \A y \in Conn : k[y].rst = k[y].rst /\ k[y].rcv = k[y].rcv
    BY <1>3 DEF SInv
  <2> QED  BY <1>3, <2>1, FlowsSame
<1>16. Ran(s) /\ Sent(u, c, o, s)
  BY <1>1 DEF s
<1>17. \A y \in Conn : (w.fd[y] => u.fd[y]) /\ (u.fd[y] /\ ~w.fd[y] => y = Server)
  BY <1>3
<1>18. \A y \in Conn : /\ "SHUTRD" \in u.flags[y] <=> "SHUTRD" \in w.flags[y]
                       /\ "SHUTWR" \in u.flags[y] <=> "SHUTWR" \in w.flags[y]
  BY <1>3
<1> QED  BY <1>2, <1>3, <1>4, <1>5, <1>14, <1>15, <1>16, <1>17, <1>18, SentTask DEF a

\* The memory after session_fparse and session_forward.
Parsed(t, u, c) ==
  /\ t.inq[c] = <<>> /\ t.inq[Peer(c)] = u.inq[Peer(c)]
  /\ t.out[c] = u.out[c] /\ t.out[Peer(c)] = u.out[Peer(c)] \o u.inq[c]
  /\ t.task = u.task
  /\ \A x \in Conn : /\ "SHUTRD" \in t.flags[x] <=> "SHUTRD" \in u.flags[x]
                     /\ "SHUTWR" \in t.flags[x] <=> "SHUTWR" \in u.flags[x]
  /\ t.svrdata = u.svrdata \/ (~u.fd[Peer(c)] /\ t.svrdata)
  /\ t.fd = u.fd \/ (~u.fd[Peer(c)] /\ t.svrdata /\ t.fd = [u.fd EXCEPT ![Peer(c)] = TRUE])

LEMMA ParsedView ==
  ASSUME NEW u, Sound(u), u.alive, NEW c \in Conn, NEW f \in {"noserver", "fail", "wait", "now"}
  PROVE  LET t == session_forward(session_fparse(u, c), Peer(c), f)
         IN  Parsed(t, u, c) /\ (f \in {"wait", "now"} => t.fd[Peer(c)])
<1> DEFINE x == session_fparse(u, c)
           p == Peer(c)
           j == Joined(x, p)
           t == session_forward(x, p, f)
<1>1. p \in Conn
  BY PeerConn
<1>2. /\ j.inq[c] = <<>> /\ j.inq[p] = u.inq[p]
      /\ j.out[c] = u.out[c] /\ j.out[p] = u.out[p] \o u.inq[c]
      /\ j.task = u.task /\ j.flags = u.flags /\ j.svrdata = u.svrdata
      /\ j.fd = u.fd /\ x.fd = u.fd
  BY JoinView
<1>3. j \in Memory
  BY ParseSound DEF Sound
<1> HIDE DEF x
<1>4. Connects(j, p, t) /\ (f \in {"wait", "now"} => t.fd[p])
  <2>1. x.fd = Joined(x, p).fd
    BY <1>2
  <2> QED  BY <1>1, <1>3, <2>1, ForwardView
<1> HIDE DEF t, j, p
<1>5. Parsed(t, u, c)
  BY <1>2, <1>4, Zenon DEF Connects, Parsed, p
<1> QED  BY <1>4, <1>5 DEF t, x, p

\* Parsing moves what was read behind the output; no byte is lost.
LEMMA ParsedFlow ==
  ASSUME NEW z, NEW o \in Seq(Packet), NEW i \in Seq(Packet), NEW x, NEW g \in Nat, Flow(z, o, i, x, g)
  PROVE  Flow(z, o \o i, <<>>, x, g)
<1>1. PICK n, m, j \in 0..g :
        /\ z = Run(0, n)
        /\ Contig(Unsents(o), n, m) /\ Contig(Unsents(i), m, j)
        /\ x.rst \/ x.rcv = Run(j, g)
  BY Zenon DEF Flow
<1>2. n \in Nat /\ m \in Nat /\ j \in Nat
  OBVIOUS
<1>3. Unsents(o) \in Seq(Seq(Nat)) /\ Unsents(i) \in Seq(Seq(Nat))
  BY UnsentsType
<1>4. Contig(Unsents(o) \o Unsents(i), n, j)
  <2>1. \A a, b, c \in Nat : Contig(Unsents(o), a, b) /\ Contig(Unsents(i), b, c)
                               => Contig(Unsents(o) \o Unsents(i), a, c)
    BY <1>3, ContigJoin
  <2> QED  BY <1>1, <1>2, <2>1
<1>5. Contig(Unsents(o \o i), n, j)
  BY <1>4, UnsentsJoin
<1>6. Contig(Unsents(<<>>), j, j)
  <2>1. \A a \in Nat : Contig(<<>>, a, a)
    BY ContigNone
  <2> QED  BY <1>2, <2>1, UnsentsNone
<1> QED  BY <1>1, <1>5, <1>6, Zenon DEF Flow

LEMMA ParsedFlows ==
  ASSUME NEW u \in Memory, NEW c \in Conn, NEW t, Parsed(t, u, c),
         NEW kk, NEW zz, NEW gg \in [Conn -> Nat], Flows(u, kk, zz, gg)
  PROVE  Flows(t, kk, zz, gg)
<1> DEFINE p == Peer(c)
<1>1. p \in Conn /\ p # c /\ Peer(p) = c /\ Peer(c) = p /\ \A x \in Conn : x = c \/ x = p
  BY PeerConn, ConnIs
<1>2. u.out[p] \in Seq(Packet) /\ u.inq[c] \in Seq(Packet) /\ gg[c] \in Nat
  BY <1>1 DEF Memory
<1> HIDE DEF p
<1>3. /\ t.inq[c] = <<>> /\ t.inq[p] = u.inq[p]
      /\ t.out[c] = u.out[c] /\ t.out[p] = u.out[p] \o u.inq[c]
  BY <1>1 DEF Parsed
<1>4. Flow(zz[p], u.out[p], u.inq[c], kk[c], gg[c]) /\ Flow(zz[c], u.out[c], u.inq[p], kk[p], gg[p])
  BY <1>1 DEF Flows
<1>5. Flow(zz[p], u.out[p] \o u.inq[c], <<>>, kk[c], gg[c])
  BY <1>2, <1>4, ParsedFlow
<1> SUFFICES ASSUME NEW x \in Conn
             PROVE  Flow(zz[x], t.out[x], t.inq[Peer(x)], kk[Peer(x)], gg[Peer(x)])
  BY DEF Flows
<1>6. CASE x = c
  BY <1>1, <1>3, <1>4, <1>6
<1>7. CASE x = p
  BY <1>1, <1>3, <1>5, <1>7
<1> QED  BY <1>1, <1>6, <1>7

\* What a parse task has, after forwarding.
LEMMA ForwardFacts ==
  ASSUME IInv, SInv, NEW c \in Conn, Running(c, "PARSE"),
         NEW f \in {"noserver", "fail", "wait", "now"}
  PROVE  LET t == session_forward(session_fparse(Unlinked, c), Peer(c), f)
         IN  /\ Sound(t) /\ t.alive /\ ~task_in_queue(t, c)
             /\ w.alive /\ Intact(w) /\ Flows(t, k, wrote, sent)
             /\ t.fd[Server] => t.svrdata
             /\ c = Server => t.svrdata
             /\ t.fd[c] /\ (task_in_queue(t, Peer(c)) => t.fd[Peer(c)])
             /\ f \in {"wait", "now"} => t.fd[Peer(c)]
             /\ \A y \in Conn : /\ "SHUTRD" \in t.flags[y] <=> "SHUTRD" \in w.flags[y]
                                /\ "SHUTWR" \in t.flags[y] <=> "SHUTWR" \in w.flags[y]
             /\ \A y \in Conn : (w.fd[y] => t.fd[y]) /\ (t.fd[y] /\ ~w.fd[y] => y = Server)
             /\ t.inq[c] = <<>>
             /\ t.inq[Peer(c)] # <<>> => task_in_queue(t, Peer(c)) /\ t.task[Peer(c)] # "SEND"
<1> DEFINE u == Unlinked
           p == Peer(c)
           t == session_forward(session_fparse(u, c), Peer(c), f)
<1>1. /\ Sound(u) /\ u.alive /\ ~task_in_queue(u, c)
      /\ u.fd = w.fd /\ u.inq = w.inq /\ u.flags = w.flags /\ u.out = w.out
      /\ u.svrdata = w.svrdata /\ u.task = w.task
      /\ w.alive /\ w.fd[c] /\ (w.fd[Server] => w.svrdata) /\ (c = Server => w.svrdata)
      /\ task_in_queue(u, Peer(c)) => w.fd[Peer(c)]
      /\ Intact(w)
      /\ w.inq[Peer(c)] # <<>> => task_in_queue(u, Peer(c)) /\ w.task[Peer(c)] # "SEND"
  BY TaskFacts
<1>2. p \in Conn /\ p # c /\ Peer(c) = p /\ \A x \in Conn : x = c \/ x = p
  BY PeerConn, ConnIs
<1> HIDE DEF u, p
<1>3. Sound(t) /\ t.alive /\ t.taskq = u.taskq
  BY <1>1, ParsedSound
<1>4. Parsed(t, u, c) /\ (f \in {"wait", "now"} => t.fd[Peer(c)])
  BY <1>1, ParsedView
<1> HIDE DEF t
<1>5. /\ ~task_in_queue(t, c) /\ (task_in_queue(t, p) <=> task_in_queue(u, p))
  BY <1>1, <1>3 DEF task_in_queue
<1>6. /\ t.inq[c] = <<>> /\ t.inq[p] = w.inq[p] /\ t.task = w.task
      /\ \A x \in Conn : /\ "SHUTRD" \in t.flags[x] <=> "SHUTRD" \in w.flags[x]
                         /\ "SHUTWR" \in t.flags[x] <=> "SHUTWR" \in w.flags[x]
      /\ t.svrdata = w.svrdata \/ (~w.fd[p] /\ t.svrdata)
      /\ t.fd = w.fd \/ (~w.fd[p] /\ t.svrdata /\ t.fd = [w.fd EXCEPT ![p] = TRUE])
  BY <1>1, <1>2, <1>4 DEF Parsed
<1>7. w.fd \in [Conn -> BOOLEAN] /\ u \in Memory
  BY <1>1 DEF IInv, TypeOK, Memory, Sound
<1>8. w.fd[Client]
  BY <1>1 DEF Intact
<1>9. ~w.fd[p] => p = Server
  BY <1>2, <1>8, ConnIs
<1>10. \A y \in Conn : (w.fd[y] => t.fd[y]) /\ (t.fd[y] /\ ~w.fd[y] => y = Server)
  BY <1>2, <1>6, <1>7, <1>9
<1>11. (t.fd[Server] => t.svrdata) /\ (c = Server => t.svrdata)
  BY <1>1, <1>6
<1>12. t.fd[c] /\ (task_in_queue(t, p) => t.fd[p])
  BY <1>1, <1>2, <1>5, <1>10
<1>13. t.inq[p] # <<>> => task_in_queue(t, p) /\ t.task[p] # "SEND"
  BY <1>1, <1>2, <1>5, <1>6
<1>14. Flows(t, k, wrote, sent)
  <2>1. Flows(w, k, wrote, sent) /\ \A y \in Conn : k[y].rst = k[y].rst /\ k[y].rcv = k[y].rcv
    BY <1>1 DEF SInv
  <2>2. Flows(u, k, wrote, sent)
    BY <1>1, <2>1, FlowsSame
  <2>3. sent \in [Conn -> Nat]
    BY DEF IInv, TypeOK
  <2> QED  BY <1>4, <1>7, <2>2, <2>3, ParsedFlows
<1>15. f \in {"wait", "now"} => t.fd[p]
  BY <1>2, <1>4
<1> QED  BY <1>1, <1>2, <1>3, <1>5, <1>6, <1>10, <1>11, <1>12, <1>13, <1>14, <1>15 DEF t, u, p

\* What is left of the session after sending for c; deleting it twice is
\* deleting it once.
LEMMA SentForView ==
  ASSUME NEW t, Sound(t), t.alive, NEW c \in Conn, ~task_in_queue(t, c),
         \A x \in Conn : t.fd[x], t.svrdata, t.inq[c] = <<>>,
         t.inq[Peer(c)] # <<>> => task_in_queue(t, Peer(c)) /\ t.task[Peer(c)] # "SEND",
         NEW kc, NEW free \in Int, NEW o \in SendOutcome(t, Peer(c), kc, free)
  PROVE  LET a == conn_send_data(t, Peer(c), o)
             s == SentFor(t, c, o)
         IN  /\ s \in Memory /\ Base(s) /\ s.flags = a.flags
             /\ s.alive => s.inq[c] = <<>>
             /\ s = a \/ (~Intact(s) /\ \A y \in Conn : s.fd[y] => t.fd[y])
<1> DEFINE p == Peer(c)
           a == conn_send_data(t, p, o)
           d == session_free(a, c)
           b == IF o.end = "err" THEN d ELSE a
           e == session_free(b, c)
           s == SentFor(t, c, o)
<1>1. p \in Conn /\ p # c /\ Peer(c) = p /\ \A x \in Conn : x = c \/ x = p
  BY PeerConn, ConnIs
<1>2. s \in {b, e}
  BY DEF SentFor, ClosedCheck
<1>3. t \in Memory /\ o \in SendResult(t.out[p])
  BY DEF SendOutcome, Sound
<1>4. Keeps(t, a)
  BY <1>1, <1>3, SendKeeps
<1>18. o \in SendOutcome(t, p, kc, free)
  OBVIOUS
<1>5. a.svrdata = t.svrdata /\ a.inq = t.inq /\ a.task = t.task
  <2> HIDE DEF p
  <2>1. a.svrdata = t.svrdata
    BY <1>1, <1>3, <1>18, SendView
  <2>2. a.inq = t.inq
    BY <1>1, <1>3, <1>18, SendView
  <2>3. a.task = t.task
    BY <1>1, <1>3, <1>18, SendView
  <2> QED  BY <2>1, <2>2, <2>3
<1>6. Sound(s)
  BY <1>3, SentForSound
<1> HIDE DEF p, a, s
<1>7. Sound(a) /\ a.alive /\ a.fd = t.fd /\ a.taskq = t.taskq
  BY <1>4, KeepsSound DEF Keeps
<1>8. /\ ~task_in_queue(a, c) /\ (task_in_queue(a, p) <=> task_in_queue(t, p))
  BY <1>7 DEF task_in_queue
<1>9. Intact(a) /\ Base(a)
  <2>1. Intact(a)
    BY <1>5, <1>7, ConnIs DEF Intact
  <2>2. \A x \in Conn : a.inq[x] # <<>> => task_in_queue(a, x) /\ a.task[x] # "SEND"
    BY <1>1, <1>5, <1>8
  <2> QED  BY <1>5, <1>7, <2>1, <2>2 DEF Base
<1>10. /\ Base(d) /\ ~Intact(d) /\ d.flags = a.flags /\ d.svrdata = a.svrdata
       /\ (d.alive => d.inq[c] = <<>>)
  BY <1>5, <1>7, <1>8, <1>1, FreeView
<1>11. Sound(d) /\ d.taskq = a.taskq
  BY <1>7, <1>8, SessionFree
<1> HIDE DEF d
<1>12. /\ Sound(b) /\ Base(b) /\ b.flags = a.flags /\ b.svrdata /\ b.taskq = a.taskq
       /\ (b.alive => b.inq[c] = <<>>) /\ (b = a \/ ~Intact(b))
  BY <1>5, <1>7, <1>9, <1>10, <1>11
<1> HIDE DEF b
<1>13. ~task_in_queue(b, c) /\ (task_in_queue(b, Peer(c)) => b.fd[Peer(c)])
  <2>1. ~task_in_queue(b, c)
    BY <1>8, <1>12 DEF task_in_queue
  <2>2. task_in_queue(b, p) => b.fd[p]
    BY <1>1, <1>12 DEF Base
  <2> QED  BY <1>1, <2>1, <2>2
<1>14. /\ Base(e) /\ ~Intact(e) /\ e.flags = b.flags
       /\ (e.alive => e.inq[c] = <<>>)
  BY <1>12, <1>13, FreeView
<1> HIDE DEF e
<1>15. /\ Base(s) /\ s.flags = a.flags /\ (s.alive => s.inq[c] = <<>>) /\ (s = a \/ ~Intact(s))
  BY <1>2, <1>12, <1>14
<1>16. s \in Memory
  BY <1>6 DEF Sound
<1>17. s = a \/ (~Intact(s) /\ \A y \in Conn : s.fd[y] => t.fd[y])
  BY <1>15
<1> QED  BY <1>15, <1>16, <1>17 DEF a, s, p

LEMMA ParseStream ==
  ASSUME IInv, SInv, NEW c \in Conn, TaskParse(c)
  PROVE  StreamStep
<1> DEFINE p == Peer(c)
<1>1. Running(c, "PARSE")
  BY DEF TaskParse
<1>2. p \in Conn /\ Peer(p) = c /\ Peer(c) = p /\ \A x \in Conn : x = c \/ x = p
  BY PeerConn, ConnIs
<1>3. PICK f \in ForwardOutcome(w, p) :
        LET t == session_forward(session_fparse(Unlinked, c), p, f)
        IN  IF f \in {"noserver", "fail"} THEN Freed(session_free(t, c))
            ELSE \E o \in SendOutcome(t, p, Sockets(t, k)[p], SndBuf - sndq[p]) :
                   Ran(SentFor(t, c, o)) /\ Sent(t, p, o, SentFor(t, c, o))
  BY DEF TaskParse
<1>4. f \in {"noserver", "fail", "wait", "now"}
  BY DEF ForwardOutcome
<1> DEFINE t == session_forward(session_fparse(Unlinked, c), p, f)
<1>5. /\ Sound(t) /\ t.alive /\ ~task_in_queue(t, c)
      /\ w.alive /\ Intact(w) /\ Flows(t, k, wrote, sent)
      /\ t.fd[Server] => t.svrdata
      /\ c = Server => t.svrdata
      /\ t.fd[c] /\ (task_in_queue(t, Peer(c)) => t.fd[Peer(c)])
      /\ f \in {"wait", "now"} => t.fd[Peer(c)]
      /\ \A y \in Conn : /\ "SHUTRD" \in t.flags[y] <=> "SHUTRD" \in w.flags[y]
                         /\ "SHUTWR" \in t.flags[y] <=> "SHUTWR" \in w.flags[y]
      /\ \A y \in Conn : (w.fd[y] => t.fd[y]) /\ (t.fd[y] /\ ~w.fd[y] => y = Server)
      /\ t.inq[c] = <<>>
      /\ t.inq[Peer(c)] # <<>> => task_in_queue(t, Peer(c)) /\ t.task[Peer(c)] # "SEND"
  BY <1>1, <1>4, ForwardFacts
<1>6. t \in Memory
  BY <1>5 DEF Sound
<1> HIDE DEF t
<1>7. CASE f \in {"noserver", "fail"}
  <2> DEFINE s == session_free(t, c)
  <2>1. Freed(s)
    BY <1>3, <1>7 DEF t
  <2>2. /\ Base(s) /\ ~Intact(s) /\ s.flags = t.flags
        /\ \A x \in Conn : s.fd[x] => t.fd[x]
    BY <1>5, FreeView
  <2>3. s \in Memory
    BY <1>5, SessionFree DEF Sound
  <2> HIDE DEF s
  <2>4. \A x \in Conn : s.fd[x] /\ ~w.fd[x] => x = Server /\ Intact(w)
    BY <1>5, <2>2
  <2>5. \A x \in Conn : /\ "SHUTRD" \in s.flags[x] => "SHUTRD" \in w.flags[x]
                        /\ "SHUTWR" \in s.flags[x] <=> "SHUTWR" \in w.flags[x]
    BY <1>5, <2>2
  <2> QED  BY <1>1, <1>5, <2>1, <2>2, <2>3, <2>4, <2>5, FreedStream
<1>8. CASE f \notin {"noserver", "fail"}
  <2> DEFINE kc == Sockets(t, k)[p]
             free == SndBuf - sndq[p]
  <2>1. PICK o \in SendOutcome(t, p, kc, free) :
          Ran(SentFor(t, c, o)) /\ Sent(t, p, o, SentFor(t, c, o))
    BY <1>3, <1>8 DEF t
  <2>2. free \in Int
    BY <1>2, SessionAssumption DEF IInv, TypeOK
  <2> HIDE DEF kc, free, p
  <2>3. \A x \in Conn : t.fd[x]
    BY <1>2, <1>4, <1>5, <1>8
  <2>4. t.svrdata
    BY <1>5, <2>3, ConnIs
  <2> DEFINE s == SentFor(t, c, o)
             a == conn_send_data(t, p, o)
  <2>5. /\ s \in Memory /\ Base(s) /\ s.flags = a.flags
        /\ s.alive => s.inq[c] = <<>>
        /\ s = a \/ (~Intact(s) /\ \A y \in Conn : s.fd[y] => t.fd[y])
    <3>1. o \in SendOutcome(t, Peer(c), kc, free) /\ a = conn_send_data(t, Peer(c), o)
      BY <1>2, <2>1
    <3> QED  BY <1>5, <2>2, <2>3, <2>4, <3>1, SentForView
  <2>6. Ran(s) /\ Sent(t, p, o, s)
    BY <2>1
  <2> HIDE DEF s
  <2>7. s.alive => s.inq[Peer(p)] = t.inq[Peer(p)]
    BY <1>2, <1>5, <2>5
  <2> QED  BY <1>1, <1>2, <1>5, <1>6, <2>1, <2>2, <2>5, <2>6, <2>7, SentTask
<1> QED  BY <1>7, <1>8

LEMMA InitStream ==
  ASSUME Init
  PROVE  SInv /\ R!RelayInit
<1>1. /\ w = NoSession /\ k = [c \in Conn |-> NoSock] /\ batch = <<>> /\ hung = {}
      /\ sent = [c \in Conn |-> 0] /\ wrote = [c \in Conn |-> <<>>] /\ phase = "flush"
  BY DEF Init
<1>2. /\ w.alive = FALSE /\ w.fd = [c \in Conn |-> FALSE] /\ w.svrdata = FALSE /\ w.taskq = <<>>
      /\ w.flags = [c \in Conn |-> {}]
  BY <1>1 DEF NoSession, Slot
<1>3. ~Intact(w) /\ Base(w)
  BY <1>2, ConnIs DEF Intact, Base, task_in_queue
<1>4. Net(w, k, hung)
  BY <1>1, <1>2, <1>3 DEF Net, Agrees, NoSock
<1>5. Poll
  BY <1>1, <1>2 DEF Poll
<1>6. Wrote(wrote, sent)
  <2>1. wrote \in [Conn -> Seq(Nat)]
    BY <1>1
  <2>2. ASSUME NEW c \in Conn PROVE Lead(wrote[c], sent[Peer(c)])
    <3>1. 0 \in Nat /\ 0 \in 0..0 /\ Peer(c) \in Conn
      BY PeerConn
    <3>2. Run(0, 0) = <<>>
      BY <3>1, RunNone
    <3>3. Lead(<<>>, 0)
      BY <3>1, <3>2 DEF Lead
    <3> QED  BY <1>1, <3>1, <3>3
  <2> QED  BY <2>1, <2>2 DEF Wrote
<1>7. SInv
  BY <1>3, <1>4, <1>5, <1>6 DEF SInv
<1>8. R!RelayInit
  BY <1>1, <1>2 DEF R!RelayInit
<1> QED  BY <1>7, <1>8

\* Each step keeps the streams, is a step of the relay or changes none of its
\* variables, and shuts down no write side before its data.
LEMMA NextStream ==
  ASSUME IInv, SInv, [Next]_vars
  PROVE  SInv' /\ [R!RelayNext]_(R!rvars) /\ [ShutOK]_vars
<1>1. ASSUME Next PROVE StreamStep
  <2>1. ASSUME NEW c \in Conn,
               \/ RecvCallback(c) \/ SendCallback(c) \/ HandshakeCallback(c) \/ ShutdownCallback(c)
               \/ TaskDelete(c) \/ TaskParse(c) \/ TaskSend(c)
        PROVE  StreamStep
    BY <2>1, RecvStream, SendCallbackStream, HandshakeStream, ShutdownStream, DeleteStream,
       ParseStream, TaskSendStream
  <2>2. ASSUME NEW c \in Conn, \/ RemoteSend(c) \/ RemoteFin(c) \/ RemoteRead(c)
                               \/ RemoteReset(c) \/ RemoteConnect(c)
        PROVE  StreamStep
    BY <2>2, SendStream, FinStream, ReadStream, ResetStream, ConnectStream
  <2> QED  BY <1>1, <2>1, <2>2, FlushStream, WaitStream, AcceptStream
           DEF Next, Worker, Environment
<1>2. ASSUME UNCHANGED vars PROVE StreamStep
  <2>1. UNCHANGED <<w, k, phase, batch, sent, hung, wrote>>
    BY <1>2 DEF vars
  <2>2. Poll'
    BY <2>1 DEF SInv, Poll, Intact
  <2> QED  BY <2>1, <2>2, NetUnchanged, QuietStream
<1> QED  BY <1>1, <1>2 DEF StreamStep

\* The invariant of the two byte streams: in a session none of whose sockets
\* was closed yet, what the kernel took on a connection, what waits in its
\* output, what was read from the peer and waits to be parsed and what waits in
\* the peer's socket are, in this order, exactly the bytes the peer's program
\* sent; a session that lost a socket only waits for the task that deletes it.
THEOREM StreamsCorrect == Spec => []SInv
<1>1. Init => SInv
  BY InitStream
<1>2. IInv /\ SInv /\ [Next]_vars => SInv'
  BY NextStream
<1> QED  BY <1>1, <1>2, SessionInv, PTL DEF Spec

\* Session implements Relay: each program gets the bytes the other sent, in
\* order, without a gap and none twice; the end of a stream is passed on (with
\* SHUTWR) only after the program that sends it hung up, and nothing is written
\* after it, whatever conn_recv_data, conn_send_data, session_run_task and the
\* deletions do in between.
THEOREM RelayRefined == Spec => ImplementsRelay
<1>1. Init => R!RelayInit
  BY InitStream
<1>2. IInv /\ SInv /\ [Next]_vars => [R!RelayNext]_(R!rvars)
  BY NextStream
<1> QED  BY <1>1, <1>2, SessionInv, StreamsCorrect, PTL DEF Spec, ImplementsRelay, R!RelaySpec

\* conn_send_data shuts the write side of a connection down only when all that
\* was read and parsed from the peer has been handed to the kernel.
THEOREM ShutdownAfterDataCorrect == Spec => ShutdownAfterData
<1>1. IInv /\ SInv /\ [Next]_vars =>
        [\A c \in Conn :
           LET p == Peer(c)
           IN  (/\ w'.alive /\ ~k[p].rst
                /\ "SHUTWR" \in w'.flags[c] \ w.flags[c]) =>
                 Len(wrote'[c]) + Len(UnsentOf(w'.inq[p], Len(w'.inq[p])))
                   = sent[p] - Len(k[p].rcv)]_vars
  BY NextStream DEF ShutOK
<1> QED  BY <1>1, SessionInv, StreamsCorrect, PTL DEF Spec, ShutdownAfterData

-----------------------------------------------------------------------------
(* The references of a session, and how both sides of it close.            *)

\* c is a TCP connection without SSL that is not being connected.
Plain(s, c) == s.ssl[c] = "NULL" /\ "HSK" \notin s.flags[c]

\* A server that is not chosen, or not connected yet, sent the client nothing.
Mute(s) ==
  /\ "HSK" \notin s.flags[Client]
  /\ ~s.svrdata \/ "HSK" \in s.flags[Server] =>
       /\ s.out[Client] = <<>> /\ "BLOCKED" \notin s.flags[Client]
       /\ "SHUTWR" \notin s.flags[Server]
  /\ "HSK" \in s.flags[Server] =>
       s.svrdata /\ s.inq[Server] = <<>> /\ s.cb[Server] = "handshake"

\* A write side is shut down after the peer's read side; nothing is read from a
\* connection without SSL while its peer waits to send.
Ends(s) ==
  \A c \in Conn :
    /\ "SHUTWR" \in s.flags[c] => "SHUTRD" \in s.flags[Peer(c)] /\ Plain(s, c)
    /\ s.cb[Peer(c)] = "send" /\ Plain(s, c) => s.cb[c] = "NULL"

Orderly(s) == Mute(s) /\ Ends(s)

Refs(s) ==
  /\ s.plref = IF s.alive THEN 1 ELSE 0
  /\ s.svrref = IF s.alive /\ s.svrdata THEN 1 ELSE 0

\* From s to t an operation on c marked c, and left its peer alone.
Marks(s, c, t) ==
  /\ t.plref = s.plref /\ t.svrref = s.svrref
  /\ LET p == Peer(c)
     IN  /\ t.cb[p] = s.cb[p] /\ t.ev[p] = s.ev[p]
         /\ t.flags[p] = s.flags[p] /\ t.ssl[p] = s.ssl[p]
  /\ "BLOCKED" \in t.flags[c] <=> "BLOCKED" \in s.flags[c]
  /\ "SHUTWR" \in t.flags[c] <=> "SHUTWR" \in s.flags[c]
  /\ "SHUTRD" \in s.flags[c] => "SHUTRD" \in t.flags[c]
  /\ "HSK" \in t.flags[c] => "HSK" \in s.flags[c]

\* Marks, and c uses SSL and is being connected as before.
Stays(s, c, t) ==
  Marks(s, c, t) /\ t.ssl = s.ssl /\ ("HSK" \in s.flags[c] => "HSK" \in t.flags[c])

LEMMA StaysTrans ==
  ASSUME NEW s, NEW t, NEW u, NEW c, Stays(s, c, t), Stays(t, c, u)
  PROVE  Stays(s, c, u)
  BY DEF Stays, Marks

LEMMA StaysMarks ==
  ASSUME NEW s, NEW t, NEW u, NEW c, Marks(s, c, t), Stays(t, c, u)
  PROVE  Marks(s, c, u)
  BY DEF Stays, Marks

LEMMA StaysSelf ==
  ASSUME NEW s, NEW c
  PROVE  Stays(s, c, s)
  BY DEF Stays, Marks

LEMMA StaysEvent ==
  ASSUME NEW s \in Memory, NEW c \in Conn, NEW e, NEW cb
  PROVE  Stays(s, c, AddEvent(s, c, e, cb)) /\ AddEvent(s, c, e, cb).cb[c] = cb
<1> DEFINE t == AddEvent(s, c, e, cb)
<1>1. /\ t.ev[c] = e /\ t.cb[c] = cb /\ t.flags = s.flags
      /\ \A d \in Conn \ {c} : t.ev[d] = s.ev[d] /\ t.cb[d] = s.cb[d]
  BY AddEventFields
<1>2. t.ssl = s.ssl /\ t.plref = s.plref /\ t.svrref = s.svrref
  BY DEF AddEvent, Memory
<1>3. Peer(c) \in Conn \ {c}
  BY PeerConn
<1> HIDE DEF t
<1>4. Stays(s, c, t)
  BY <1>1, <1>2, <1>3 DEF Stays, Marks
<1> QED  BY <1>1, <1>4 DEF t

\* Flags that say nothing of the ends, of blocking or of connecting.
LEMMA FlagsMark ==
  ASSUME NEW s \in Memory, NEW c \in Conn, NEW f,
         "BLOCKED" \in f <=> "BLOCKED" \in s.flags[c],
         "SHUTWR" \in f <=> "SHUTWR" \in s.flags[c],
         "SHUTRD" \in s.flags[c] => "SHUTRD" \in f,
         "HSK" \in f => "HSK" \in s.flags[c]
  PROVE  LET t == [s EXCEPT !.flags[c] = f]
         IN  /\ Marks(s, c, t) /\ t.ssl = s.ssl /\ t.cb = s.cb
             /\ ("HSK" \in s.flags[c] => "HSK" \in f) => Stays(s, c, t)
<1> DEFINE t == [s EXCEPT !.flags[c] = f]
<1>1. t.flags[c] = f /\ \A x \in Conn \ {c} : t.flags[x] = s.flags[x]
  BY FlagFields
<1>2. /\ t.ssl = s.ssl /\ t.plref = s.plref /\ t.svrref = s.svrref
      /\ t.cb = s.cb /\ t.ev = s.ev
  BY DEF Memory
<1>3. Peer(c) \in Conn \ {c}
  BY PeerConn
<1> HIDE DEF t
<1>4. Marks(s, c, t)
  BY <1>1, <1>2, <1>3 DEF Marks
<1> QED  BY <1>1, <1>2, <1>4 DEF t, Stays

LEMMA StaysRaise ==
  ASSUME NEW s \in Memory, NEW c \in Conn, NEW f \in {"ERROR", "SHUTRD", "SSLSHUT"}
  PROVE  Stays(s, c, Raise(s, c, f)) /\ Raise(s, c, f).cb = s.cb
<1> DEFINE F == s.flags[c] \union {f}
<1>1. /\ "BLOCKED" \in F <=> "BLOCKED" \in s.flags[c]
      /\ "SHUTWR" \in F <=> "SHUTWR" \in s.flags[c]
      /\ "SHUTRD" \in s.flags[c] => "SHUTRD" \in F
      /\ "HSK" \in F <=> "HSK" \in s.flags[c]
  OBVIOUS
<1>2. Raise(s, c, f) = [s EXCEPT !.flags[c] = F]
  BY DEF Raise
<1> HIDE DEF F
<1> QED  BY <1>1, <1>2, FlagsMark

LEMMA StaysTask ==
  ASSUME NEW s \in Memory, NEW c \in Conn, NEW d \in Conn, NEW v
  PROVE  /\ Stays(s, c, AddTask(s, d, v)) /\ AddTask(s, d, v).cb = s.cb
         /\ Stays(s, c, AddTaskAlways(s, d, v)) /\ AddTaskAlways(s, d, v).cb = s.cb
<1>1. LET t == AddTask(s, d, v)
      IN  /\ t.ssl = s.ssl /\ t.plref = s.plref /\ t.svrref = s.svrref
          /\ t.cb = s.cb /\ t.ev = s.ev /\ t.flags = s.flags
  BY DEF AddTask, Memory
<1>2. LET t == AddTaskAlways(s, d, v)
      IN  /\ t.ssl = s.ssl /\ t.plref = s.plref /\ t.svrref = s.svrref
          /\ t.cb = s.cb /\ t.ev = s.ev /\ t.flags = s.flags
  BY DEF AddTaskAlways, Memory
<1>3. \A t : /\ t.ssl = s.ssl /\ t.plref = s.plref /\ t.svrref = s.svrref
             /\ t.cb = s.cb /\ t.ev = s.ev /\ t.flags = s.flags
             => Stays(s, c, t)
  BY DEF Stays, Marks
<1> QED  BY <1>1, <1>2, <1>3

LEMMA StaysReceived ==
  ASSUME NEW s \in Memory, NEW c \in Conn, NEW r
  PROVE  /\ Stays(s, c, Received(s, c, r)) /\ Received(s, c, r).cb = s.cb
         /\ Stays(s, c, DropEmpty(s, c)) /\ DropEmpty(s, c).cb = s.cb
<1>1. LET t == Received(s, c, r)
      IN  /\ t.ssl = s.ssl /\ t.plref = s.plref /\ t.svrref = s.svrref
          /\ t.cb = s.cb /\ t.ev = s.ev /\ t.flags = s.flags
  BY DEF Received, Memory
<1>2. LET t == DropEmpty(s, c)
      IN  /\ t.ssl = s.ssl /\ t.plref = s.plref /\ t.svrref = s.svrref
          /\ t.cb = s.cb /\ t.ev = s.ev /\ t.flags = s.flags
  BY DEF DropEmpty, Memory
<1>3. \A t : /\ t.ssl = s.ssl /\ t.plref = s.plref /\ t.svrref = s.svrref
             /\ t.cb = s.cb /\ t.ev = s.ev /\ t.flags = s.flags
             => Stays(s, c, t)
  BY DEF Stays, Marks
<1> QED  BY <1>1, <1>2, <1>3

\* Reading marks the end of the stream, and stops reading then.
LEMMA RecvMarks ==
  ASSUME NEW s \in Memory, NEW kc \in Socket, NEW c \in Conn, NEW mask,
         NEW r \in RecvOutcome(s, kc, c)
  PROVE  LET t == conn_recv_data(s, c, mask, r)
         IN  Stays(s, c, t) /\ t.cb[c] \in {s.cb[c], "shutdown", "NULL"}
<1> DEFINE s1 == Received(s, c, r)
           s2 == Raise(s1, c, "SHUTRD")
           s4 == Raise(s2, c, "SSLSHUT")
           x4 == AddEvent(s4, c, FD_OUT, "shutdown")
           x2 == AddEvent(s2, c, {}, "NULL")
           s3 == IF s.ssl[c] # "NULL" THEN x4 ELSE x2
           s5 == IF r.closed \/ "RDHUP" \in mask THEN DropEmpty(s3, c) ELSE s1
           e0 == Raise(s, c, "ERROR")
           e1 == Raise(s1, c, "ERROR")
           C  == {s.cb[c], "shutdown", "NULL"}
<1>1. conn_recv_data(s, c, mask, r) \in
        {AddTask(e0, c, "DELETE"), AddTask(s, c, "DELETE"),
         AddTask(e1, c, "DELETE"), AddTask(s5, c, "PARSE")}
  BY Zenon DEF conn_recv_data
<1>2. Stays(s, c, s1) /\ s1.cb = s.cb /\ s1 \in Memory /\ Stays(s, c, s)
  BY StaysReceived, StaysSelf, ReceivedKeeps DEF Keeps
<1> HIDE DEF s1
<1>3. /\ Stays(s, c, e0) /\ Stays(s1, c, e1) /\ Stays(s1, c, s2)
      /\ e0.cb = s.cb /\ e1.cb = s1.cb /\ s2.cb = s1.cb
      /\ s2 \in Memory /\ e0 \in Memory /\ e1 \in Memory
  BY <1>2, StaysRaise, RaiseClearKeeps, HandlerConstants DEF Keeps
<1> HIDE DEF s2, e0, e1
<1>4. Stays(s2, c, s4) /\ s4 \in Memory
  BY <1>3, StaysRaise, RaiseClearKeeps, HandlerConstants DEF Keeps
<1> HIDE DEF s4
<1>5. Stays(s, c, s2) /\ Stays(s, c, s4) /\ Stays(s, c, e1)
  BY <1>2, <1>3, <1>4, StaysTrans
<1>6. /\ Stays(s4, c, x4) /\ Stays(s2, c, x2) /\ x4 \in Memory /\ x2 \in Memory
      /\ x4.cb[c] = "shutdown" /\ x2.cb[c] = "NULL"
  <2>1. /\ Stays(s4, c, x4) /\ Stays(s2, c, x2)
        /\ x4.cb[c] = "shutdown" /\ x2.cb[c] = "NULL"
    BY <1>3, <1>4, StaysEvent
  <2>2. Keeps(s4, x4) /\ Keeps(s2, x2)
    BY <1>3, <1>4, AddEventKeeps, HandlerConstants
  <2> QED  BY <2>1, <2>2 DEF Keeps
<1> HIDE DEF x4, x2
<1>7. Stays(s, c, s3) /\ s3 \in Memory /\ s3.cb[c] \in C
  <2>1. Stays(s, c, x4) /\ Stays(s, c, x2)
    BY <1>5, <1>6, StaysTrans
  <2> QED  BY <1>6, <2>1
<1> HIDE DEF s3
<1>8. Stays(s, c, s5) /\ s5 \in Memory /\ s5.cb[c] \in C
  <2>1. /\ Stays(s3, c, DropEmpty(s3, c)) /\ DropEmpty(s3, c) \in Memory
        /\ DropEmpty(s3, c).cb = s3.cb
    BY <1>7, StaysReceived, DropEmptyKeeps DEF Keeps
  <2>2. Stays(s, c, DropEmpty(s3, c))
    BY <1>7, <2>1, StaysTrans
  <2> QED  BY <1>2, <1>7, <2>1, <2>2
<1> HIDE DEF s5
<1>9. ASSUME NEW t \in Memory, NEW v, Stays(s, c, t), t.cb[c] \in C
      PROVE  Stays(s, c, AddTask(t, c, v)) /\ AddTask(t, c, v).cb[c] \in C
  BY <1>9, StaysTask, StaysTrans
<1>10. s.cb[c] \in C /\ e0.cb[c] \in C /\ e1.cb[c] \in C
  BY <1>2, <1>3
<1> HIDE DEF C
<1>11. LET t == conn_recv_data(s, c, mask, r) IN Stays(s, c, t) /\ t.cb[c] \in C
  BY <1>1, <1>2, <1>3, <1>5, <1>8, <1>9, <1>10, Zenon
<1> QED  BY <1>11 DEF C

LEMMA StaysRearm ==
  ASSUME NEW s \in Memory, NEW c \in Conn, NEW mask, NEW wait
  PROVE  LET t == Rearm(s, c, mask, wait, "handshake")
         IN  Stays(s, c, t) /\ t.cb[c] \in {s.cb[c], "handshake"}
<1> DEFINE a == AddEvent(s, c, FD_IN, "handshake")
           b == AddEvent(s, c, FD_OUT, "handshake")
<1>1. Rearm(s, c, mask, wait, "handshake") \in {s, a, b}
  BY DEF Rearm
<1>2. /\ Stays(s, c, a) /\ a.cb[c] = "handshake"
      /\ Stays(s, c, b) /\ b.cb[c] = "handshake" /\ Stays(s, c, s)
  BY StaysEvent, StaysSelf
<1> HIDE DEF a, b
<1> QED  BY <1>1, <1>2

\* A handshake goes on, ends, or has the session deleted.
LEMMA HandshakeMarks ==
  ASSUME NEW s \in Memory, NEW c \in Conn, NEW mask, NEW kc, NEW h
  PROVE  LET t == conn_handshake(s, c, mask, kc, h)
         IN  /\ Marks(s, c, t) /\ t.ssl = s.ssl
             /\ t.cb[c] \in {s.cb[c], "recv", "handshake"}
             /\ "HSK" \in t.flags[c] => t.cb[c] = s.cb[c]
<1> DEFINE F  == (s.flags[c] \ {"HSK"})
                   \union (IF s.ssl[c] # "NULL" THEN {"SSLHSK"} ELSE {})
           f1 == [s EXCEPT !.flags[c] = F]
           s1 == IF "HSK" \in s.flags[c] THEN f1 ELSE s
           G  == s1.flags[c] \ {"SSLHSK"}
           s2 == Clear(s1, c, "SSLHSK")
           e0 == Raise(s, c, "ERROR")
           r1 == AddEvent(s1, c, FD_IN, "recv")
           r2 == AddEvent(s2, c, FD_IN, "recv")
           w1 == Rearm(s1, c, mask, h, "handshake")
           OK(t) == /\ Marks(s, c, t) /\ t.ssl = s.ssl
                    /\ t.cb[c] \in {s.cb[c], "recv", "handshake"}
                    /\ "HSK" \in t.flags[c] => t.cb[c] = s.cb[c]
<1>1. conn_handshake(s, c, mask, kc, h) \in
        {AddTask(s, c, "DELETE"), AddTask(e0, c, "DELETE"), AddTask(s1, c, "DELETE"),
         AddTask(r1, c, "SEND"), AddTask(r2, c, "SEND"), w1}
  BY DEF conn_handshake
<1>2. /\ F \in SUBSET Flag /\ "HSK" \notin F
      /\ "BLOCKED" \in F <=> "BLOCKED" \in s.flags[c]
      /\ "SHUTWR" \in F <=> "SHUTWR" \in s.flags[c]
      /\ "SHUTRD" \in s.flags[c] => "SHUTRD" \in F
  BY DEF Memory, Flag
<1> HIDE DEF F
<1>3. /\ Marks(s, c, f1) /\ f1.ssl = s.ssl /\ f1.cb = s.cb /\ f1 \in Memory
      /\ f1.flags[c] = F
  BY <1>2, FlagsMark, SetFlags, FlagFields
<1>4. /\ Marks(s, c, s1) /\ s1.ssl = s.ssl /\ s1.cb = s.cb /\ s1 \in Memory
      /\ "HSK" \notin s1.flags[c]
  <2>1. Marks(s, c, s)
    BY DEF Marks
  <2> HIDE DEF f1
  <2> QED  BY <1>2, <1>3, <2>1
<1> HIDE DEF s1
<1>5. /\ Stays(s1, c, s2) /\ s2.cb = s1.cb /\ s2 \in Memory
      /\ Stays(s, c, e0) /\ e0.cb = s.cb /\ e0 \in Memory
  <2>1. /\ "BLOCKED" \in G <=> "BLOCKED" \in s1.flags[c]
        /\ "SHUTWR" \in G <=> "SHUTWR" \in s1.flags[c]
        /\ "SHUTRD" \in s1.flags[c] => "SHUTRD" \in G
        /\ "HSK" \in G <=> "HSK" \in s1.flags[c]
    OBVIOUS
  <2>2. s2 = [s1 EXCEPT !.flags[c] = G]
    BY DEF Clear
  <2>3. s2 \in Memory /\ e0 \in Memory
    BY <1>4, RaiseClearKeeps, HandlerConstants DEF Keeps
  <2> HIDE DEF G, s2
  <2>4. Stays(s1, c, s2) /\ s2.cb = s1.cb
    BY <1>4, <2>1, <2>2, FlagsMark
  <2> QED  BY <2>3, <2>4, StaysRaise
<1> HIDE DEF s2, e0
<1>6. /\ Stays(s1, c, r1) /\ r1.cb[c] = "recv" /\ Stays(s2, c, r2) /\ r2.cb[c] = "recv"
      /\ Stays(s1, c, w1) /\ w1.cb[c] \in {s1.cb[c], "handshake"}
      /\ r1 \in Memory /\ r2 \in Memory
  BY <1>4, <1>5, StaysEvent, StaysRearm, AddEventKeeps, HandlerConstants DEF Keeps
<1> HIDE DEF r1, r2, w1
<1>7. ASSUME NEW t, Stays(s1, c, t), t.cb[c] \in {s1.cb[c], "recv", "handshake"}
      PROVE  OK(t)
  <2>1. Marks(s, c, t)
    BY <1>4, <1>7, StaysMarks
  <2> QED  BY <1>4, <1>7, <2>1 DEF Stays, Marks
<1>8. OK(r1) /\ OK(r2) /\ OK(w1) /\ OK(s1)
  <2>1. Stays(s1, c, r2) /\ Stays(s1, c, s1)
    BY <1>5, <1>6, StaysTrans, StaysSelf
  <2> QED  BY <1>6, <1>7, <2>1
<1>9. ASSUME NEW t, Stays(s, c, t), t.cb = s.cb
      PROVE  OK(t)
  BY <1>9 DEF Stays
<1>10. OK(e0) /\ OK(s)
  BY <1>5, <1>9, StaysSelf
<1>11. ASSUME NEW t \in Memory, NEW v, OK(t)
       PROVE  OK(AddTask(t, c, v))
  <2>1. Stays(t, c, AddTask(t, c, v)) /\ AddTask(t, c, v).cb = t.cb
    BY StaysTask
  <2> DEFINE u == AddTask(t, c, v)
  <2> HIDE DEF u
  <2>2. Marks(s, c, u)
    BY <1>11, <2>1, StaysMarks DEF u
  <2>3. OK(u)
    BY <1>11, <2>1, <2>2 DEF Stays, Marks, u
  <2> QED  BY <2>3 DEF u
<1> HIDE DEF OK
<1>12. OK(conn_handshake(s, c, mask, kc, h))
  BY <1>1, <1>4, <1>5, <1>6, <1>8, <1>10, <1>11, Zenon
<1> QED  BY <1>12 DEF OK

\* Only the end of the SSL shutdown takes the SSL object away.
LEMMA ShutdownMarks ==
  ASSUME NEW s \in Memory, NEW c \in Conn, NEW mask, NEW z
  PROVE  LET t == conn_shutdown(s, c, mask, z)
         IN  /\ Marks(s, c, t) /\ t.cb[c] \in {s.cb[c], "NULL", "handshake"}
             /\ "HSK" \in s.flags[c] => "HSK" \in t.flags[c]
             /\ \/ t.ssl = s.ssl
                \/ t.ssl[c] = "NULL" /\ t.cb[c] = "NULL" /\ t.taskq = s.taskq
<1> DEFINE a == AddEvent(s, c, {}, "NULL")
           t == [a EXCEPT !.ssl[c] = "NULL", !.nssl = @ - 1]
           v == Rearm(s, c, mask, z, "handshake")
           u == AddTask(s, c, "DELETE")
<1>1. /\ Stays(s, c, a) /\ a.cb[c] = "NULL" /\ Stays(s, c, v)
      /\ v.cb[c] \in {s.cb[c], "handshake"} /\ a \in Memory /\ a.taskq = s.taskq
  BY StaysEvent, StaysRearm, AddEventKeeps, HandlerConstants DEF Keeps
<1>2. Stays(s, c, u) /\ u.cb = s.cb
  BY StaysTask
<1>3. conn_shutdown(s, c, mask, z) \in {u, a, t, v}
  BY Zenon DEF conn_shutdown
<1> HIDE DEF a
<1>4. /\ t.ev = a.ev /\ t.cb = a.cb /\ t.flags = a.flags /\ t.plref = a.plref
      /\ t.svrref = a.svrref /\ t.taskq = a.taskq /\ t.ssl = [a.ssl EXCEPT ![c] = "NULL"]
  BY <1>1 DEF Memory
<1>5. a.ssl \in [Conn -> {"NULL", "nofd", "fd"}] /\ Peer(c) \in Conn /\ Peer(c) # c
  BY <1>1, PeerConn DEF Memory
<1> HIDE DEF t, v, u
<1>6. t.ssl[c] = "NULL" /\ t.ssl[Peer(c)] = a.ssl[Peer(c)]
  BY <1>4, <1>5
<1>7. Marks(s, c, t) /\ ("HSK" \in s.flags[c] => "HSK" \in t.flags[c])
  BY <1>1, <1>4, <1>6 DEF Stays, Marks
<1> QED  BY <1>1, <1>2, <1>3, <1>4, <1>6, <1>7 DEF Stays

\* A callback of c, other than for sending, keeps both sides orderly; what its
\* peer waits for, c has no task for.
LEMMA CallbackOrderly ==
  ASSUME NEW s, NEW t, NEW c \in Conn, Orderly(s), Armed(s), Marks(s, c, t),
         t.svrdata = s.svrdata, t.out = s.out, t.inq[Peer(c)] = s.inq[Peer(c)],
         s.cb[c] \notin {"send", "NULL"}, t.cb[c] # "send",
         "HSK" \in t.flags[c] => t.cb[c] = s.cb[c] /\ t.inq[c] = s.inq[c],
         Plain(s, c) => Plain(t, c),
         Plain(t, c) => \/ Plain(s, c) \/ "HSK" \in s.flags[c]
                        \/ (t.cb[c] = "NULL" /\ t.taskq = s.taskq)
  PROVE  Orderly(t) /\ (t.cb[Peer(c)] = "send" /\ Plain(t, c) => t.taskq = s.taskq)
<1> DEFINE p == Peer(c)
<1>1. /\ p \in Conn /\ p # c /\ Peer(p) = c /\ Peer(c) = p /\ \A x \in Conn : x = c \/ x = p
  BY PeerConn, ConnIs
<1> HIDE DEF p
<1>2. Client \in Conn /\ Server \in Conn /\ Client # Server
  BY DEF Conn, Client, Server
<1>3. /\ t.cb[p] = s.cb[p] /\ t.flags[p] = s.flags[p] /\ t.ssl[p] = s.ssl[p]
      /\ "BLOCKED" \in t.flags[c] <=> "BLOCKED" \in s.flags[c]
      /\ "SHUTWR" \in t.flags[c] <=> "SHUTWR" \in s.flags[c]
      /\ "SHUTRD" \in s.flags[c] => "SHUTRD" \in t.flags[c]
      /\ "HSK" \in t.flags[c] => "HSK" \in s.flags[c]
  BY <1>1 DEF Marks
<1>4. Mute(t)
  <2>1. CASE c = Client
    <3>1. p = Server
      BY <1>1, <1>2, <2>1
    <3> QED  BY <1>1, <1>3, <2>1, <3>1 DEF Orderly, Mute
  <2>2. CASE c = Server
    <3>1. p = Client
      BY <1>1, <1>2, <2>2
    <3> QED  BY <1>1, <1>3, <2>2, <3>1 DEF Orderly, Mute
  <2> QED  BY <2>1, <2>2, ConnIs
<1>5. s.cb[p] = "send" /\ Plain(t, c) => t.cb[c] = "NULL" /\ t.taskq = s.taskq
  <2> SUFFICES ASSUME s.cb[p] = "send", Plain(t, c)
               PROVE  t.cb[c] = "NULL" /\ t.taskq = s.taskq
    OBVIOUS
  <2>1. ~Plain(s, c)
    BY <1>1 DEF Orderly, Ends
  <2>2. "BLOCKED" \in s.flags[p]
    BY <1>1 DEF Armed
  <2>3. "HSK" \notin s.flags[c]
    <3>1. CASE c = Client
      BY <3>1 DEF Orderly, Mute
    <3>2. CASE c = Server
      <4>1. p = Client
        BY <1>1, <1>2, <3>2
      <4> QED  BY <2>2, <3>2, <4>1 DEF Orderly, Mute
    <3> QED  BY <3>1, <3>2, ConnIs
  <2> QED  BY <2>1, <2>3
<1>6. Plain(t, p) <=> Plain(s, p)
  BY <1>3 DEF Plain
<1>7. Ends(t)
  <2> SUFFICES ASSUME NEW x \in Conn
               PROVE  /\ "SHUTWR" \in t.flags[x] => "SHUTRD" \in t.flags[Peer(x)] /\ Plain(t, x)
                      /\ t.cb[Peer(x)] = "send" /\ Plain(t, x) => t.cb[x] = "NULL"
    BY DEF Ends
  <2>1. /\ "SHUTWR" \in s.flags[x] => "SHUTRD" \in s.flags[Peer(x)] /\ Plain(s, x)
        /\ s.cb[Peer(x)] = "send" /\ Plain(s, x) => s.cb[x] = "NULL"
    BY DEF Orderly, Ends
  <2>2. CASE x = c
    BY <1>1, <1>3, <1>5, <2>1, <2>2
  <2>3. CASE x = p
    BY <1>1, <1>3, <1>6, <2>1, <2>3
  <2> QED  BY <1>1, <2>2, <2>3
<1> QED  BY <1>1, <1>3, <1>4, <1>5, <1>7 DEF Orderly

-----------------------------------------------------------------------------
(* What sending does to the two sides.                                     *)

\* From s to t neither SSL nor a reference nor what was read changed.
Frame(s, t) ==
  /\ t.ssl = s.ssl /\ t.plref = s.plref /\ t.svrref = s.svrref
  /\ t.svrdata = s.svrdata /\ t.inq = s.inq

LEMMA FrameTrans ==
  ASSUME NEW s, NEW t, NEW u, Frame(s, t), Frame(t, u)
  PROVE  Frame(s, u)
  BY DEF Frame

LEMMA FrameEvent ==
  ASSUME NEW s \in Memory, NEW c \in Conn, NEW e, NEW cb
  PROVE  LET t == AddEvent(s, c, e, cb)
         IN  /\ Frame(s, t) /\ t.out = s.out /\ t.flags = s.flags
             /\ t.ev[c] = e /\ t.cb[c] = cb
             /\ \A d \in Conn \ {c} : t.ev[d] = s.ev[d] /\ t.cb[d] = s.cb[d]
<1> DEFINE t == AddEvent(s, c, e, cb)
<1>1. Frame(s, t) /\ t.out = s.out
  BY DEF AddEvent, Memory, Frame
<1> QED  BY <1>1, AddEventFields

LEMMA FrameFlags ==
  ASSUME NEW s \in Memory, NEW c \in Conn, NEW f
  PROVE  LET t == [s EXCEPT !.flags[c] = f]
         IN  /\ Frame(s, t) /\ t.out = s.out /\ t.ev = s.ev /\ t.cb = s.cb
             /\ t.flags[c] = f /\ t.flags[Peer(c)] = s.flags[Peer(c)]
<1> DEFINE t == [s EXCEPT !.flags[c] = f]
<1>1. Frame(s, t) /\ t.out = s.out /\ t.ev = s.ev /\ t.cb = s.cb
  BY DEF Memory, Frame
<1>2. t.flags[c] = f /\ t.flags[Peer(c)] = s.flags[Peer(c)]
  BY FlagFields, PeerConn
<1> QED  BY <1>1, <1>2

LEMMA FrameRaise ==
  ASSUME NEW s \in Memory, NEW c \in Conn, NEW f
  PROVE  LET t == Raise(s, c, f)
             u == Clear(s, c, f)
         IN  /\ Frame(s, t) /\ t.out = s.out /\ t.ev = s.ev /\ t.cb = s.cb
             /\ t.flags[c] = s.flags[c] \union {f} /\ t.flags[Peer(c)] = s.flags[Peer(c)]
             /\ Frame(s, u) /\ u.out = s.out /\ u.ev = s.ev /\ u.cb = s.cb
             /\ u.flags[c] = s.flags[c] \ {f} /\ u.flags[Peer(c)] = s.flags[Peer(c)]
<1> DEFINE F == s.flags[c] \union {f}
           G == s.flags[c] \ {f}
<1>1. Raise(s, c, f) = [s EXCEPT !.flags[c] = F] /\ Clear(s, c, f) = [s EXCEPT !.flags[c] = G]
  BY DEF Raise, Clear
<1> HIDE DEF F, G
<1>2. LET t == [s EXCEPT !.flags[c] = F]
      IN  /\ Frame(s, t) /\ t.out = s.out /\ t.ev = s.ev /\ t.cb = s.cb
          /\ t.flags[c] = F /\ t.flags[Peer(c)] = s.flags[Peer(c)]
  BY FrameFlags
<1>3. LET t == [s EXCEPT !.flags[c] = G]
      IN  /\ Frame(s, t) /\ t.out = s.out /\ t.ev = s.ev /\ t.cb = s.cb
          /\ t.flags[c] = G /\ t.flags[Peer(c)] = s.flags[Peer(c)]
  BY FrameFlags
<1> QED  BY <1>1, <1>2, <1>3, Zenon DEF F, G

LEMMA BlockFields ==
  ASSUME NEW s \in Memory, NEW c \in Conn
  PROVE  LET t == Block(s, c)
             p == Peer(c)
         IN  IF "BLOCKED" \in s.flags[c] THEN t = s
             ELSE /\ Frame(s, t) /\ t.out = s.out
                  /\ t.cb[c] = "send" /\ t.cb[p] = "NULL"
                  /\ t.flags[c] = s.flags[c] \union {"BLOCKED"} /\ t.flags[p] = s.flags[p]
<1> DEFINE p == Peer(c)
           a == AddEvent(s, c, FD_OUT, "send")
           b == AddEvent(a, p, {}, "NULL")
           t == Raise(b, c, "BLOCKED")
<1>1. p \in Conn /\ p # c /\ Peer(c) = p
  BY PeerConn
<1> HIDE DEF p
<1>2. a \in Memory /\ Frame(s, a) /\ a.out = s.out /\ a.flags = s.flags /\ a.cb[c] = "send"
  BY FrameEvent, AddEventKeeps, HandlerConstants DEF Keeps
<1> HIDE DEF a
<1>3. /\ b \in Memory /\ Frame(a, b) /\ b.out = a.out /\ b.flags = a.flags
      /\ b.cb[p] = "NULL" /\ b.cb[c] = "send"
  BY <1>1, <1>2, FrameEvent, AddEventKeeps, HandlerConstants DEF Keeps
<1> HIDE DEF b
<1>4. /\ Frame(b, t) /\ t.out = b.out /\ t.cb = b.cb
      /\ t.flags[c] = b.flags[c] \union {"BLOCKED"} /\ t.flags[p] = b.flags[p]
  BY <1>1, <1>3, FrameRaise
<1> HIDE DEF t
<1>5. Frame(s, t)
  BY <1>2, <1>3, <1>4, FrameTrans
<1>6. Block(s, c) = IF "BLOCKED" \in s.flags[c] THEN s ELSE t
  BY Zenon DEF Block, t, b, a, p
<1> QED  BY <1>1, <1>2, <1>3, <1>4, <1>5, <1>6

LEMMA UnblockFields ==
  ASSUME NEW s \in Memory, NEW c \in Conn
  PROVE  LET t == Unblock(s, c)
             p == Peer(c)
         IN  IF "BLOCKED" \notin s.flags[c] THEN t = s
             ELSE /\ Frame(s, t) /\ t.out = s.out
                  /\ t.cb[c] = "recv" /\ t.cb[p] = "recv"
                  /\ t.ev[c] = FD_IN /\ t.ev[p] = FD_IN
                  /\ t.flags[c] = s.flags[c] \ {"BLOCKED"} /\ t.flags[p] = s.flags[p]
<1> DEFINE p == Peer(c)
           a == AddEvent(s, c, FD_IN, "recv")
           b == AddEvent(a, p, FD_IN, "recv")
           t == Clear(b, c, "BLOCKED")
<1>1. p \in Conn /\ p # c /\ Peer(c) = p
  BY PeerConn
<1> HIDE DEF p
<1>2. /\ a \in Memory /\ Frame(s, a) /\ a.out = s.out /\ a.flags = s.flags
      /\ a.cb[c] = "recv" /\ a.ev[c] = FD_IN
  BY FrameEvent, AddEventKeeps, HandlerConstants DEF Keeps
<1> HIDE DEF a
<1>3. /\ b \in Memory /\ Frame(a, b) /\ b.out = a.out /\ b.flags = a.flags
      /\ b.cb[p] = "recv" /\ b.cb[c] = "recv" /\ b.ev[p] = FD_IN /\ b.ev[c] = FD_IN
  BY <1>1, <1>2, FrameEvent, AddEventKeeps, HandlerConstants DEF Keeps
<1> HIDE DEF b
<1>4. /\ Frame(b, t) /\ t.out = b.out /\ t.cb = b.cb /\ t.ev = b.ev
      /\ t.flags[c] = b.flags[c] \ {"BLOCKED"} /\ t.flags[p] = b.flags[p]
  BY <1>1, <1>3, FrameRaise
<1> HIDE DEF t
<1>5. Frame(s, t)
  BY <1>2, <1>3, <1>4, FrameTrans
<1>6. Unblock(s, c) = IF "BLOCKED" \notin s.flags[c] THEN s ELSE t
  BY Zenon DEF Unblock, t, b, a, p
<1> QED  BY <1>1, <1>2, <1>3, <1>4, <1>5, <1>6

LEMMA ShutWriteFields ==
  ASSUME NEW s \in Memory, NEW c \in Conn
  PROVE  LET t == ShutWrite(s, c)
             p == Peer(c)
         IN  \/ t = s
             \/ /\ s.ssl[c] # "NULL" /\ Frame(s, t) /\ t.out = s.out
                /\ t.cb[c] = "shutdown" /\ t.cb[p] = s.cb[p]
                /\ t.flags[c] = s.flags[c] \union {"SSLSHUT"} /\ t.flags[p] = s.flags[p]
             \/ /\ s.ssl[c] = "NULL" /\ "SHUTRD" \in s.flags[p]
                /\ Frame(s, t) /\ t.out = s.out /\ t.cb = s.cb /\ t.ev = s.ev
                /\ t.flags[c] = s.flags[c] \union {"SHUTWR"} /\ t.flags[p] = s.flags[p]
<1> DEFINE p == Peer(c)
           a == Raise(s, c, "SSLSHUT")
           b == AddEvent(a, c, FD_OUT, "shutdown")
           d == Raise(s, c, "SHUTWR")
<1>1. p \in Conn /\ p # c /\ Peer(c) = p
  BY PeerConn
<1>2. ShutWrite(s, c) = IF "SHUTRD" \notin s.flags[p] THEN s
                        ELSE IF s.ssl[c] # "NULL" THEN b ELSE d
  BY Zenon DEF ShutWrite
<1> HIDE DEF p
<1>3. /\ a \in Memory /\ Frame(s, a) /\ a.out = s.out /\ a.cb = s.cb
      /\ a.flags[c] = s.flags[c] \union {"SSLSHUT"} /\ a.flags[p] = s.flags[p]
  <2>1. a \in Memory
    BY RaiseClearKeeps, HandlerConstants DEF Keeps
  <2> QED  BY <1>1, <2>1, FrameRaise
<1>4. /\ Frame(s, d) /\ d.out = s.out /\ d.cb = s.cb /\ d.ev = s.ev
      /\ d.flags[c] = s.flags[c] \union {"SHUTWR"} /\ d.flags[p] = s.flags[p]
  BY <1>1, FrameRaise
<1> HIDE DEF a, d
<1>5. /\ Frame(a, b) /\ b.out = a.out /\ b.flags = a.flags
      /\ b.cb[c] = "shutdown" /\ b.cb[p] = a.cb[p]
  BY <1>1, <1>3, FrameEvent
<1> HIDE DEF b
<1>6. Frame(s, b)
  BY <1>3, <1>5, FrameTrans
<1>7. CASE "SHUTRD" \notin s.flags[p]
  BY <1>2, <1>7
<1>8. CASE "SHUTRD" \in s.flags[p] /\ s.ssl[c] # "NULL"
  BY <1>1, <1>2, <1>3, <1>5, <1>6, <1>8
<1>9. CASE "SHUTRD" \in s.flags[p] /\ s.ssl[c] = "NULL"
  BY <1>1, <1>2, <1>4, <1>9
<1> QED  BY <1>7, <1>8, <1>9

LEMMA FrameConsume ==
  ASSUME NEW s \in Memory, NEW c \in Conn, NEW o
  PROVE  LET t == Consume(s, c, o)
         IN  Frame(s, t) /\ t.cb = s.cb /\ t.ev = s.ev /\ t.flags = s.flags
  BY DEF Consume, Memory, Frame

\* Nothing is registered anew: sending failed, or has to wait as before.
Holds(s, c, t) ==
  /\ t.cb = s.cb
  /\ "BLOCKED" \in t.flags[c] <=> "BLOCKED" \in s.flags[c]
  /\ "SHUTWR" \in t.flags[c] <=> "SHUTWR" \in s.flags[c]

\* The output stays, c waits to send, and its peer is not read from.
Stalls(s, c, t) ==
  /\ "HSK" \notin s.flags[c] /\ s.out[c] # <<>>
  /\ t.cb[c] = "send" /\ t.cb[Peer(c)] = "NULL"
  /\ "SHUTWR" \in t.flags[c] <=> "SHUTWR" \in s.flags[c]

\* The output is gone; a connection that waited to send is read from again,
\* and its peer too; the write side is shut down when the peer's stream ended.
Drains(s, c, t) ==
  LET p    == Peer(c)
      held == "BLOCKED" \in s.flags[c]
  IN  /\ "HSK" \notin s.flags[c] /\ "BLOCKED" \notin t.flags[c]
      /\ t.cb[p] = IF held THEN "recv" ELSE s.cb[p]
      /\ \/ /\ s.ssl[c] # "NULL" /\ t.cb[c] = "shutdown"
            /\ "SHUTWR" \in t.flags[c] <=> "SHUTWR" \in s.flags[c]
         \/ /\ t.cb[c] = IF held THEN "recv" ELSE s.cb[c]
            /\ held => t.ev[c] = FD_IN /\ t.ev[p] = FD_IN
            /\ "SHUTWR" \in s.flags[c] => "SHUTWR" \in t.flags[c]
            /\ "SHUTWR" \in t.flags[c] /\ "SHUTWR" \notin s.flags[c] =>
                 "SHUTRD" \in s.flags[p] /\ s.ssl[c] = "NULL"

Sends(s, c, t) ==
  /\ Frame(s, t) /\ t.flags[Peer(c)] = s.flags[Peer(c)]
  /\ "HSK" \in t.flags[c] <=> "HSK" \in s.flags[c]
  /\ "SHUTRD" \in t.flags[c] <=> "SHUTRD" \in s.flags[c]
  /\ t.out[Peer(c)] = s.out[Peer(c)] /\ (s.out[c] = <<>> => t.out[c] = <<>>)
  /\ Holds(s, c, t) \/ Stalls(s, c, t) \/ Drains(s, c, t)

\* conn_send_data for c.
LEMMA SendFields ==
  ASSUME NEW s \in Memory, NEW c \in Conn, NEW kc, NEW free \in Int,
         NEW o \in SendOutcome(s, c, kc, free)
  PROVE  LET t == conn_send_data(s, c, o)
         IN  Sends(s, c, t) /\ (o.end = "err" => Holds(s, c, t))
<1> DEFINE p  == Peer(c)
           s1 == Consume(s, c, o)
           s2 == Unblock(s1, c)
           s3 == ShutWrite(s2, c)
           e  == Raise(s1, c, "ERROR")
           b  == Block(s1, c)
           t  == conn_send_data(s, c, o)
<1>1. /\ s1.out[p] = s.out[p]
      /\ o.full = 0 /\ o.part = 0 => s1.out[c] = s.out[c]
  BY ConsumeView
<1>2. /\ s.out[c] = <<>> => o.full = 0 /\ o.part = 0 /\ o.end = "all"
      /\ o.end \in {"all", "part", "err"}
      /\ InHandshake(s, c) => o.end = "all"
  <2>1. s.out[c] = <<>> \/ InHandshake(s, c) => o.full = 0 /\ o.part = 0 /\ o.end = "all"
    BY DEF SendOutcome
  <2> QED  BY <2>1, SendFacts
<1>3. s1 \in Memory
  BY SendOutcomeType, ConsumeKeeps DEF Keeps
<1>4. Frame(s, s1) /\ s1.cb = s.cb /\ s1.ev = s.ev /\ s1.flags = s.flags
  BY FrameConsume
<1>5. /\ t = IF InHandshake(s, c) THEN s
             ELSE CASE o.end = "err"  -> e
                    [] o.end = "part" -> b
                    [] o.end = "all"  -> s3
  BY Zenon DEF conn_send_data
<1>6. p \in Conn /\ p # c /\ Peer(c) = p
  BY PeerConn
<1> HIDE DEF s1, t, p
<1>7. CASE InHandshake(s, c)
  <2>1. t = s
    BY <1>5, <1>7
  <2>2. Sends(s, c, s) /\ Holds(s, c, s)
    BY DEF Sends, Frame, Holds
  <2> QED  BY <2>1, <2>2 DEF t
<1>8. CASE ~InHandshake(s, c) /\ o.end = "err"
  <2>1. t = e
    BY <1>5, <1>8
  <2>2. /\ Frame(s1, e) /\ e.out = s1.out /\ e.cb = s1.cb
        /\ e.flags[c] = s1.flags[c] \union {"ERROR"} /\ e.flags[p] = s1.flags[p]
    BY <1>3, <1>6, FrameRaise
  <2> HIDE DEF e
  <2>3. Frame(s, e)
    BY <1>4, <2>2, FrameTrans
  <2>4. Holds(s, c, e)
    BY <1>4, <2>2 DEF Holds
  <2>5. Sends(s, c, e)
    BY <1>1, <1>2, <1>4, <1>6, <2>2, <2>3, <2>4 DEF Sends
  <2> QED  BY <2>1, <2>4, <2>5 DEF t
<1>9. CASE ~InHandshake(s, c) /\ o.end = "part"
  <2>1. t = b
    BY <1>5, <1>9
  <2>2. IF "BLOCKED" \in s1.flags[c] THEN b = s1
        ELSE /\ Frame(s1, b) /\ b.out = s1.out
             /\ b.cb[c] = "send" /\ b.cb[p] = "NULL"
             /\ b.flags[c] = s1.flags[c] \union {"BLOCKED"} /\ b.flags[p] = s1.flags[p]
    BY <1>3, <1>6, BlockFields
  <2>3. s.out[c] # <<>> /\ "HSK" \notin s.flags[c]
    BY <1>2, <1>9 DEF InHandshake
  <2> HIDE DEF b
  <2>4. CASE "BLOCKED" \in s1.flags[c]
    <3>1. Holds(s, c, s1)
      BY <1>4 DEF Holds
    <3>2. Sends(s, c, s1)
      BY <1>1, <1>4, <1>6, <2>3, <3>1 DEF Sends
    <3> QED  BY <1>9, <2>1, <2>2, <2>4, <3>2 DEF t
  <2>5. CASE "BLOCKED" \notin s1.flags[c]
    <3>1. /\ Frame(s1, b) /\ b.out = s1.out
          /\ b.cb[c] = "send" /\ b.cb[p] = "NULL"
          /\ b.flags[c] = s1.flags[c] \union {"BLOCKED"} /\ b.flags[p] = s1.flags[p]
      BY <2>2, <2>5
    <3>2. Stalls(s, c, b)
      BY <1>4, <1>6, <2>3, <3>1 DEF Stalls
    <3>3. Frame(s, b)
      BY <1>4, <3>1, FrameTrans
    <3>4. Sends(s, c, b)
      BY <1>1, <1>4, <1>6, <2>3, <3>1, <3>2, <3>3 DEF Sends
    <3> QED  BY <1>9, <2>1, <3>4 DEF t
  <2> QED  BY <2>4, <2>5
<1>10. CASE ~InHandshake(s, c) /\ o.end = "all"
  <2>1. t = s3
    BY <1>5, <1>10
  <2> DEFINE held == "BLOCKED" \in s.flags[c]
  <2>2. IF ~held THEN s2 = s1
        ELSE /\ Frame(s1, s2) /\ s2.out = s1.out
             /\ s2.cb[c] = "recv" /\ s2.cb[p] = "recv"
             /\ s2.ev[c] = FD_IN /\ s2.ev[p] = FD_IN
             /\ s2.flags[c] = s1.flags[c] \ {"BLOCKED"} /\ s2.flags[p] = s1.flags[p]
    BY <1>3, <1>4, <1>6, UnblockFields
  <2>3. s2 \in Memory
    BY <1>3, BlockKeeps DEF Keeps
  <2> HIDE DEF s2
  <2>4. /\ Frame(s, s2) /\ s2.out = s1.out
        /\ s2.cb[c] = IF held THEN "recv" ELSE s.cb[c]
        /\ s2.cb[p] = IF held THEN "recv" ELSE s.cb[p]
        /\ held => s2.ev[c] = FD_IN /\ s2.ev[p] = FD_IN
        /\ s2.flags[c] = s.flags[c] \ {"BLOCKED"} /\ s2.flags[p] = s.flags[p]
    <3>1. CASE held
      BY <1>4, <2>2, <3>1, FrameTrans
    <3>2. CASE ~held
      BY <1>4, <2>2, <3>2
    <3> QED  BY <3>1, <3>2
  <2>5. \/ s3 = s2
        \/ /\ s2.ssl[c] # "NULL" /\ Frame(s2, s3) /\ s3.out = s2.out
           /\ s3.cb[c] = "shutdown" /\ s3.cb[p] = s2.cb[p]
           /\ s3.flags[c] = s2.flags[c] \union {"SSLSHUT"} /\ s3.flags[p] = s2.flags[p]
        \/ /\ s2.ssl[c] = "NULL" /\ "SHUTRD" \in s2.flags[p]
           /\ Frame(s2, s3) /\ s3.out = s2.out /\ s3.cb = s2.cb /\ s3.ev = s2.ev
           /\ s3.flags[c] = s2.flags[c] \union {"SHUTWR"} /\ s3.flags[p] = s2.flags[p]
    BY <1>6, <2>3, ShutWriteFields
  <2> HIDE DEF s3
  <2>6. "HSK" \notin s.flags[c] /\ s2.ssl = s.ssl
    BY <1>10, <2>4 DEF InHandshake, Frame
  <2>7. /\ Drains(s, c, s3) /\ Frame(s, s3) /\ s3.out = s1.out /\ s3.flags[p] = s.flags[p]
        /\ "HSK" \notin s3.flags[c] /\ ("SHUTRD" \in s3.flags[c] <=> "SHUTRD" \in s.flags[c])
    <3>1. CASE s3 = s2
      BY <1>6, <2>4, <2>6, <3>1 DEF Drains
    <3>2. CASE /\ s2.ssl[c] # "NULL" /\ Frame(s2, s3) /\ s3.out = s2.out
               /\ s3.cb[c] = "shutdown" /\ s3.cb[p] = s2.cb[p]
               /\ s3.flags[c] = s2.flags[c] \union {"SSLSHUT"} /\ s3.flags[p] = s2.flags[p]
      <4>1. Frame(s, s3)
        BY <2>4, <3>2, FrameTrans
      <4> QED  BY <1>6, <2>4, <2>6, <3>2, <4>1 DEF Drains
    <3>3. CASE /\ s2.ssl[c] = "NULL" /\ "SHUTRD" \in s2.flags[p]
               /\ Frame(s2, s3) /\ s3.out = s2.out /\ s3.cb = s2.cb /\ s3.ev = s2.ev
               /\ s3.flags[c] = s2.flags[c] \union {"SHUTWR"} /\ s3.flags[p] = s2.flags[p]
      <4>1. Frame(s, s3)
        BY <2>4, <3>3, FrameTrans
      <4> QED  BY <1>6, <2>4, <2>6, <3>3, <4>1 DEF Drains
    <3> QED  BY <2>5, <3>1, <3>2, <3>3
  <2>8. Sends(s, c, s3)
    BY <1>1, <1>2, <1>6, <2>6, <2>7 DEF Sends
  <2> QED  BY <1>10, <2>1, <2>8 DEF t
<1> QED  BY <1>2, <1>7, <1>8, <1>9, <1>10

\* Sending keeps both sides orderly.
LEMMA SendOrderly ==
  ASSUME NEW s, NEW t, NEW c \in Conn, Orderly(s), Sends(s, c, t), c = Server => s.svrdata
  PROVE  Orderly(t)
<1> DEFINE p == Peer(c)
<1>1. /\ p \in Conn /\ p # c /\ Peer(p) = c /\ Peer(c) = p /\ \A x \in Conn : x = c \/ x = p
  BY PeerConn, ConnIs
<1>2. Client \in Conn /\ Server \in Conn /\ Client # Server
  BY DEF Conn, Client, Server
<1> HIDE DEF p
<1>3. /\ t.ssl = s.ssl /\ t.svrdata = s.svrdata /\ t.inq = s.inq
      /\ t.flags[p] = s.flags[p]
      /\ "HSK" \in t.flags[c] <=> "HSK" \in s.flags[c]
      /\ "SHUTRD" \in t.flags[c] <=> "SHUTRD" \in s.flags[c]
      /\ t.out[p] = s.out[p] /\ (s.out[c] = <<>> => t.out[c] = <<>>)
      /\ Holds(s, c, t) \/ Stalls(s, c, t) \/ Drains(s, c, t)
  BY <1>1 DEF Sends, Frame
<1>4. \A x \in Conn : Plain(t, x) <=> Plain(s, x)
  BY <1>1, <1>3 DEF Plain
<1>5. Mute(t)
  <2>1. CASE c = Client
    <3>1. p = Server
      BY <1>1, <1>2, <2>1
    <3>2. ~s.svrdata \/ "HSK" \in s.flags[Server] =>
            /\ "BLOCKED" \notin s.flags[c] /\ s.out[c] = <<>>
            /\ "BLOCKED" \notin t.flags[c] /\ t.cb[p] = s.cb[p]
      BY <1>1, <1>3, <2>1 DEF Orderly, Mute, Holds, Stalls, Drains
    <3> QED  BY <1>3, <2>1, <3>1, <3>2 DEF Orderly, Mute
  <2>2. CASE c = Server
    <3>1. p = Client
      BY <1>1, <1>2, <2>2
    <3>2. "HSK" \in s.flags[c] => t.cb[c] = s.cb[c] /\ ("SHUTWR" \in t.flags[c] <=> "SHUTWR" \in s.flags[c])
      BY <1>3 DEF Holds, Stalls, Drains
    <3> QED  BY <1>3, <2>2, <3>1, <3>2 DEF Orderly, Mute
  <2> QED  BY <2>1, <2>2, ConnIs
<1>6. /\ "SHUTWR" \in s.flags[c] => "SHUTRD" \in s.flags[p] /\ Plain(s, c)
      /\ "SHUTWR" \in s.flags[p] => "SHUTRD" \in s.flags[c] /\ Plain(s, p)
      /\ s.cb[p] = "send" /\ Plain(s, c) => s.cb[c] = "NULL"
      /\ s.cb[c] = "send" /\ Plain(s, p) => s.cb[p] = "NULL"
  BY <1>1 DEF Orderly, Ends
<1>7. "SHUTWR" \in t.flags[c] => "SHUTRD" \in t.flags[p] /\ Plain(t, c)
  BY <1>1, <1>3, <1>4, <1>6 DEF Holds, Stalls, Drains, Plain
<1>8. /\ t.cb[p] = "send" /\ Plain(t, c) => t.cb[c] = "NULL"
      /\ t.cb[c] = "send" /\ Plain(t, p) => t.cb[p] = "NULL"
  <2>1. CASE Holds(s, c, t)
    BY <1>1, <1>4, <1>6, <2>1 DEF Holds
  <2>2. CASE Stalls(s, c, t)
    BY <1>1, <2>2 DEF Stalls
  <2>3. CASE Drains(s, c, t)
    <3>1. CASE "BLOCKED" \in s.flags[c]
      BY <1>1, <2>3, <3>1 DEF Drains
    <3>2. CASE "BLOCKED" \notin s.flags[c]
      BY <1>1, <1>3, <1>4, <1>6, <2>3, <3>2 DEF Drains, Plain
    <3> QED  BY <3>1, <3>2
  <2> QED  BY <1>3, <2>1, <2>2, <2>3
<1>9. Ends(t)
  <2> SUFFICES ASSUME NEW x \in Conn
               PROVE  /\ "SHUTWR" \in t.flags[x] => "SHUTRD" \in t.flags[Peer(x)] /\ Plain(t, x)
                      /\ t.cb[Peer(x)] = "send" /\ Plain(t, x) => t.cb[x] = "NULL"
    BY DEF Ends
  <2>1. CASE x = c
    BY <1>1, <1>7, <1>8, <2>1
  <2>2. CASE x = p
    BY <1>1, <1>3, <1>4, <1>6, <1>8, <2>2
  <2> QED  BY <1>1, <2>1, <2>2
<1> QED  BY <1>5, <1>9 DEF Orderly

-----------------------------------------------------------------------------
(* What a parse task does to the two sides before it sends.                *)

\* From j to t a server was chosen and p connects, or is connected, to it.
Reaches(j, p, t) ==
  LET q == Peer(p)
  IN  /\ t.cb[q] = j.cb[q] /\ t.flags[q] = j.flags[q] /\ t.ssl[q] = j.ssl[q]
      /\ "SHUTWR" \in t.flags[p] <=> "SHUTWR" \in j.flags[p]
      /\ "BLOCKED" \in t.flags[p] <=> "BLOCKED" \in j.flags[p]
      /\ t.cb[p] \in {"handshake", "recv"}
      /\ "HSK" \in t.flags[p] => "HSK" \in j.flags[p] \/ t.cb[p] = "handshake"

\* From j to t a reference on the server was taken.
Chooses(j, t) == t.plref = j.plref /\ t.svrref = j.svrref + 1 /\ t.svrdata

LEMMA ForwardFields ==
  ASSUME NEW s, NEW c \in Conn, NEW f \in {"noserver", "fail", "wait", "now"},
         Joined(s, c) \in Memory
  PROVE  LET j == Joined(s, c)
             t == session_forward(s, c, f)
         IN  /\ s.fd[c] \/ f = "noserver" => t = j
             /\ ~s.fd[c] /\ f # "noserver" => Chooses(j, t)
             /\ ~s.fd[c] /\ f \in {"wait", "now"} => Reaches(j, c, t)
<1> DEFINE p  == Peer(c)
           j  == Joined(s, c)
           g  == session_get_server(j, c)
           o  == [g EXCEPT !.fd[c] = TRUE]
           oa == Raise(o, c, "HSK")
           wa == AddEvent(oa, c, FD_OUT, "handshake")
           fl == o.flags[c] \union {"SSLHSK"}
           up == [o EXCEPT !.ssl[c] = "fd", !.flags[c] = fl]
           ua == AddEvent(up, c, FD_OUT, "handshake")
           na == AddEvent(o, c, FD_IN, "recv")
           t  == session_forward(s, c, f)
<1>1. j \in Memory /\ p \in Conn /\ p # c /\ p \in Conn \ {c} /\ Peer(c) = p
  BY PeerConn
<1>2. t = IF s.fd[c] THEN j
          ELSE CASE f = "noserver" -> j
                 [] f = "fail"     -> g
                 [] f = "wait"     -> wa
                 [] f = "now"      -> IF g.ssl[c] # "NULL" THEN ua ELSE na
  BY DEF session_forward
<1> HIDE DEF t, j, p
<1>3. g \in Memory
  BY <1>1, GetServerOpens DEF Opens
<1>4. /\ g.svrdata /\ g.plref = j.plref /\ g.svrref = j.svrref + 1
      /\ g.cb = j.cb /\ g.flags = j.flags /\ g.ssl[p] = j.ssl[p]
  <2>1. /\ g.svrdata /\ g.plref = j.plref /\ g.svrref = j.svrref + 1
        /\ g.cb = j.cb /\ g.flags = j.flags
    BY <1>1 DEF session_get_server, Memory
  <2>2. \E v : g.ssl = [j.ssl EXCEPT ![c] = v]
    BY <1>1 DEF session_get_server, Memory
  <2>3. j.ssl \in [Conn -> {"NULL", "nofd", "fd"}]
    BY <1>1 DEF Memory
  <2> HIDE DEF g
  <2>4. g.ssl[p] = j.ssl[p]
    BY <1>1, <2>2, <2>3
  <2> QED  BY <2>1, <2>4
<1> HIDE DEF g
<1>5. o \in Memory
  BY <1>3, OpensFd DEF Opens
<1>6. /\ o.svrdata = g.svrdata /\ o.plref = g.plref /\ o.svrref = g.svrref
      /\ o.cb = g.cb /\ o.flags = g.flags /\ o.ssl = g.ssl
  BY <1>3 DEF Memory
<1> HIDE DEF o
<1>7. Chooses(j, g) /\ Chooses(j, o)
  BY <1>4, <1>6 DEF Chooses
<1>8. /\ oa \in Memory /\ Frame(o, oa) /\ oa.cb = o.cb
      /\ oa.flags[c] = o.flags[c] \union {"HSK"} /\ oa.flags[p] = o.flags[p]
  <2>1. oa \in Memory
    BY <1>5, RaiseClearKeeps, HandlerConstants DEF Keeps
  <2> QED  BY <1>1, <1>5, <2>1, FrameRaise
<1> HIDE DEF oa
<1>9. /\ Frame(oa, wa) /\ wa.flags = oa.flags /\ wa.cb[c] = "handshake" /\ wa.cb[p] = oa.cb[p]
      /\ Frame(o, na) /\ na.flags = o.flags /\ na.cb[c] = "recv" /\ na.cb[p] = o.cb[p]
  <2>1. /\ Frame(oa, wa) /\ wa.flags = oa.flags /\ wa.cb[c] = "handshake" /\ wa.cb[p] = oa.cb[p]
    BY <1>1, <1>8, FrameEvent
  <2>2. /\ Frame(o, na) /\ na.flags = o.flags /\ na.cb[c] = "recv" /\ na.cb[p] = o.cb[p]
    BY <1>1, <1>5, FrameEvent
  <2> QED  BY <2>1, <2>2
<1> HIDE DEF wa, na
<1>10. /\ fl \in SUBSET Flag
       /\ "SHUTWR" \in fl <=> "SHUTWR" \in o.flags[c]
       /\ "BLOCKED" \in fl <=> "BLOCKED" \in o.flags[c]
       /\ "HSK" \in fl <=> "HSK" \in o.flags[c]
  BY <1>5 DEF Memory, Flag
<1> HIDE DEF fl
<1>11. up \in Memory
  BY <1>5, <1>10 DEF Memory
<1>12. /\ up.svrdata = o.svrdata /\ up.plref = o.plref /\ up.svrref = o.svrref
       /\ up.cb = o.cb /\ up.flags[c] = fl /\ up.flags[p] = o.flags[p] /\ up.ssl[p] = o.ssl[p]
  <2>1. /\ up.svrdata = o.svrdata /\ up.plref = o.plref /\ up.svrref = o.svrref
        /\ up.cb = o.cb /\ up.flags = [o.flags EXCEPT ![c] = fl]
        /\ up.ssl = [o.ssl EXCEPT ![c] = "fd"]
        /\ o.flags \in [Conn -> SUBSET Flag] /\ o.ssl \in [Conn -> {"NULL", "nofd", "fd"}]
    BY <1>5 DEF Memory
  <2> HIDE DEF up
  <2> QED  BY <1>1, <2>1
<1> HIDE DEF up
<1>13. Frame(up, ua) /\ ua.flags = up.flags /\ ua.cb[c] = "handshake" /\ ua.cb[p] = up.cb[p]
  BY <1>1, <1>11, FrameEvent
<1> HIDE DEF ua
<1>14. Chooses(j, wa) /\ Chooses(j, na) /\ Chooses(j, ua)
  BY <1>7, <1>8, <1>9, <1>12, <1>13 DEF Chooses, Frame
<1>15. Reaches(j, c, wa)
  BY <1>1, <1>4, <1>6, <1>8, <1>9 DEF Reaches, Frame
<1>16. Reaches(j, c, na)
  BY <1>1, <1>4, <1>6, <1>9 DEF Reaches, Frame
<1>17. Reaches(j, c, ua)
  BY <1>1, <1>4, <1>6, <1>10, <1>12, <1>13 DEF Reaches, Frame
<1>18. CASE s.fd[c] \/ f = "noserver"
  <2>1. t = j
    BY <1>2, <1>18
  <2> QED  BY <1>18, <2>1 DEF t, j
<1>19. CASE ~s.fd[c] /\ f # "noserver"
  <2>1. t \in {g, wa, ua, na} /\ (f \in {"wait", "now"} => t \in {wa, ua, na})
    BY <1>2, <1>19
  <2>2. Chooses(j, t)
    BY <1>7, <1>14, <2>1, Zenon
  <2>3. f \in {"wait", "now"} => Reaches(j, c, t)
    BY <1>15, <1>16, <1>17, <2>1, Zenon
  <2> QED  BY <1>19, <2>2, <2>3 DEF t, j
<1> QED  BY <1>18, <1>19

\* Parsing and joining move packets, and nothing else.
LEMMA JoinFields ==
  ASSUME NEW s \in Memory, NEW c \in Conn
  PROVE  LET j == Joined(session_fparse(s, c), Peer(c))
         IN  /\ j.cb = s.cb /\ j.flags = s.flags /\ j.ssl = s.ssl /\ j.svrdata = s.svrdata
             /\ j.plref = s.plref /\ j.svrref = s.svrref /\ j.alive = s.alive
<1> DEFINE x == session_fparse(s, c)
           j == Joined(x, Peer(c))
<1>1. /\ x.cb = s.cb /\ x.flags = s.flags /\ x.ssl = s.ssl /\ x.svrdata = s.svrdata
      /\ x.plref = s.plref /\ x.svrref = s.svrref /\ x.alive = s.alive
  BY DEF session_fparse, Memory
<1>2. x \in [alive : {x.alive}, fd : {x.fd}, ssl : {x.ssl}, inq : {x.inq}, mid : {x.mid},
             out : {x.out}, task : {x.task}, flags : {x.flags}, ev : {x.ev}, cb : {x.cb},
             svrdata : {x.svrdata}, nalloced : {x.nalloced}, taskq : {x.taskq},
             plref : {x.plref}, svrref : {x.svrref}, nssl : {x.nssl}]
  BY DEF session_fparse, Memory
<1> HIDE DEF x
<1>3. /\ j.cb = x.cb /\ j.flags = x.flags /\ j.ssl = x.ssl /\ j.svrdata = x.svrdata
      /\ j.plref = x.plref /\ j.svrref = x.svrref /\ j.alive = x.alive
  BY <1>2 DEF Joined
<1> QED  BY <1>1, <1>3 DEF j, x

\* A parse task keeps both sides orderly, and takes a reference on the server
\* it chooses.
LEMMA ParsedOrderly ==
  ASSUME NEW u, Sound(u), Intact(u), Orderly(u), Armed(u), Refs(u), NEW c \in Conn,
         c = Server => u.svrdata, ~u.svrdata => u.inq[Server] = <<>> /\ ~u.fd[Server],
         NEW f \in {"noserver", "fail", "wait", "now"}
  PROVE  LET t == session_forward(session_fparse(u, c), Peer(c), f)
         IN  Refs(t) /\ (f \in {"wait", "now"} => Orderly(t))
<1> DEFINE p == Peer(c)
           x == session_fparse(u, c)
           j == Joined(x, p)
           t == session_forward(x, p, f)
<1>1. /\ p \in Conn /\ p # c /\ Peer(p) = c /\ Peer(c) = p /\ \A y \in Conn : y = c \/ y = p
  BY PeerConn, ConnIs
<1>2. Client \in Conn /\ Server \in Conn /\ Client # Server
  BY DEF Conn, Client, Server
<1>3. u \in Memory /\ u.alive
  BY DEF Sound, Intact
<1>4. Parsed(t, u, c)
  BY <1>3, ParsedView
<1>5. /\ j.cb = u.cb /\ j.flags = u.flags /\ j.ssl = u.ssl /\ j.svrdata = u.svrdata
      /\ j.plref = u.plref /\ j.svrref = u.svrref
  BY <1>3, JoinFields
<1>6. j \in Memory /\ x.fd = u.fd
  BY <1>3, ParseSound, JoinView DEF Sound
<1>7. t.alive
  BY <1>3, ParsedSound
<1> HIDE DEF x
<1>8. /\ x.fd[p] \/ f = "noserver" => t = j
      /\ ~x.fd[p] /\ f # "noserver" => Chooses(j, t)
      /\ ~x.fd[p] /\ f \in {"wait", "now"} => Reaches(j, p, t)
  BY <1>1, <1>6, ForwardFields
<1> HIDE DEF j, t, p
<1>9. ~u.fd[p] => p = Server /\ c = Client /\ ~u.svrdata
  BY <1>1, <1>2, ConnIs DEF Intact
<1>10. Refs(t)
  <2>1. CASE u.fd[p] \/ f = "noserver"
    BY <1>3, <1>5, <1>6, <1>7, <1>8, <2>1 DEF Refs
  <2>2. CASE ~u.fd[p] /\ f # "noserver"
    BY <1>3, <1>5, <1>6, <1>7, <1>8, <1>9, <2>2 DEF Refs, Chooses
  <2> QED  BY <2>1, <2>2
<1>11. /\ t.inq[c] = <<>> /\ t.inq[p] = u.inq[p]
       /\ t.out[c] = u.out[c] /\ t.out[p] = u.out[p] \o u.inq[c]
  BY <1>1, <1>4 DEF Parsed
<1>12. ASSUME f \in {"wait", "now"} PROVE Orderly(t)
  <2>1. CASE u.fd[p]
    <3>1. t.cb = u.cb /\ t.flags = u.flags /\ t.ssl = u.ssl /\ t.svrdata = u.svrdata
      BY <1>5, <1>6, <1>8, <2>1
    <3>2. Ends(t)
      BY <3>1 DEF Orderly, Ends, Plain
    <3>3. ~u.svrdata \/ "HSK" \in u.flags[Server] => t.out[Client] = <<>>
      <4>1. CASE c = Client
        BY <1>11, <4>1 DEF Orderly, Mute
      <4>2. CASE c = Server
        <5>1. p = Client /\ <<>> \o <<>> = <<>>
          BY <1>1, <1>2, <4>2
        <5> QED  BY <1>11, <4>2, <5>1 DEF Orderly, Mute
      <4> QED  BY <4>1, <4>2, ConnIs
    <3>4. "HSK" \in u.flags[Server] => t.inq[Server] = <<>>
      BY <1>1, <1>2, <1>11 DEF Orderly, Mute
    <3>5. Mute(t)
      BY <3>1, <3>3, <3>4 DEF Orderly, Mute
    <3> QED  BY <3>2, <3>5 DEF Orderly
  <2>2. CASE ~u.fd[p]
    <3>1. p = Server /\ c = Client /\ ~u.svrdata
      BY <1>9, <2>2
    <3>2. /\ t.svrdata
          /\ t.cb[Client] = u.cb[Client] /\ t.flags[Client] = u.flags[Client]
          /\ t.ssl[Client] = u.ssl[Client]
          /\ "SHUTWR" \in t.flags[Server] <=> "SHUTWR" \in u.flags[Server]
          /\ t.cb[Server] \in {"handshake", "recv"}
          /\ "HSK" \in t.flags[Server] => "HSK" \in u.flags[Server] \/ t.cb[Server] = "handshake"
      BY <1>1, <1>5, <1>6, <1>8, <1>12, <2>2, <3>1 DEF Chooses, Reaches
    <3>3. /\ "HSK" \notin u.flags[Client] /\ "HSK" \notin u.flags[Server]
          /\ u.out[Client] = <<>> /\ "BLOCKED" \notin u.flags[Client]
          /\ "SHUTWR" \notin u.flags[Server]
      BY <3>1 DEF Orderly, Mute
    <3>4. u.cb[Client] # "send"
      BY <1>2, <3>3 DEF Armed
    <3>5. Mute(t)
      BY <1>11, <3>1, <3>2, <3>3 DEF Mute
    <3>6. Plain(t, Client) <=> Plain(u, Client)
      BY <3>2 DEF Plain
    <3>7. Peer(Client) = Server /\ Peer(Server) = Client
      BY <1>1, <3>1
    <3>8. "SHUTWR" \in u.flags[Client] => "SHUTRD" \in u.flags[Server] /\ Plain(u, Client)
      BY <1>2, <3>7 DEF Orderly, Ends
    <3>9. "SHUTRD" \in u.flags[Server] => "SHUTRD" \in t.flags[Server]
      BY <1>2, <1>4 DEF Parsed
    <3>10. Ends(t)
      BY <3>2, <3>3, <3>4, <3>6, <3>7, <3>8, <3>9, ConnIs DEF Ends
    <3> QED  BY <3>5, <3>10 DEF Orderly
  <2> QED  BY <2>1, <2>2
<1> QED  BY <1>10, <1>12 DEF t, x, p

-----------------------------------------------------------------------------
(* Giving the references back.                                             *)

\* Both sides of the session have ended.
Shut(s) == \A c \in Conn : "SHUTWR" \in s.flags[c]

LEMMA ConnFreeRefs ==
  ASSUME NEW s \in Memory, NEW c \in Conn
  PROVE  conn_free(s, c).plref = s.plref /\ conn_free(s, c).svrref = s.svrref
<1> DEFINE a == FreePackets(s, c)
           b == AddEvent(a, c, {}, "NULL")
           t == [b EXCEPT !.fd[c] = FALSE, !.task[c] = "NONE"]
<1>1. a \in Memory
  BY FreePacketsKeeps DEF Keeps
<1>2. a.plref = s.plref /\ a.svrref = s.svrref
  BY DEF FreePackets, Memory
<1> HIDE DEF a
<1>3. b \in Memory
  BY <1>1, AddEventKeeps, HandlerConstants DEF Keeps
<1>4. b.plref = a.plref /\ b.svrref = a.svrref
  BY <1>1 DEF AddEvent, Memory
<1> HIDE DEF b
<1>5. t.plref = b.plref /\ t.svrref = b.svrref
  BY <1>3 DEF Memory
<1>6. conn_free(s, c) = t
  BY Zenon DEF conn_free, a, b
<1> QED  BY <1>2, <1>4, <1>5, <1>6

\* A deletion gives both references back, or neither when a task of the peer
\* delays it; the connection is closed in any case.
LEMMA FreeRefs ==
  ASSUME NEW s \in Memory, s.alive, Refs(s), NEW c \in Conn, c = Server => s.svrdata
  PROVE  LET t == session_free(s, c)
         IN  /\ Refs(t) /\ ~Intact(t) /\ t.flags = s.flags /\ t.svrdata = s.svrdata
             /\ task_in_queue(s, Peer(c)) => t.alive
<1> DEFINE p == Peer(c)
           a == conn_free(s, c)
           b == conn_free(a, p)
           x == [a EXCEPT !.task[p] = "DELETE"]
           y == [b EXCEPT !.alive  = FALSE, !.plref  = @ - 1,
                          !.svrref = IF s.svrdata THEN @ - 1 ELSE @]
           t == session_free(s, c)
<1>1. p \in Conn /\ p # c /\ s.fd \in [Conn -> BOOLEAN]
  BY PeerConn DEF Memory
<1>2. /\ a \in Memory /\ a.alive = s.alive /\ a.taskq = s.taskq
      /\ a.fd = [s.fd EXCEPT ![c] = FALSE]
  BY ConnFree
<1>3. /\ a.svrdata = s.svrdata /\ a.flags = s.flags
      /\ a.plref = s.plref /\ a.svrref = s.svrref
  BY ConnFreeView, ConnFreeRefs
<1>4. t = IF task_in_queue(a, p) THEN x ELSE y
  BY Zenon DEF session_free
<1> HIDE DEF a, t
<1>5. task_in_queue(a, p) <=> task_in_queue(s, p)
  BY <1>2 DEF task_in_queue
<1>6. b \in Memory
  BY <1>1, <1>2, ConnFree
<1>7. /\ b.svrdata = a.svrdata /\ b.flags = a.flags
      /\ b.plref = a.plref /\ b.svrref = a.svrref
  BY <1>1, <1>2, ConnFreeView, ConnFreeRefs
<1> HIDE DEF b, p
<1>8. CASE task_in_queue(s, p)
  <2>1. t = x
    BY <1>4, <1>5, <1>8
  <2>2. /\ x.svrdata = a.svrdata /\ x.flags = a.flags /\ x.fd = a.fd /\ x.alive = a.alive
        /\ x.plref = a.plref /\ x.svrref = a.svrref
    BY <1>2 DEF Memory
  <2> HIDE DEF x
  <2>3. ~t.fd[c]
    BY <1>1, <1>2, <2>1, <2>2
  <2>4. ~Intact(t)
    BY <1>3, <2>1, <2>2, <2>3, ConnIs DEF Intact
  <2>5. Refs(t)
    BY <1>2, <1>3, <2>1, <2>2 DEF Refs
  <2> QED  BY <1>2, <1>3, <2>1, <2>2, <2>4, <2>5 DEF t
<1>9. CASE ~task_in_queue(s, p)
  <2>1. t = y
    BY <1>4, <1>5, <1>9
  <2>2. /\ y.svrdata = b.svrdata /\ y.flags = b.flags /\ y.alive = FALSE
        /\ y.plref = b.plref - 1 /\ y.svrref = IF s.svrdata THEN b.svrref - 1 ELSE b.svrref
    BY <1>6 DEF Memory
  <2> HIDE DEF y
  <2>3. ~Intact(t)
    BY <2>1, <2>2 DEF Intact
  <2>4. Refs(t)
    BY <1>3, <1>7, <2>1, <2>2 DEF Refs
  <2> QED  BY <1>3, <1>7, <1>9, <2>1, <2>2, <2>3, <2>4 DEF t, p
<1> QED  BY <1>8, <1>9

\* conn_send_data keeps the references.
LEMMA SendRefs ==
  ASSUME NEW s \in Memory, s.alive, NEW c \in Conn, NEW kc, NEW free \in Int,
         NEW o \in SendOutcome(s, c, kc, free), Orderly(s), Refs(s), c = Server => s.svrdata
  PROVE  LET t == conn_send_data(s, c, o)
         IN  /\ t \in Memory /\ t.alive /\ t.taskq = s.taskq /\ t.svrdata = s.svrdata
             /\ Refs(t) /\ Orderly(t) /\ (o.end = "err" /\ Shut(t) => Shut(s))
<1> DEFINE t == conn_send_data(s, c, o)
<1>1. Keeps(s, t)
  BY SendOutcomeType, SendKeeps
<1>2. Sends(s, c, t) /\ (o.end = "err" => Holds(s, c, t))
  BY SendFields
<1> HIDE DEF t
<1>3. Orderly(t)
  BY <1>2, SendOrderly
<1>4. Refs(t) /\ t.svrdata = s.svrdata
  BY <1>1, <1>2 DEF Refs, Sends, Frame, Keeps
<1>5. o.end = "err" /\ Shut(t) => Shut(s)
  <2>1. \A x \in Conn : x = c \/ x = Peer(c)
    BY PeerConn, ConnIs
  <2> QED  BY <1>2, <2>1 DEF Shut, Sends, Holds
<1> QED  BY <1>1, <1>3, <1>4, <1>5 DEF t, Keeps

\* When both sides have ended, both connections are closed.
LEMMA ShutIsClosed ==
  ASSUME NEW s, NEW c \in Conn, Orderly(s), Shut(s)
  PROVE  CONN_IS_CLOSED(s, c) /\ CONN_IS_CLOSED(s, Peer(c))
<1>1. Peer(c) \in Conn /\ Peer(Peer(c)) = c
  BY PeerConn
<1>2. \A x \in {c, Peer(c)} : {"SHUTRD", "SHUTWR"} \subseteq s.flags[x]
  BY <1>1 DEF Orderly, Ends, Shut
<1> QED  BY <1>2 DEF CONN_IS_CLOSED

\* The end of a task that sent.
LEMMA ClosedRefs ==
  ASSUME NEW a \in Memory, a.alive, NEW c \in Conn, Orderly(a), Refs(a), c = Server => a.svrdata
  PROVE  LET s == ClosedCheck(a, c)
         IN  Refs(s) /\ (Intact(s) => s = a /\ ~Shut(a))
<1> DEFINE f == session_free(a, c)
           s == ClosedCheck(a, c)
<1>1. Refs(f) /\ ~Intact(f)
  BY FreeRefs
<1> HIDE DEF f
<1>2. s \in {a, f} /\ (Shut(a) => s = f)
  BY ShutIsClosed DEF ClosedCheck, f
<1> QED  BY <1>1, <1>2

LEMMA RunSendRefs ==
  ASSUME NEW u \in Memory, u.alive, NEW c \in Conn, NEW kc, NEW free \in Int,
         NEW o \in SendOutcome(u, c, kc, free), Orderly(u), Refs(u), c = Server => u.svrdata
  PROVE  LET s == RunSend(u, c, o)
         IN  /\ Refs(s) /\ (Intact(s) => Orderly(s) /\ ~Shut(s))
             /\ Intact(s) => s = conn_send_data(u, c, o)
<1> DEFINE a == conn_send_data(u, c, o)
           f == session_free(a, c)
           e == ClosedCheck(a, c)
<1>1. a \in Memory /\ a.alive /\ a.svrdata = u.svrdata /\ Refs(a) /\ Orderly(a)
  BY SendRefs
<1>2. RunSend(u, c, o) \in {f, e}
  BY DEF RunSend
<1> HIDE DEF a
<1>3. Refs(f) /\ ~Intact(f)
  BY <1>1, FreeRefs
<1>4. Refs(e) /\ (Intact(e) => e = a /\ ~Shut(a))
  BY <1>1, ClosedRefs
<1> HIDE DEF f, e
<1> QED  BY <1>1, <1>2, <1>3, <1>4 DEF a

\* A parse task deletes the session a second time only when a task of the peer
\* delayed the first deletion.
LEMMA SentForRefs ==
  ASSUME NEW t \in Memory, t.alive, NEW c \in Conn, NEW kc, NEW free \in Int,
         NEW o \in SendOutcome(t, Peer(c), kc, free), Orderly(t), Refs(t), t.svrdata,
         Shut(t) => task_in_queue(t, Peer(c)), Sound(t), ~task_in_queue(t, c)
  PROVE  LET s == SentFor(t, c, o)
         IN  /\ Refs(s) /\ (Intact(s) => Orderly(s) /\ ~Shut(s))
             /\ Intact(s) => s = conn_send_data(t, Peer(c), o)
<1> DEFINE p == Peer(c)
           a == conn_send_data(t, p, o)
           d == session_free(a, c)
           g == session_free(d, c)
           e == ClosedCheck(a, c)
           h == ClosedCheck(d, c)
<1>1. p \in Conn /\ Peer(c) = p /\ \A x \in Conn : x = c \/ x = p
  BY PeerConn, ConnIs
<1>2. SentFor(t, c, o) = IF o.end = "err" THEN h ELSE e
  BY Zenon DEF SentFor
<1>0. o \in SendOutcome(t, p, kc, free) /\ o \in SendResult(t.out[p])
  BY DEF SendOutcome
<1> HIDE DEF p
<1>3. /\ a \in Memory /\ a.alive /\ a.taskq = t.taskq /\ a.svrdata /\ Refs(a) /\ Orderly(a)
      /\ (o.end = "err" /\ Shut(a) => Shut(t))
  BY <1>0, <1>1, SendRefs
<1>10. Sound(a) /\ ~task_in_queue(a, c)
  <2>1. Keeps(t, a)
    BY <1>0, <1>1, SendKeeps
  <2>2. Sound(a)
    BY <2>1, KeepsSound
  <2> QED  BY <1>3, <2>2 DEF task_in_queue
<1> HIDE DEF a
<1>4. Refs(e) /\ (Intact(e) => e = a /\ ~Shut(a))
  BY <1>3, ClosedRefs
<1> HIDE DEF e
<1>5. CASE o.end # "err"
  BY <1>1, <1>2, <1>3, <1>4, <1>5 DEF a
<1>6. CASE o.end = "err"
  <2>1. /\ Refs(d) /\ ~Intact(d) /\ d.flags = a.flags /\ d.svrdata
        /\ task_in_queue(a, p) => d.alive
    BY <1>1, <1>3, FreeRefs
  <2>2. d \in Memory
    BY <1>10, SessionFree DEF Sound
  <2> HIDE DEF d
  <2>3. h \in {d, g} /\ (h # d => Shut(d))
    BY <1>1 DEF ClosedCheck, CONN_IS_CLOSED, Shut
  <2>4. ASSUME Shut(d) PROVE Refs(g) /\ ~Intact(g)
    <3>1. Shut(a)
      BY <2>1, <2>4 DEF Shut
    <3>2. task_in_queue(a, p)
      BY <1>1, <1>3, <1>6, <3>1 DEF task_in_queue
    <3> QED  BY <2>1, <2>2, <3>2, FreeRefs
  <2> HIDE DEF g, h
  <2> QED  BY <1>2, <1>6, <2>1, <2>3, <2>4
<1> QED  BY <1>5, <1>6

-----------------------------------------------------------------------------
(* The invariant of the references.                                        *)

InBatch(c) == \E i \in 1..Len(batch) : batch[i].fd = c

\* A session both sides of which ended hears of both of its sockets in one
\* round of the loop, and then has a task for each: the first one deletes it.
Closing ==
  /\ phase = "flush" => \A c \in Conn : w.cb[c] = "recv" /\ w.ev[c] = FD_IN
  /\ phase = "wait"  => \A c \in Conn : w.cb[c] = "recv" /\ pev[c] = FD_IN
  /\ phase = "poll"  => \A c \in Conn : task_in_queue(w, c)
                                        \/ (InBatch(c) /\ w.cb[c] = "recv")
  /\ phase = "task"  => \A c \in Conn : task_in_queue(w, c)

\* No task waits for a connection that is not read from.
Late ==
  phase = "poll" => \A c \in Conn : w.cb[Peer(c)] = "send" /\ Plain(w, c) =>
                                      ~task_in_queue(w, c)

RInv ==
  /\ Refs(w)
  /\ Intact(w) => Orderly(w) /\ Late /\ (Shut(w) => Closing)

LEMMA RInvMade ==
  ASSUME NEW s, w' = s, Refs(s), Intact(s) => Orderly(s) /\ Late' /\ (Shut(s) => Closing')
  PROVE  RInv'
<1>1. (Refs(w)' <=> Refs(s)) /\ (Intact(w)' <=> Intact(s)) /\ (Shut(w)' <=> Shut(s))
  BY DEF Refs, Intact, Shut
<1>2. Orderly(w)' <=> Orderly(s)
  BY DEF Orderly, Mute, Ends, Plain
<1> QED  BY <1>1, <1>2 DEF RInv

\* After a task, no session both sides of which ended is left.
LEMMA RanRefs ==
  ASSUME NEW s, Ran(s), Refs(s), Intact(s) => Orderly(s) /\ ~Shut(s)
  PROVE  RInv'
<1>1. w' = s /\ phase' # "poll"
  BY DEF Ran
<1>2. Late'
  BY <1>1 DEF Late
<1> QED  BY <1>1, <1>2, RInvMade

LEMMA UnlinkedOrderly ==
  ASSUME IInv, SInv, RInv, NEW c \in Conn, NEW type, Running(c, type)
  PROVE  /\ Refs(Unlinked) /\ (Intact(w) => Orderly(Unlinked) /\ Intact(Unlinked))
         /\ Intact(w) /\ Shut(w) => task_in_queue(Unlinked, Peer(c))
<1> DEFINE u == Unlinked
           q == w.taskq
           p == Peer(c)
<1>1. /\ u.alive /\ u.fd = w.fd /\ u.out = w.out /\ u.inq = w.inq
      /\ u.flags = w.flags /\ u.svrdata = w.svrdata /\ w.alive
  BY TaskFacts
<1>2. w \in Memory /\ q \in Seq(Conn) /\ q # <<>> /\ q[1] = c /\ phase = "task"
  BY DEF IInv, TypeOK, Memory, Running
<1>3. u.cb = w.cb /\ u.ssl = w.ssl /\ u.plref = w.plref /\ u.svrref = w.svrref /\ u.taskq = Tail(q)
  BY <1>2 DEF Unlinked, Memory
<1> HIDE DEF u
<1>4. Refs(u)
  BY <1>1, <1>3 DEF RInv, Refs
<1>5. ASSUME Intact(w) PROVE Orderly(u) /\ Intact(u)
  BY <1>1, <1>3, <1>5 DEF RInv, Orderly, Mute, Ends, Plain, Intact
<1>6. p \in Conn /\ p # c
  BY PeerConn
<1>7. ASSUME Intact(w), Shut(w) PROVE task_in_queue(u, p)
  <2>1. task_in_queue(w, p)
    BY <1>2, <1>6, <1>7 DEF RInv, Closing
  <2>2. PICK i \in 1..Len(q) : q[i] = p
    BY <2>1 DEF task_in_queue
  <2>3. i # 1
    BY <1>2, <1>6, <2>2
  <2>4. i - 1 \in 1..Len(Tail(q)) /\ Tail(q)[i - 1] = p
    BY <1>2, <2>2, <2>3
  <2> QED  BY <1>3, <2>4 DEF task_in_queue
<1> QED  BY <1>4, <1>5, <1>7 DEF u

LEMMA DeleteRefs ==
  ASSUME IInv, SInv, RInv, NEW c \in Conn, TaskDelete(c)
  PROVE  RInv'
<1> DEFINE u == Unlinked
           s == session_free(u, c)
<1>1. Running(c, "DELETE") /\ Ran(s)
  BY DEF TaskDelete, Freed
<1>2. Sound(u) /\ u.alive /\ (c = Server => u.svrdata)
  BY <1>1, TaskFacts
<1>3. Refs(u)
  BY <1>1, UnlinkedOrderly
<1> HIDE DEF u
<1>4. Refs(s) /\ ~Intact(s)
  BY <1>2, <1>3, FreeRefs DEF Sound
<1> HIDE DEF s
<1> QED  BY <1>1, <1>4, RanRefs

LEMMA SendTaskRefs ==
  ASSUME IInv, SInv, RInv, NEW c \in Conn, TaskSend(c)
  PROVE  RInv'
<1> DEFINE u == Unlinked
           kc == k[c]
           free == SndBuf - sndq[c]
<1>1. PICK o \in SendOutcome(u, c, kc, free) : Ran(RunSend(u, c, o))
  BY DEF TaskSend
<1>2. Running(c, "SEND")
  BY DEF TaskSend
<1>3. Sound(u) /\ u.alive /\ (c = Server => u.svrdata) /\ Intact(w)
  BY <1>2, TaskFacts
<1>4. Refs(u) /\ Orderly(u)
  BY <1>2, <1>3, UnlinkedOrderly
<1>5. free \in Int
  BY SessionAssumption DEF IInv, TypeOK
<1> HIDE DEF u, kc, free
<1> DEFINE s == RunSend(u, c, o)
<1>6. Refs(s) /\ (Intact(s) => Orderly(s) /\ ~Shut(s))
  BY <1>3, <1>4, <1>5, RunSendRefs DEF Sound
<1>7. Ran(s)
  BY <1>1
<1> HIDE DEF s
<1> QED  BY <1>6, <1>7, RanRefs

LEMMA ParseRefs ==
  ASSUME IInv, EInv, SInv, RInv, NEW c \in Conn, TaskParse(c)
  PROVE  RInv'
<1> DEFINE p == Peer(c)
           u == Unlinked
<1>1. Running(c, "PARSE")
  BY DEF TaskParse
<1>2. p \in Conn /\ Peer(p) = c /\ Peer(c) = p /\ \A x \in Conn : x = c \/ x = p
  BY PeerConn, ConnIs
<1>3. PICK f \in ForwardOutcome(w, p) :
        LET t == session_forward(session_fparse(u, c), p, f)
        IN  IF f \in {"noserver", "fail"} THEN Freed(session_free(t, c))
            ELSE \E o \in SendOutcome(t, p, Sockets(t, k)[p], SndBuf - sndq[p]) :
                   Ran(SentFor(t, c, o)) /\ Sent(t, p, o, SentFor(t, c, o))
  BY DEF TaskParse
<1>4. f \in {"noserver", "fail", "wait", "now"}
  BY DEF ForwardOutcome
<1>5. /\ Sound(u) /\ u.alive /\ (c = Server => u.svrdata) /\ Intact(w)
      /\ u.svrdata = w.svrdata /\ u.inq = w.inq /\ u.fd = w.fd
  BY <1>1, TaskFacts
<1>6. /\ Refs(u) /\ Orderly(u) /\ Intact(u) /\ Armed(u)
      /\ Shut(w) => task_in_queue(u, p)
  BY <1>1, <1>5, UnlinkedOrderly, UnlinkedArmed
<1>7. ~u.svrdata => u.inq[Server] = <<>> /\ ~u.fd[Server]
  BY <1>5, ConnIs DEF SInv, Base
<1> DEFINE t == session_forward(session_fparse(u, c), p, f)
<1>8. /\ Sound(t) /\ t.alive /\ ~task_in_queue(t, c)
      /\ t.fd[Server] => t.svrdata
      /\ c = Server => t.svrdata
      /\ t.fd[c] /\ (f \in {"wait", "now"} => t.fd[Peer(c)])
      /\ \A y \in Conn : "SHUTWR" \in t.flags[y] <=> "SHUTWR" \in w.flags[y]
  BY <1>1, <1>4, ForwardFacts
<1> HIDE DEF u
<1>9. t.taskq = u.taskq
  BY <1>4, <1>5, ParsedSound
<1>10. Refs(t) /\ (f \in {"wait", "now"} => Orderly(t))
  BY <1>4, <1>5, <1>6, <1>7, ParsedOrderly
<1> HIDE DEF t
<1>11. CASE f \in {"noserver", "fail"}
  <2> DEFINE s == session_free(t, c)
  <2>1. Ran(s)
    BY <1>3, <1>11 DEF t, Freed
  <2>2. Refs(s) /\ ~Intact(s)
    BY <1>8, <1>10, FreeRefs DEF Sound
  <2> HIDE DEF s
  <2> QED  BY <2>1, <2>2, RanRefs
<1>12. CASE f \notin {"noserver", "fail"}
  <2> DEFINE kc == Sockets(t, k)[p]
             free == SndBuf - sndq[p]
  <2>1. PICK o \in SendOutcome(t, p, kc, free) : Ran(SentFor(t, c, o))
    BY <1>3, <1>12 DEF t
  <2>2. free \in Int
    BY <1>2, SessionAssumption DEF IInv, TypeOK
  <2> HIDE DEF kc, free, p
  <2>3. \A x \in Conn : t.fd[x]
    BY <1>2, <1>4, <1>8, <1>12
  <2>4. t.svrdata /\ Orderly(t)
    BY <1>4, <1>8, <1>10, <1>12, <2>3, ConnIs
  <2>5. Shut(t) => task_in_queue(t, Peer(c))
    <3>1. Shut(t) => Shut(w)
      BY <1>8 DEF Shut
    <3> QED  BY <1>2, <1>6, <1>9, <3>1 DEF task_in_queue
  <2> DEFINE s == SentFor(t, c, o)
  <2>6. o \in SendOutcome(t, Peer(c), kc, free)
    BY <1>2, <2>1
  <2>7. Refs(s) /\ (Intact(s) => Orderly(s) /\ ~Shut(s))
    BY <1>8, <1>10, <2>2, <2>4, <2>5, <2>6, SentForRefs DEF Sound
  <2>8. Ran(s)
    BY <2>1
  <2> HIDE DEF s
  <2> QED  BY <2>7, <2>8, RanRefs
<1> QED  BY <1>11, <1>12

\* A callback links no task but that of its own connection, and takes its
\* event off the batch.
LEMMA CallbackQueue ==
  ASSUME IInv, NEW c \in Conn, Dispatch(c), NEW s, Called(s), Links(w, c, s)
  PROVE  /\ \A x \in Conn : /\ task_in_queue(w, x) => task_in_queue(s, x)
                            /\ task_in_queue(s, x) => task_in_queue(w, x) \/ x = c
         /\ \A x \in Conn : InBatch(x) => x = c \/ InBatch(x)'
         /\ batch' # <<>> => InBatch(Peer(c))
         /\ (\E x \in Conn : InBatch(x)') => batch' # <<>>
<1> DEFINE q == w.taskq
           r == Append(q, c)
<1>1. q \in Seq(Conn) /\ (s.taskq = q \/ s.taskq = r)
  BY DEF Links, IInv, Sound, Memory
<1>2. \A x \in Conn : /\ task_in_queue(w, x) => task_in_queue(s, x)
                      /\ task_in_queue(s, x) => task_in_queue(w, x) \/ x = c
  <2> HIDE DEF q
  <2>1. /\ \A i \in 1..Len(q) : i \in 1..Len(r) /\ r[i] = q[i]
        /\ \A i \in 1..Len(r) : (i \in 1..Len(q) /\ r[i] = q[i]) \/ r[i] = c
    BY <1>1
  <2> HIDE DEF r
  <2> QED  BY <1>1, <2>1, Zenon DEF task_in_queue, q
<1>3. batch \in Seq(Event) /\ batch # <<>> /\ batch[1].fd = c /\ batch' = Tail(batch)
  BY DEF Dispatch, IInv, TypeOK, Called
<1>4. /\ 1 \in 1..Len(batch) /\ Len(batch) \in Nat
      /\ \A i \in 1..Len(batch) : i # 1 => /\ i - 1 \in 1..Len(batch')
                                           /\ batch'[i - 1] = batch[i]
  BY <1>3
<1>5. ASSUME NEW x \in Conn, InBatch(x) PROVE x = c \/ InBatch(x)'
  <2>1. PICK i \in 1..Len(batch) : batch[i].fd = x
    BY <1>5 DEF InBatch
  <2>2. CASE i = 1
    BY <1>3, <2>1, <2>2
  <2>3. CASE i # 1
    <3>1. i - 1 \in 1..Len(batch') /\ batch'[i - 1].fd = x
      BY <1>4, <2>1, <2>3
    <3> QED  BY <3>1 DEF InBatch
  <2> QED  BY <2>2, <2>3
<1>6. ASSUME batch' # <<>> PROVE InBatch(Peer(c))
  <2>1. 2 \in 1..Len(batch) /\ 2 # 1
    <3> DEFINE b == batch
               t == Tail(b)
    <3>1. b \in Seq(Event) /\ b # <<>> /\ t # <<>>
      BY <1>3, <1>6
    <3> HIDE DEF b
    <3>2. t \in Seq(Event) /\ Len(t) = Len(b) - 1 /\ Len(b) \in Nat
      BY <3>1
    <3>3. Len(t) # 0
      <4> HIDE DEF t
      <4> QED  BY <3>1, <3>2, EmptySeq
    <3> HIDE DEF t
    <3>4. 2 \in 1..Len(b)
      BY <3>2, <3>3
    <3> QED  BY <3>4 DEF b
  <2>2. batch[2].fd \in Conn \union {LFD}
    <3>1. batch[2] \in Event
      BY <1>3, <2>1
    <3> QED  BY <3>1 DEF Event
  <2>3. batch[2].fd # c
    BY <1>3, <1>4, <2>1 DEF IInv, BatchOK
  <2>4. batch[2].fd # LFD
    <3>1. w.alive
      BY <1>3, <1>4 DEF IInv, BatchOK
    <3> QED  BY <2>1, <3>1 DEF IInv, BatchOK
  <2>5. batch[2].fd = Peer(c)
    <3>1. \A x \in Conn : x = c \/ x = Peer(c)
      BY PeerConn, ConnIs
    <3> QED  BY <2>2, <2>3, <2>4, <3>1
  <2> QED  BY <2>1, <2>5 DEF InBatch
<1>7. (\E x \in Conn : InBatch(x)') => batch' # <<>>
  <2> SUFFICES ASSUME batch' = <<>>, NEW x \in Conn, InBatch(x)' PROVE FALSE
    OBVIOUS
  <2>1. Len(batch') = 0
    OBVIOUS
  <2> QED  BY <2>1 DEF InBatch
<1> QED  BY <1>2, <1>5, <1>6, <1>7

\* A callback of c other than for sending.
LEMMA CallbackRefs ==
  ASSUME IInv, EInv, SInv, RInv, NEW c \in Conn, Dispatch(c), NEW s, Called(s),
         Links(w, c, s), Marks(w, c, s),
         s.svrdata = w.svrdata, s.out = w.out, s.inq[Peer(c)] = w.inq[Peer(c)],
         w.cb[c] \notin {"send", "NULL"}, s.cb[c] # "send",
         "HSK" \in s.flags[c] => s.cb[c] = w.cb[c] /\ s.inq[c] = w.inq[c],
         Plain(w, c) => Plain(s, c),
         Plain(s, c) => \/ Plain(w, c) \/ "HSK" \in w.flags[c]
                        \/ (s.cb[c] = "NULL" /\ s.taskq = w.taskq),
         w.cb[c] = "recv" => task_in_queue(s, c)
  PROVE  RInv'
<1> DEFINE p == Peer(c)
<1>1. /\ p \in Conn /\ p # c /\ Peer(p) = c /\ Peer(c) = p /\ \A x \in Conn : x = c \/ x = p
  BY PeerConn, ConnIs
<1>2. ~task_in_queue(w, c) /\ Intact(w)
  BY CallbackFacts
<1>3. Orderly(w) /\ Late /\ (Shut(w) => Closing) /\ Armed(w) /\ Refs(w)
  BY <1>2 DEF RInv, EInv
<1>4. Orderly(s) /\ (s.cb[p] = "send" /\ Plain(s, c) => s.taskq = w.taskq)
  BY <1>3, CallbackOrderly
<1>5. /\ \A x \in Conn : /\ task_in_queue(w, x) => task_in_queue(s, x)
                         /\ task_in_queue(s, x) => task_in_queue(w, x) \/ x = c
      /\ \A x \in Conn : InBatch(x) => x = c \/ InBatch(x)'
      /\ (\E x \in Conn : InBatch(x)') => batch' # <<>>
  BY CallbackQueue
<1>6. phase = "poll" /\ w' = s /\ phase' = IF batch' # <<>> THEN "poll"
                                           ELSE IF s.taskq # <<>> THEN "task" ELSE "flush"
  BY DEF Dispatch, Called
<1> HIDE DEF p
<1>7. /\ s.plref = w.plref /\ s.svrref = w.svrref /\ s.alive = w.alive
      /\ s.cb[p] = w.cb[p] /\ s.flags[p] = w.flags[p]
      /\ "SHUTWR" \in s.flags[c] <=> "SHUTWR" \in w.flags[c]
  BY <1>1 DEF Marks, Links
<1>8. Refs(s)
  BY <1>3, <1>7 DEF Refs
<1>9. Late'
  <2>1. \A x \in Conn : s.cb[Peer(x)] = "send" /\ Plain(s, x) => ~task_in_queue(s, x)
    <3> SUFFICES ASSUME NEW x \in Conn, s.cb[Peer(x)] = "send", Plain(s, x)
                 PROVE  ~task_in_queue(s, x)
      OBVIOUS
    <3>1. x = c
      BY <1>1
    <3> QED  BY <1>1, <1>2, <1>4, <3>1 DEF task_in_queue
  <2> QED  BY <1>6, <2>1 DEF Late, Plain, task_in_queue
<1>10. ASSUME Shut(s) PROVE Closing'
  <2>1. Shut(w)
    BY <1>1, <1>7, <1>10 DEF Shut
  <2>2. \A x \in Conn : task_in_queue(w, x) \/ (InBatch(x) /\ w.cb[x] = "recv")
    BY <1>3, <1>6, <2>1 DEF Closing
  <2>3. task_in_queue(s, c)
    BY <1>2, <2>2
  <2>4. task_in_queue(s, p) \/ (InBatch(p)' /\ s.cb[p] = "recv")
    BY <1>1, <1>5, <1>7, <2>2
  <2>5. \A x \in Conn : task_in_queue(s, x) \/ (InBatch(x)' /\ s.cb[x] = "recv")
    BY <1>1, <2>3, <2>4
  <2>6. batch' = <<>> => \A x \in Conn : task_in_queue(s, x)
    BY <1>5, <2>5
  <2>7. s.taskq # <<>>
    BY <2>3 DEF task_in_queue
  <2>8. phase' \in {"poll", "task"} /\ (phase' = "task" => batch' = <<>>)
    BY <1>6, <2>7
  <2>9. \A x \in Conn : task_in_queue(w, x)' <=> task_in_queue(s, x)
    BY <1>6 DEF task_in_queue
  <2> QED  BY <1>6, <2>5, <2>6, <2>8, <2>9 DEF Closing
<1> QED  BY <1>4, <1>6, <1>8, <1>9, <1>10, RInvMade

LEMMA RecvRefs ==
  ASSUME IInv, EInv, SInv, RInv, NEW c \in Conn, RecvCallback(c)
  PROVE  RInv'
<1> DEFINE mask == batch[1].mask
<1>1. PICK r \in RecvOutcome(w, k[c], c) : Called(conn_recv_data(w, c, mask, r))
  BY DEF RecvCallback
<1>2. Dispatch(c) /\ w \in Memory /\ k[c] \in Socket /\ w.cb[c] = "recv"
  BY DEF RecvCallback, IInv, TypeOK
<1>3. w.inq[c] = <<>> /\ Intact(w)
  BY <1>2, CallbackFacts
<1> DEFINE s == conn_recv_data(w, c, mask, r)
           ends == r.closed \/ "RDHUP" \in mask
<1> HIDE DEF mask
<1>4. Links(w, c, s)
  BY <1>2, RecvLinks
<1>5. Stays(w, c, s) /\ s.cb[c] \in {w.cb[c], "shutdown", "NULL"}
  BY <1>2, RecvMarks
<1>6. Reads(w, c, s, ends) /\ task_in_queue(s, c)
  BY <1>2, <1>3, RecvView
<1>7. Called(s)
  BY <1>1
<1> HIDE DEF s, ends
<1>8. s.svrdata = w.svrdata /\ s.out = w.out /\ s.inq[Peer(c)] = w.inq[Peer(c)]
  BY <1>6 DEF Reads
<1>9. "HSK" \notin w.flags[c]
  BY <1>2, <1>3, ConnIs DEF RInv, Orderly, Mute
<1>10. Marks(w, c, s) /\ s.ssl = w.ssl /\ "HSK" \notin s.flags[c]
  BY <1>5, <1>9 DEF Stays, Marks
<1>11. Plain(s, c) <=> Plain(w, c)
  BY <1>9, <1>10 DEF Plain
<1> QED  BY <1>2, <1>4, <1>5, <1>6, <1>7, <1>8, <1>10, <1>11, CallbackRefs

LEMMA HandshakeRefs ==
  ASSUME IInv, EInv, SInv, RInv, NEW c \in Conn, HandshakeCallback(c)
  PROVE  RInv'
<1>1. PICK h \in HandshakeResult(w, k[c], c) :
        Called(conn_handshake(w, c, batch[1].mask, k[c], h))
  BY DEF HandshakeCallback
<1>2. Dispatch(c) /\ w \in Memory /\ w.cb[c] = "handshake"
  BY DEF HandshakeCallback, IInv, TypeOK
<1> DEFINE s == conn_handshake(w, c, batch[1].mask, k[c], h)
<1>3. Links(w, c, s) /\ AlikeBut(w, c, s)
  BY <1>2, HandshakeLinks, HandshakeView
<1>4. /\ Marks(w, c, s) /\ s.ssl = w.ssl
      /\ s.cb[c] \in {w.cb[c], "recv", "handshake"}
      /\ "HSK" \in s.flags[c] => s.cb[c] = w.cb[c]
  BY <1>2, HandshakeMarks
<1>5. Called(s)
  BY <1>1
<1> HIDE DEF s
<1>6. s.svrdata = w.svrdata /\ s.out = w.out /\ s.inq = w.inq
  BY <1>3 DEF AlikeBut
<1>7. /\ Plain(w, c) => Plain(s, c)
      /\ Plain(s, c) => Plain(w, c) \/ "HSK" \in w.flags[c]
  BY <1>4 DEF Plain, Marks
<1> QED  BY <1>2, <1>3, <1>4, <1>5, <1>6, <1>7, CallbackRefs

LEMMA ShutdownRefs ==
  ASSUME IInv, EInv, SInv, RInv, NEW c \in Conn, ShutdownCallback(c)
  PROVE  RInv'
<1>1. PICK z \in ShutdownResult(w, k[c], c) :
        Called(conn_shutdown(w, c, batch[1].mask, z))
  BY DEF ShutdownCallback
<1>2. Dispatch(c) /\ w \in Memory /\ w.cb[c] = "shutdown"
  BY DEF ShutdownCallback, IInv, TypeOK
<1>3. Intact(w)
  BY <1>2, CallbackFacts
<1> DEFINE s == conn_shutdown(w, c, batch[1].mask, z)
<1>4. Links(w, c, s) /\ AlikeBut(w, c, s)
  BY <1>2, ShutdownLinks, ShutdownView
<1>5. /\ Marks(w, c, s) /\ s.cb[c] \in {w.cb[c], "NULL", "handshake"}
      /\ "HSK" \in w.flags[c] => "HSK" \in s.flags[c]
      /\ \/ s.ssl = w.ssl
         \/ s.ssl[c] = "NULL" /\ s.cb[c] = "NULL" /\ s.taskq = w.taskq
  BY <1>2, ShutdownMarks
<1>6. Called(s)
  BY <1>1
<1> HIDE DEF s
<1>7. s.svrdata = w.svrdata /\ s.out = w.out /\ s.inq = w.inq
  BY <1>4 DEF AlikeBut
<1>8. "HSK" \notin w.flags[c]
  BY <1>2, <1>3, ConnIs DEF RInv, Orderly, Mute
<1>9. "HSK" \notin s.flags[c]
  BY <1>5, <1>8 DEF Marks
<1>10. /\ Plain(w, c) => Plain(s, c)
       /\ Plain(s, c) => Plain(w, c) \/ (s.cb[c] = "NULL" /\ s.taskq = w.taskq)
  BY <1>5, <1>8, <1>9 DEF Plain
<1> QED  BY <1>2, <1>4, <1>5, <1>6, <1>7, <1>9, <1>10, CallbackRefs

LEMMA SendEventFields ==
  ASSUME NEW s \in Memory, NEW c \in Conn, NEW kc, NEW free \in Int,
         NEW o \in SendOutcome(s, c, kc, free)
  PROVE  LET a == conn_send_data(s, c, o)
             t == SendEvent(s, c, o)
         IN  /\ t.cb = a.cb /\ t.ev = a.ev /\ t.ssl = a.ssl /\ t.flags = a.flags
             /\ t.plref = a.plref /\ t.svrref = a.svrref
             /\ o.end # "err" => t.taskq = s.taskq
<1> DEFINE a == conn_send_data(s, c, o)
           b == AddTaskAlways(a, c, "DELETE")
           t == SendEvent(s, c, o)
<1>1. Keeps(s, a)
  BY SendOutcomeType, SendKeeps
<1>2. t = IF o.end = "err" THEN b ELSE a
  BY DEF SendEvent
<1> HIDE DEF a, t
<1>3. a \in Memory /\ a.taskq = s.taskq
  BY <1>1 DEF Keeps
<1>4. /\ b.cb = a.cb /\ b.ev = a.ev /\ b.ssl = a.ssl /\ b.flags = a.flags
      /\ b.plref = a.plref /\ b.svrref = a.svrref
  BY <1>3 DEF AddTaskAlways, Memory
<1> HIDE DEF b
<1> QED  BY <1>2, <1>3, <1>4 DEF a, t

\* When a connection that waited to send ends the second side, nothing else
\* waits in this round, and both connections are read from again.
LEMMA SendRefsCallback ==
  ASSUME IInv, EInv, SInv, RInv, NEW c \in Conn, SendCallback(c)
  PROVE  RInv'
<1> DEFINE p == Peer(c)
           kc == k[c]
           free == SndBuf - sndq[c]
<1>1. PICK o \in SendOutcome(w, c, kc, free) : Called(SendEvent(w, c, o))
  BY DEF SendCallback
<1>2. Dispatch(c) /\ w \in Memory /\ w.cb[c] = "send"
  BY DEF SendCallback, IInv, TypeOK
<1>3. free \in Int
  BY SessionAssumption DEF IInv, TypeOK
<1>4. ~task_in_queue(w, c) /\ Intact(w) /\ w.alive /\ (c = Server => w.svrdata)
  BY <1>2, CallbackFacts DEF SInv, Base
<1>5. /\ p \in Conn /\ p # c /\ Peer(p) = c /\ Peer(c) = p /\ \A x \in Conn : x = c \/ x = p
  BY PeerConn, ConnIs
<1> DEFINE a == conn_send_data(w, c, o)
           s == SendEvent(w, c, o)
<1> HIDE DEF kc, free, p
<1>6. Orderly(w) /\ Late /\ (Shut(w) => Closing) /\ Refs(w) /\ Armed(w)
  BY <1>4 DEF RInv, EInv
<1>7. Sends(w, c, a) /\ (o.end = "err" => Holds(w, c, a))
  BY <1>2, <1>3, SendFields
<1>8. /\ a \in Memory /\ a.alive /\ a.svrdata = w.svrdata /\ Refs(a) /\ Orderly(a)
  BY <1>2, <1>3, <1>4, <1>6, SendRefs
<1>9. /\ Links(w, c, s) /\ s.out = a.out /\ s.inq = w.inq /\ s.svrdata = w.svrdata
  BY <1>2, <1>3, SendEventView
<1>10. /\ s.cb = a.cb /\ s.ev = a.ev /\ s.ssl = a.ssl /\ s.flags = a.flags
       /\ s.plref = a.plref /\ s.svrref = a.svrref
       /\ o.end # "err" => s.taskq = w.taskq
  BY <1>2, <1>3, SendEventFields
<1>11. Called(s)
  BY <1>1
<1> HIDE DEF a, s
<1>12. /\ s.alive /\ a.inq = w.inq /\ a.ssl = w.ssl /\ a.flags[p] = w.flags[p]
       /\ "HSK" \in a.flags[c] <=> "HSK" \in w.flags[c]
       /\ Holds(w, c, a) \/ Stalls(w, c, a) \/ Drains(w, c, a)
  BY <1>4, <1>5, <1>7, <1>9 DEF Sends, Frame, Links
<1>13. Orderly(s) /\ Refs(s)
  BY <1>8, <1>9, <1>10, <1>12 DEF Orderly, Mute, Ends, Plain, Refs
<1>14. /\ \A x \in Conn : task_in_queue(s, x) => task_in_queue(w, x) \/ x = c
       /\ batch' # <<>> => InBatch(p)
  BY <1>2, <1>5, <1>9, <1>11, CallbackQueue
<1>15. phase = "poll" /\ w' = s /\ phase' = IF batch' # <<>> THEN "poll"
                                            ELSE IF s.taskq # <<>> THEN "task" ELSE "flush"
  BY <1>2, <1>11 DEF Dispatch, Called
<1>16. "BLOCKED" \in w.flags[c]
  BY <1>2, <1>6 DEF Armed
<1>17. Plain(w, p) => w.cb[p] = "NULL" /\ ~task_in_queue(w, p)
  BY <1>2, <1>5, <1>6, <1>15 DEF Orderly, Ends, Late
<1>18. w.cb[p] = "send" => ~Plain(w, c)
  BY <1>2, <1>5, <1>6 DEF Orderly, Ends
<1>19. Late'
  <2>1. \A x \in Conn : s.cb[Peer(x)] = "send" /\ Plain(s, x) => ~task_in_queue(s, x)
    <3>1. s.cb[p] = "send" => ~Plain(s, c)
      <4>1. Plain(s, c) <=> Plain(w, c)
        BY <1>10, <1>12 DEF Plain
      <4>2. s.cb[p] = "send" => w.cb[p] = "send"
        BY <1>5, <1>10, <1>12, <1>16 DEF Holds, Stalls, Drains
      <4> QED  BY <1>18, <4>1, <4>2
    <3>2. Plain(s, p) => ~task_in_queue(s, p)
      <4>1. Plain(s, p) <=> Plain(w, p)
        BY <1>10, <1>12 DEF Plain
      <4> QED  BY <1>5, <1>14, <1>17, <4>1
    <3> QED  BY <1>5, <3>1, <3>2
  <2> QED  BY <1>15, <2>1 DEF Late, Plain, task_in_queue
<1>20. ASSUME Shut(s) PROVE Closing'
  <2>1. ~Shut(w)
    BY <1>2, <1>4, <1>6, <1>15 DEF Closing
  <2>2. "SHUTWR" \in w.flags[p] /\ "SHUTWR" \notin w.flags[c] /\ "SHUTWR" \in a.flags[c]
    BY <1>5, <1>10, <1>12, <1>20, <2>1 DEF Shut
  <2>3. w.cb[p] = "NULL" /\ ~task_in_queue(w, p)
    BY <1>5, <1>6, <1>17, <2>2 DEF Orderly, Ends
  <2>4. ~Holds(w, c, a) /\ ~Stalls(w, c, a)
    BY <2>2 DEF Holds, Stalls
  <2>5. /\ a.cb[c] = "recv" /\ a.cb[p] = "recv" /\ a.ev[c] = FD_IN /\ a.ev[p] = FD_IN
    BY <1>5, <1>12, <1>16, <2>2, <2>4 DEF Drains
  <2>6. o.end # "err"
    BY <1>7, <2>4
  <2>7. batch' = <<>>
    <3>1. ~InBatch(p)
      BY <1>5, <2>3 DEF EInv, Heard, InBatch
    <3> QED  BY <1>14, <3>1
  <2>8. s.taskq = <<>>
    <3>1. w.taskq \in Seq(Conn)
      BY <1>2 DEF Memory
    <3>2. \A i \in 1..Len(w.taskq) : w.taskq[i] \notin Conn
      BY <1>4, <1>5, <2>3 DEF task_in_queue
    <3>3. \A i \in 1..Len(w.taskq) : w.taskq[i] \in Conn
      BY <3>1
    <3>4. ~(1 \in 1..Len(w.taskq))
      BY <3>2, <3>3
    <3>5. w.taskq = <<>>
      BY <3>1, <3>4
    <3> QED  BY <1>10, <2>6, <3>5
  <2>9. phase' = "flush"
    BY <1>15, <2>7, <2>8
  <2>10. \A x \in Conn : s.cb[x] = "recv" /\ s.ev[x] = FD_IN
    BY <1>5, <1>10, <2>5
  <2> QED  BY <1>15, <2>9, <2>10 DEF Closing, FD_IN
<1> QED  BY <1>13, <1>15, <1>19, <1>20, RInvMade

LEMMA FlushRefs ==
  ASSUME IInv, SInv, RInv, fd_epoll_flush_events
  PROVE  RInv'
<1>1. /\ phase = "flush" /\ phase' = "wait" /\ w' = w
      /\ pev' = [c \in Conn |-> IF w.fd[c] THEN w.ev[c] ELSE {}]
  BY DEF fd_epoll_flush_events
<1>2. Late'
  BY <1>1 DEF Late
<1>3. ASSUME Intact(w), Shut(w) PROVE Closing'
  <2>1. \A c \in Conn : w.cb[c] = "recv" /\ w.ev[c] = FD_IN
    BY <1>1, <1>3 DEF RInv, Closing
  <2>2. w.svrdata
    BY <1>3, ConnIs DEF RInv, Orderly, Mute, Shut
  <2>3. \A c \in Conn : w.fd[c]
    BY <1>3, <2>2, ConnIs DEF Intact
  <2>4. \A c \in Conn : pev'[c] = FD_IN
    BY <1>1, <2>1, <2>3
  <2> QED  BY <1>1, <2>1, <2>4 DEF Closing, FD_IN
<1>4. Refs(w) /\ (Intact(w) => Orderly(w))
  BY DEF RInv
<1> QED  BY <1>1, <1>2, <1>3, <1>4, RInvMade

LEMMA ConnTwo == IsFiniteSet(Conn) /\ Cardinality(Conn) = 2
<1>1. Conn = {Client} \union {Server} /\ Client # Server
  BY DEF Conn, Client, Server
<1>2. /\ IsFiniteSet({Client}) /\ Cardinality({Client}) = 1
      /\ IsFiniteSet({Server}) /\ Cardinality({Server}) = 1
  BY FS_Singleton
<1>3. {Client} \cap {Server} = {}
  BY <1>1
<1>4. /\ IsFiniteSet({Client} \union {Server})
      /\ Cardinality({Client} \union {Server})
           = Cardinality({Client}) + Cardinality({Server}) - Cardinality({Client} \cap {Server})
  BY <1>2, FS_Union
<1>5. Cardinality({}) = 0
  BY FS_EmptySet
<1> QED  BY <1>1, <1>2, <1>3, <1>4, <1>5

\* epoll_wait reports both sockets of a session both sides of which ended.
LEMMA WaitRefs ==
  ASSUME IInv, SInv, RInv, epoll_wait, MaxWait >= 2
  PROVE  RInv'
<1>1. phase = "wait" /\ w' = w /\ w.taskq = <<>>
  BY DEF epoll_wait, IInv, PhaseOK
<1>2. Late'
  <2>1. \A c \in Conn : ~task_in_queue(w, c)
    BY <1>1 DEF task_in_queue
  <2> QED  BY <1>1, <2>1 DEF Late, task_in_queue
<1>3. ASSUME Intact(w), Shut(w) PROVE Closing'
  <2>1. \A c \in Conn : w.cb[c] = "recv" /\ pev[c] = FD_IN
    BY <1>1, <1>3 DEF RInv, Closing
  <2>2. w.svrdata /\ Orderly(w) /\ w.alive
    BY <1>3, ConnIs DEF RInv, Orderly, Mute, Shut, Intact
  <2>3. \A c \in Conn : w.fd[c]
    BY <1>3, <2>2, ConnIs DEF Intact
  <2>4. \A c \in Conn : k[c].fin \/ k[c].rst
    <3> SUFFICES ASSUME NEW c \in Conn PROVE k[c].fin \/ k[c].rst
      OBVIOUS
    <3>1. Peer(c) \in Conn /\ Peer(Peer(c)) = c
      BY PeerConn
    <3>2. "SHUTRD" \in w.flags[c]
      BY <1>3, <2>2, <3>1 DEF Orderly, Ends, Shut
    <3> QED  BY <2>3, <3>2 DEF SInv, Net
  <2>5. \A c \in Conn : Events(c, pev[c]) # {}
    <3> SUFFICES ASSUME NEW c \in Conn PROVE "RDHUP" \in Events(c, pev[c])
      OBVIOUS
    <3>1. pev[c] = {"IN", "RDHUP"} /\ (k[c].fin \/ k[c].rst)
      BY <2>1, <2>4 DEF FD_IN
    <3> QED  BY <3>1 DEF Events, Mask
  <2> DEFINE ready == {c \in Conn : Events(c, pev[c]) # {}}
             size  == IF Cardinality(ready) < MaxWait THEN Cardinality(ready)
                      ELSE MaxWait
  <2>6. ready = Conn
    BY <2>5
  <2>7. size = 2
    BY <2>6, ConnTwo, SessionAssumption
  <2>8. PICK b \in Injection(1..size, ready) :
          /\ batch' = [i \in 1..size |->
                         [fd |-> b[i], mask |-> Events(b[i], pev[b[i]])]]
          /\ phase' = IF ready = {} THEN "flush" ELSE "poll"
    BY <2>2 DEF epoll_wait
  <2>9. b \in [1..size -> ready] /\ \A i, j \in 1..size : b[i] = b[j] => i = j
    BY DEF Injection, IsInjective
  <2> HIDE DEF ready, size
  <2>10. phase' = "poll"
    BY <2>6, <2>8, ConnIs
  <2>11. Len(batch') = 2 /\ \A i \in 1..2 : batch'[i].fd = b[i]
    BY <2>7, <2>8
  <2>12. b[1] \in Conn /\ b[2] \in Conn /\ b[1] # b[2]
    BY <2>6, <2>7, <2>9
  <2>13. \A c \in Conn : c = b[1] \/ c = b[2]
    BY <2>12, ConnIs
  <2>14. \A c \in Conn : InBatch(c)'
    <3> SUFFICES ASSUME NEW c \in Conn PROVE \E i \in 1..Len(batch') : batch'[i].fd = c
      BY DEF InBatch
    <3>1. 1 \in 1..Len(batch') /\ 2 \in 1..Len(batch') /\ batch'[1].fd = b[1] /\ batch'[2].fd = b[2]
      BY <2>11
    <3> QED  BY <2>13, <3>1
  <2> QED  BY <1>1, <2>1, <2>10, <2>14 DEF Closing
<1>4. Refs(w) /\ (Intact(w) => Orderly(w))
  BY DEF RInv
<1> QED  BY <1>1, <1>2, <1>3, <1>4, RInvMade

LEMMA AcceptFields ==
  ASSUME NEW s, Sound(s), ~s.alive
  PROVE  LET t == _ltn_accept(s)
         IN  /\ t.plref = s.plref + 1 /\ t.svrref = s.svrref
             /\ \A c \in Conn : t.flags[c] \subseteq {"SSLHSK"} /\ t.cb[c] # "send"
<1> DEFINE cb == IF Client \in SSLConn THEN "handshake" ELSE "recv"
           i == session_init(s)
           n == AddEvent(i, Client, FD_IN, cb)
           a == [n EXCEPT !.alive = TRUE, !.fd[Client] = TRUE, !.plref = @ + 1]
           x == [a EXCEPT !.ssl[Client] = "fd", !.nssl = @ + 1, !.flags[Client] = {"SSLHSK"}]
<1>1. s.plref \in Int /\ s.svrref \in Int /\ s.nssl \in Int /\ Client \in Conn
  BY DEF Sound, Memory, Conn
<1>2. i = Slot(0, <<>>, s.plref, s.svrref, s.nssl)
  BY DEF session_init, Sound
<1>3. i \in Memory
  <2>1. Sound(Slot(0, <<>>, s.plref, s.svrref, s.nssl))
    BY <1>1, SlotSound
  <2>2. Sound(i)
    BY <1>2, <2>1, Zenon
  <2> HIDE DEF i
  <2> QED  BY <2>2 DEF Sound
<1>4. /\ i.plref = s.plref /\ i.svrref = s.svrref
      /\ i.cb = [c \in Conn |-> "NULL"] /\ i.flags = [c \in Conn |-> {}]
  BY <1>2 DEF Slot
<1> HIDE DEF i
<1>5. cb \in Callback /\ cb # "send"
  BY DEF Callback
<1> HIDE DEF cb
<1>6. n \in Memory
  BY <1>1, <1>3, <1>5, AddEventKeeps, HandlerConstants DEF Keeps
<1>7. /\ Frame(i, n) /\ n.flags = i.flags /\ n.cb[Client] = cb
      /\ \A d \in Conn \ {Client} : n.cb[d] = i.cb[d]
  BY <1>1, <1>3, FrameEvent
<1> HIDE DEF n
<1>8. /\ n.plref = s.plref /\ n.svrref = s.svrref /\ n.flags = [c \in Conn |-> {}]
      /\ \A c \in Conn : n.cb[c] # "send"
  BY <1>4, <1>5, <1>7 DEF Frame
<1>9. a.plref = n.plref + 1 /\ a.svrref = n.svrref /\ a.flags = n.flags /\ a.cb = n.cb
  BY <1>6 DEF Memory
<1>10. /\ x.plref = a.plref /\ x.svrref = a.svrref /\ x.cb = a.cb
       /\ x.flags = [a.flags EXCEPT ![Client] = {"SSLHSK"}]
  BY <1>6 DEF Memory
<1> HIDE DEF a, x
<1>11. _ltn_accept(s) \in {a, x}
  BY Zenon DEF _ltn_accept, n, i, cb, a, x
<1>12. \A c \in Conn : x.flags[c] = IF c = Client THEN {"SSLHSK"} ELSE {}
  BY <1>8, <1>9, <1>10
<1>13. \A t \in {a, x} :
         /\ t.plref = s.plref + 1 /\ t.svrref = s.svrref
         /\ \A c \in Conn : t.flags[c] \subseteq {"SSLHSK"} /\ t.cb[c] # "send"
  BY <1>8, <1>9, <1>10, <1>12
<1> QED  BY <1>11, <1>13

LEMMA AcceptRefs ==
  ASSUME IInv, RInv, listener_accept
  PROVE  RInv'
<1> DEFINE s == _ltn_accept(w)
<1>1. /\ Dispatch(LFD) /\ w' = s
  BY DEF listener_accept, Called
<1>2. batch \in Seq(Event) /\ batch # <<>> /\ batch[1].fd = LFD
  BY <1>1 DEF Dispatch, IInv, TypeOK
<1>3. ~w.alive /\ Sound(w)
  BY <1>2 DEF IInv, BatchOK
<1>4. s.alive
  BY <1>3, AcceptSound
<1>5. ~s.svrdata /\ \A c \in Conn : s.out[c] = <<>>
  BY <1>3, AcceptView
<1>6. /\ s.plref = w.plref + 1 /\ s.svrref = w.svrref
      /\ \A c \in Conn : s.flags[c] \subseteq {"SSLHSK"} /\ s.cb[c] # "send"
  BY <1>3, AcceptFields
<1> HIDE DEF s
<1>7. Refs(s)
  BY <1>3, <1>4, <1>5, <1>6 DEF RInv, Refs
<1>8. \A c \in Conn : /\ "HSK" \notin s.flags[c] /\ "BLOCKED" \notin s.flags[c]
                      /\ "SHUTWR" \notin s.flags[c]
  BY <1>6
<1>9. \A c \in Conn : s.cb[Peer(c)] # "send"
  BY <1>6, PeerConn
<1>10. Orderly(s)
  BY <1>5, <1>8, <1>9, ConnIs DEF Orderly, Mute, Ends
<1>11. ~Shut(s)
  BY <1>8, ConnIs DEF Shut
<1>12. Late'
  BY <1>1, <1>9 DEF Late
<1> QED  BY <1>1, <1>7, <1>10, <1>11, <1>12, RInvMade

LEMMA InitRefs ==
  ASSUME Init
  PROVE  RInv
<1>1. w.alive = FALSE /\ w.plref = 0 /\ w.svrref = 0
  BY DEF Init, NoSession, Slot
<1> QED  BY <1>1 DEF RInv, Refs, Intact

LEMMA NextRefs ==
  ASSUME IInv, EInv, SInv, RInv, [Next]_vars, MaxWait >= 2
  PROVE  RInv'
<1>1. ASSUME NEW c \in Conn,
             \/ RecvCallback(c) \/ SendCallback(c) \/ HandshakeCallback(c) \/ ShutdownCallback(c)
             \/ TaskDelete(c) \/ TaskParse(c) \/ TaskSend(c)
      PROVE  RInv'
  BY <1>1, RecvRefs, SendRefsCallback, HandshakeRefs, ShutdownRefs, DeleteRefs,
     ParseRefs, SendTaskRefs
<1>2. ASSUME UNCHANGED <<w, pev, phase, batch>> PROVE RInv'
  <2>1. Late' <=> Late
    BY <1>2 DEF Late, Plain, task_in_queue
  <2>2. Closing' <=> Closing
    BY <1>2 DEF Closing, InBatch, FD_IN, task_in_queue
  <2> QED  BY <1>2, <2>1, <2>2, RInvMade DEF RInv
<1>3. CASE Environment
  <2>1. UNCHANGED <<w, pev, phase, batch>>
    BY <1>3 DEF Environment, RemoteSend, RemoteFin, RemoteRead, RemoteReset, RemoteConnect
  <2> QED  BY <1>2, <2>1
<1>4. CASE UNCHANGED vars
  BY <1>2, <1>4 DEF vars
<1> QED  BY <1>1, <1>3, <1>4, FlushRefs, WaitRefs, AcceptRefs DEF Next, Worker

\* A live session holds exactly one reference on its policy and one on the
\* server data it chose, and a deleted one none, whatever the order in which
\* callbacks and tasks ran: session_free gives them back once, also where a
\* parse task comes to it twice, when one fd_epoll_poll may report both sockets.
THEOREM RefsHeldCorrect ==
  ASSUME MaxWait >= 2
  PROVE  Spec => []RefsHeld
<1>1. Init => RInv
  BY InitRefs
<1>2. IInv /\ EInv /\ SInv /\ RInv /\ [Next]_vars => RInv'
  BY NextRefs
<1>3. RInv => RefsHeld
  BY DEF RInv, Refs, RefsHeld
<1> QED  BY <1>1, <1>2, <1>3, SessionInv, ArmedCorrect, StreamsCorrect, PTL DEF Spec

-----------------------------------------------------------------------------
(* Back pressure.                                                          *)

LEMMA OrderlyStalls ==
  ASSUME IInv, EInv, SInv, RInv
  PROVE  StallStopsPeer
<1> SUFFICES ASSUME phase = "wait", NEW c \in Conn, w.cb[c] = "send",
                    w.ssl[Peer(c)] = "NULL", pev[Peer(c)] # {}
             PROVE  FALSE
  BY DEF StallStopsPeer
<1> DEFINE p == Peer(c)
<1>1. p \in Conn /\ p # c /\ Peer(p) = c /\ \A x \in Conn : x = c \/ x = p
  BY PeerConn, ConnIs
<1>2. w.fd[p] /\ w.cb[p] # "NULL" /\ w.taskq = <<>>
  BY <1>1 DEF IInv, PhaseOK, EInv, Heard
<1>3. w.alive
  BY <1>1, <1>2 DEF IInv, Sound
<1>4. Intact(w)
  <2>1. ASSUME NEW d \in Conn PROVE w.taskq # <<d>>
    BY <1>2
  <2> QED  BY <1>3, <2>1 DEF SInv, Base
<1>5. Orderly(w) /\ "BLOCKED" \in w.flags[c]
  BY <1>4 DEF RInv, EInv, Armed
<1>6. "HSK" \notin w.flags[p]
  <2>1. CASE p = Client
    BY <1>5, <2>1 DEF Orderly, Mute
  <2>2. CASE p = Server
    <3>1. c = Client
      BY <1>1, <2>2, ConnIs
    <3> QED  BY <1>5, <2>2, <3>1 DEF Orderly, Mute
  <2> QED  BY <1>1, <2>1, <2>2, ConnIs
<1>7. w.cb[p] = "NULL"
  BY <1>1, <1>5, <1>6 DEF Orderly, Ends, Plain
<1> QED  BY <1>2, <1>7

\* While a connection waits for room in its send buffer, the epoll_wait that
\* may report both sockets waits for nothing from its peer, unless the peer uses
\* SSL: conn_send_data takes the events of the peer away, and whatever callback or
\* task arms them again also ends the wait, in sessions of which both sides were
\* blocked too.
THEOREM StallCorrect ==
  ASSUME MaxWait >= 2
  PROVE  Spec => []StallStopsPeer
<1>1. Init => RInv
  BY InitRefs
<1>2. IInv /\ EInv /\ SInv /\ RInv /\ [Next]_vars => RInv'
  BY NextRefs
<1>3. IInv /\ EInv /\ SInv /\ RInv => StallStopsPeer
  BY OrderlyStalls
<1> QED  BY <1>1, <1>2, <1>3, SessionInv, ArmedCorrect, StreamsCorrect, PTL DEF Spec
=============================================================================
