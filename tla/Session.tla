------------------------------ MODULE Session ------------------------------
(***************************************************************************)
(* One proxied session of tproxyd as one worker thread runs it: the two    *)
(* connections of a session_t (0 the client, 1 the server), their packet   *)
(* queues, the worker's task queue, and the event registrations of the two *)
(* sockets.  The session handlers of connection.c and session.c are        *)
(* operators on the record w of everything the worker's memory holds; the  *)
(* kernel's sockets, the TLS library and the two remote programs are the   *)
(* environment (variable k).                                               *)
(*                                                                         *)
(* A session slot is used again for the next client, up to MaxSess times,  *)
(* because objpool_put does not clear what session_init does not set.      *)
(***************************************************************************)
EXTENDS Integers, Sequences, FiniteSets, SequencesExt

CONSTANTS
  SSLConn,      \* the connections that are configured to use SSL
  PktMax,       \* MAX_PKTLEN: bytes a packet holds
  SndBuf,       \* bytes a kernel send buffer holds
  NSend,        \* NSend[c]: bytes the remote program of c sends at most
  MaxSess,      \* number of clients that connect, one after the other
  MaxWait,      \* maxwait: events that one epoll_wait returns at most
  MayReset,     \* the connections whose remote program may reset
  MayFail       \* TRUE: server selection, connect and malloc may fail

Client == 0
Server == 1
Conn   == {Client, Server}
LFD    == 2                       \* the listening socket in epoll's answer

Peer(c) == (c + 1) % 2

ASSUME SessionAssumption ==
  /\ SSLConn \subseteq Conn
  /\ PktMax \in Nat \ {0}
  /\ SndBuf \in Nat \ {0}
  /\ NSend \in [Conn -> Nat]
  /\ MaxSess \in Nat
  /\ MaxWait \in Nat \ {0}
  /\ MayReset \subseteq Conn
  /\ MayFail \in BOOLEAN

FD_IN  == {"IN", "RDHUP"}
FD_OUT == {"OUT"}
Mask   == {"IN", "RDHUP", "OUT", "ERR"}

Flag     == {"ERROR", "HSK", "SSLHSK", "SHUTRD", "SHUTWR", "SSLSHUT", "BLOCKED"}
TaskType == {"NONE", "PARSE", "SEND", "DELETE"}
Callback == {"NULL", "recv", "send", "handshake", "shutdown"}

VARIABLES
  w,        \* the worker's memory: session, connections, task queue
  k,        \* the kernel's two sockets and the remote programs behind them
  sndq,     \* sndq[c]: bytes in the send buffer of c's socket
  pev,      \* pev[c]: events of c's socket registered in epoll
  phase,    \* position in _worker_loop
  batch,    \* events epoll_wait returned that are not dispatched yet
  sent,     \* sent[c]: number of bytes the remote of c sent in this session
  hung,     \* the connections whose remote hung up or broke in this session
  wrote,    \* wrote[c]: bytes the kernel accepted on c in this session
  nsess     \* sessions accepted so far

vars == <<w, k, sndq, pev, phase, batch, sent, hung, wrote, nsess>>

-----------------------------------------------------------------------------
(* Packets.  Bytes are numbered in the order the remote program sent them. *)

Packet == [data : Seq(Nat), sendpos : Nat]

PKT_INIT == [data |-> <<>>, sendpos |-> 0]

Unsent(p) == SubSeq(p.data, p.sendpos + 1, Len(p.data))

\* Bytes the first n packets of queue q still have to send, in order.
UnsentOf(q, n) == FlattenSeq([i \in 1..n |-> Unsent(q[i])])

\* Data d as n passes of the receive loop leave it, each in its own packet.
Chunks(d, n) ==
  [i \in 1..n |-> [data |-> SubSeq(d, (i - 1) * PktMax + 1,
                                   IF i = n THEN Len(d) ELSE i * PktMax),
                   sendpos |-> 0]]

NPackets(s) == Len(s.inq[Client]) + Len(s.inq[Server])
               + Len(s.mid[Client]) + Len(s.mid[Server])
               + Len(s.out[Client]) + Len(s.out[Server])

-----------------------------------------------------------------------------
(* The task queue and the event table.                                     *)

task_in_queue(s, c) == \E i \in 1..Len(s.taskq) : s.taskq[i] = c

AddTask(s, c, t) ==
  [s EXCEPT !.task[c] = t,
            !.taskq   = IF task_in_queue(s, c) THEN @ ELSE Append(@, c)]

\* conn_send_data's error path links the task even when it is linked already.
AddTaskAlways(s, c, t) ==
  [s EXCEPT !.task[c] = t, !.taskq = Append(@, c)]

AddEvent(s, c, e, cb) == [s EXCEPT !.ev[c] = e, !.cb[c] = cb]

Raise(s, c, f) == [s EXCEPT !.flags[c] = @ \union {f}]
Clear(s, c, f) == [s EXCEPT !.flags[c] = @ \ {f}]

CONN_IS_CLOSED(s, c) == {"SHUTRD", "SHUTWR"} \subseteq s.flags[c]

-----------------------------------------------------------------------------
(* Session set-up and deletion.                                            *)

\* A slot after session_init and conn_init: they do not set nalloced, which
\* keeps what the last user left.
Slot(nalloced, taskq, plref, svrref, nssl) ==
  [alive    |-> FALSE,
   fd       |-> [c \in Conn |-> FALSE],
   ssl      |-> [c \in Conn |-> "NULL"],
   inq      |-> [c \in Conn |-> <<>>],
   mid      |-> [c \in Conn |-> <<>>],     \* request, response
   out      |-> [c \in Conn |-> <<>>],
   task     |-> [c \in Conn |-> "NONE"],
   flags    |-> [c \in Conn |-> {}],
   ev       |-> [c \in Conn |-> {}],
   cb       |-> [c \in Conn |-> "NULL"],
   svrdata  |-> FALSE,
   nalloced |-> nalloced,
   taskq    |-> taskq,
   plref    |-> plref,      \* references sessions hold on the policy
   svrref   |-> svrref,     \* references sessions hold on the server data
   nssl     |-> nssl]       \* SSL objects that exist

NoSession == Slot(0, <<>>, 0, 0, 0)

session_init(s) == Slot(s.nalloced, s.taskq, s.plref, s.svrref, s.nssl)

_ltn_accept(s) ==
  LET ssl == Client \in SSLConn
      n   == AddEvent(session_init(s), Client, FD_IN,
                      IF ssl THEN "handshake" ELSE "recv")
      a   == [n EXCEPT !.alive = TRUE, !.fd[Client] = TRUE, !.plref = @ + 1]
  IN  IF ssl THEN [a EXCEPT !.ssl[Client] = "fd", !.nssl = @ + 1,
                            !.flags[Client] = {"SSLHSK"}]
      ELSE a

FreePackets(s, c) ==
  [s EXCEPT !.nalloced = @ - Len(s.inq[c]) - Len(s.out[c]),
            !.inq[c] = <<>>, !.out[c] = <<>>]

conn_free(s, c) ==
  [AddEvent(FreePackets(s, c), c, {}, "NULL")
     EXCEPT !.fd[c] = FALSE, !.task[c] = "NONE"]

\* Variant: the peer's task is linked a second time.
session_free_Relink(s, c) ==
  LET p  == Peer(c)
      s1 == conn_free(s, c)
  IN  IF task_in_queue(s1, p)
      THEN AddTaskAlways(s1, p, "DELETE")
      ELSE [conn_free(s1, p) EXCEPT
              !.alive  = FALSE,
              !.plref  = @ - 1,
              !.svrref = IF s.svrdata THEN @ - 1 ELSE @]

\* Variant: the policy is given up before the deletion is delayed.
session_free_EarlyPut(s, c) ==
  LET p  == Peer(c)
      s1 == [conn_free(s, c) EXCEPT !.plref = @ - 1]
  IN  IF task_in_queue(s1, p)
      THEN [s1 EXCEPT !.task[p] = "DELETE"]
      ELSE [conn_free(s1, p) EXCEPT
              !.alive  = FALSE,
              !.svrref = IF s.svrdata THEN @ - 1 ELSE @]

\* A queued task of the peer delays the deletion to the run of that task.
session_free(s, c) ==
  LET p  == Peer(c)
      s1 == conn_free(s, c)
  IN  IF task_in_queue(s1, p)
      THEN [s1 EXCEPT !.task[p] = "DELETE"]
      ELSE [conn_free(s1, p) EXCEPT
              !.alive  = FALSE,
              !.plref  = @ - 1,
              !.svrref = IF s.svrdata THEN @ - 1 ELSE @]

-----------------------------------------------------------------------------
(* conn_recv_data.  A result of conn_raw_recv, over all the passes that     *)
(* SSL_pending asks for: what was read, in how many passes, and whether the *)
(* remote closed.                                                          *)

RecvResult == [n : {"data", "error", "nomem"}, data : Seq(Nat), passes : Nat,
               closed : BOOLEAN]

SockOpen(kc) == kc.st = "up" /\ ~kc.rst

\* The first packet of in has room: CBLIST_GET_TAIL returns the list's head.
HasRoom(s, c) == s.inq[c] # <<>> /\ Len(s.inq[c][1].data) < PktMax

\* Bytes one pass reads at most.
Room(s, c) == IF HasRoom(s, c) THEN PktMax - Len(s.inq[c][1].data) ELSE PktMax

\* m bytes are read in n passes.
Passes(s, c, m, n) ==
  IF s.ssl[c] = "NULL" \/ HasRoom(s, c) THEN n = 1 /\ m <= Room(s, c)
  ELSE (n = 1 \/ (n - 1) * PktMax < m) /\ m <= n * PktMax

RecvOutcome(s, kc, c) ==
  {r \in [n : {"data"}, data : {SubSeq(kc.rcv, 1, m) : m \in 0..Len(kc.rcv)},
          passes : 1..(Len(kc.rcv) + 1), closed : BOOLEAN] :
     /\ SockOpen(kc)
     /\ Passes(s, c, Len(r.data), r.passes)
     /\ r.closed <=> (kc.fin /\ kc.rcv = <<>>)
     /\ r.data = <<>> => kc.rcv = <<>> /\ (s.ssl[c] # "NULL" => kc.fin)
     \* recv takes all that fits
     /\ s.ssl[c] = "NULL" => Len(r.data) = Room(s, c) \/ r.data = kc.rcv}
  \* a broken connection; for ssl_recv also a record that is incomplete
  \union {r \in [n : {"error"}, data : {<<>>}, passes : {1}, closed : {FALSE}] :
            SockOpen(kc) => s.ssl[c] # "NULL" /\ (kc.rcv = <<>> => ~kc.fin)}
  \union {r \in [n : {"nomem"}, data : {<<>>}, passes : {1}, closed : {FALSE}] :
            MayFail}

\* Variant: the passes of the SSL_pending loop are counted as one packet.
Received_CountOne(s, c, r) ==
  LET old == s.inq[c]
      new == IF r.data = <<>> THEN <<PKT_INIT>> ELSE Chunks(r.data, r.passes)
  IN  IF HasRoom(s, c)
      THEN [s EXCEPT !.inq[c] = [old EXCEPT ![1].data = @ \o r.data]]
      ELSE [s EXCEPT !.inq[c] = old \o new, !.nalloced = @ + 1]

\* Packets are taken from the pool as needed, and filled.
Received(s, c, r) ==
  LET old == s.inq[c]
      new == IF r.data = <<>> THEN <<PKT_INIT>> ELSE Chunks(r.data, r.passes)
  IN  IF HasRoom(s, c)
      THEN [s EXCEPT !.inq[c] = [old EXCEPT ![1].data = @ \o r.data]]
      ELSE [s EXCEPT !.inq[c] = old \o new, !.nalloced = @ + Len(new)]

\* The packet that got nothing is unlinked, when the read side is closed.
DropEmpty(s, c) ==
  LET q == s.inq[c]
  IN  IF q # <<>> /\ q[Len(q)].data = <<>>
      THEN [s EXCEPT !.inq[c] = SubSeq(q, 1, Len(q) - 1), !.nalloced = @ - 1]
      ELSE s

conn_recv_data(s, c, mask, r) ==
  IF "ERR" \in mask THEN AddTask(Raise(s, c, "ERROR"), c, "DELETE")
  ELSE IF r.n = "nomem" THEN AddTask(s, c, "DELETE")
  ELSE IF r.n = "error"
       THEN AddTask(Raise(Received(s, c, r), c, "ERROR"), c, "DELETE")
  ELSE LET s1 == Received(s, c, r)
           s2 == Raise(s1, c, "SHUTRD")
           s3 == IF s.ssl[c] # "NULL"
                 THEN AddEvent(Raise(s2, c, "SSLSHUT"), c, FD_OUT, "shutdown")
                 ELSE AddEvent(s2, c, {}, "NULL")
       IN  AddTask(IF r.closed \/ "RDHUP" \in mask THEN DropEmpty(s3, c) ELSE s1,
                   c, "PARSE")

-----------------------------------------------------------------------------
(* conn_send_data.  A result o of its loop says that the first o.full      *)
(* packets of out went to the kernel, then o.part bytes of the next one,   *)
(* o.bytes in all, and how the loop ended: "all", "part" (less than asked  *)
(* was taken) or "err".                                                    *)

SendResult(q) == [full : 0..Len(q), part : 0..SndBuf, bytes : 0..SndBuf,
                  end : {"all", "part", "err"}]

InHandshake(s, c) == s.flags[c] \intersect {"HSK", "SSLHSK"} # {}

\* The loop stops at packet p when the buffer has room for left bytes.
StopsAt(s, c, p, left, o) ==
  LET n == Len(Unsent(p))
  IN  /\ n = 0 \/ n > left
      /\ IF n = 0 THEN o.part = 0 /\ o.end = "err"
         \* SSL_write takes a packet or nothing, and a full buffer is no error
         ELSE IF s.ssl[c] # "NULL" THEN o.part = 0 /\ o.end = "part"
         \* sk_send takes every errno for a failure, EAGAIN too
         ELSE o.part = left /\ o.end = IF left = 0 THEN "err" ELSE "part"

SendOutcome(s, c, kc, free) ==
  LET q == s.out[c]
  IN  {o \in SendResult(q) :
         /\ o.bytes = Len(UnsentOf(q, o.full)) + o.part /\ o.bytes <= free
         /\ IF InHandshake(s, c) \/ q = <<>>
            THEN o.full = 0 /\ o.part = 0 /\ o.end = "all"
            ELSE IF ~SockOpen(kc) \/ "SHUTWR" \in s.flags[c]
            THEN o.full = 0 /\ o.part = 0 /\ o.end = "err"
            ELSE /\ \A i \in 1..o.full : Unsent(q[i]) # <<>>
                 /\ IF o.full = Len(q) THEN o.part = 0 /\ o.end = "all"
                    ELSE StopsAt(s, c, q[o.full + 1], free - o.bytes + o.part, o)}

SentBytes(s, c, o) ==
  UnsentOf(s.out[c], o.full)
    \o (IF o.part = 0 THEN <<>>
        ELSE SubSeq(Unsent(s.out[c][o.full + 1]), 1, o.part))

\* Variant: sendpos stays where it is.
Consume_Resend(s, c, o) ==
  [s EXCEPT !.out[c]   = SubSeq(s.out[c], o.full + 1, Len(s.out[c])),
            !.nalloced = @ - o.full]

\* Packets sent completely go back to the pool, sendpos of the next advances.
Consume(s, c, o) ==
  LET rest == SubSeq(s.out[c], o.full + 1, Len(s.out[c]))
  IN  [s EXCEPT !.out[c]   = IF o.part = 0 THEN rest
                             ELSE [rest EXCEPT ![1].sendpos = @ + o.part],
                !.nalloced = @ - o.full]

\* Variant: reading from the peer goes on.
Block_KeepReading(s, c) ==
  IF "BLOCKED" \in s.flags[c] THEN s
  ELSE Raise(AddEvent(s, c, FD_OUT, "send"), c, "BLOCKED")

Block(s, c) ==
  IF "BLOCKED" \in s.flags[c] THEN s
  ELSE Raise(AddEvent(AddEvent(s, c, FD_OUT, "send"), Peer(c), {}, "NULL"),
             c, "BLOCKED")

\* Variant: reading from the peer is not resumed.
Unblock_PeerStopped(s, c) ==
  IF "BLOCKED" \notin s.flags[c] THEN s
  ELSE Clear(AddEvent(s, c, FD_IN, "recv"), c, "BLOCKED")

Unblock(s, c) ==
  IF "BLOCKED" \notin s.flags[c] THEN s
  ELSE Clear(AddEvent(AddEvent(s, c, FD_IN, "recv"), Peer(c), FD_IN, "recv"),
             c, "BLOCKED")

\* What the peer will not send any more, c closes for writing.
ShutWrite(s, c) ==
  IF "SHUTRD" \notin s.flags[Peer(c)] THEN s
  ELSE IF s.ssl[c] # "NULL"
       THEN AddEvent(Raise(s, c, "SSLSHUT"), c, FD_OUT, "shutdown")
       ELSE Raise(s, c, "SHUTWR")

\* Variant: the write side is shut down even when sending was blocked.
conn_send_data_ShutEarly(s, c, o) ==
  IF InHandshake(s, c) THEN s
  ELSE LET s1 == Consume(s, c, o)
       IN  CASE o.end = "err"  -> Raise(s1, c, "ERROR")
             [] o.end = "part" -> ShutWrite(Block(s1, c), c)
             [] o.end = "all"  -> ShutWrite(Unblock(s1, c), c)

\* The state after the call; its result is o.end # "err".
conn_send_data(s, c, o) ==
  IF InHandshake(s, c) THEN s
  ELSE LET s1 == Consume(s, c, o)
       IN  CASE o.end = "err"  -> Raise(s1, c, "ERROR")
             [] o.end = "part" -> Block(s1, c)
             [] o.end = "all"  -> ShutWrite(Unblock(s1, c), c)

SendEvent(s, c, o) ==
  LET s1 == conn_send_data(s, c, o)
  IN  IF o.end = "err" THEN AddTaskAlways(s1, c, "DELETE") ELSE s1

-----------------------------------------------------------------------------
(* conn_handshake and conn_shutdown.  h and z are the results of           *)
(* ssl_handshake and ssl_shutdown: "done", "fail", "rd" or "wr" (wait).    *)

Rearm(s, c, mask, wait, cb) ==
  CASE wait = "rd" /\ "OUT" \in mask -> AddEvent(s, c, FD_IN, cb)
    [] wait = "wr" /\ "IN" \in mask  -> AddEvent(s, c, FD_OUT, cb)
    [] OTHER                         -> s

\* Variant: a failed handshake deletes the session in the callback.
conn_handshake_FreeNow(s, c, mask, kc, h) ==
  IF mask \intersect {"ERR", "RDHUP"} # {} \/ h = "fail" THEN session_free(s, c)
  ELSE AddTask(AddEvent([s EXCEPT !.flags[c] = @ \ {"HSK", "SSLHSK"}],
                        c, FD_IN, "recv"), c, "SEND")

conn_handshake(s, c, mask, kc, h) ==
  LET \* the TCP handshake is over
      s1 == IF "HSK" \in s.flags[c]
            THEN [s EXCEPT !.flags[c] =
                    (@ \ {"HSK"}) \union (IF s.ssl[c] # "NULL" THEN {"SSLHSK"} ELSE {})]
            ELSE s
      inssl == "SSLHSK" \in s1.flags[c]
      ready(t) == AddTask(AddEvent(t, c, FD_IN, "recv"), c, "SEND")
  IN  IF mask \intersect {"ERR", "RDHUP"} # {} THEN AddTask(s, c, "DELETE")
      ELSE IF "HSK" \in s.flags[c] /\ ~SockOpen(kc)
           THEN AddTask(Raise(s, c, "ERROR"), c, "DELETE")
      ELSE IF ~inssl THEN ready(s1)
      ELSE CASE h = "fail" -> AddTask(s1, c, "DELETE")
             [] h = "done" -> ready(Clear(s1, c, "SSLHSK"))
             [] OTHER      -> Rearm(s1, c, mask, h, "handshake")

\* The results ssl_handshake can have: without ssl_set_fd it can only fail.
HandshakeResult(s, kc, c) ==
  IF s.ssl[c] = "nofd" \/ ~SockOpen(kc) THEN {"fail"}
  ELSE {"done", "rd", "wr"} \union (IF c \in MayReset THEN {"fail"} ELSE {})

\* While it waits, a shutdown is resumed by conn_handshake.
conn_shutdown(s, c, mask, z) ==
  IF "ERR" \in mask THEN AddTask(s, c, "DELETE")
  ELSE IF "SSLSHUT" \notin s.flags[c] THEN AddEvent(s, c, {}, "NULL")
  ELSE CASE z = "fail" -> AddTask(s, c, "DELETE")
         [] z = "done" -> [AddEvent(s, c, {}, "NULL") EXCEPT !.ssl[c] = "NULL",
                                                             !.nssl = @ - 1]
         [] OTHER      -> Rearm(s, c, mask, z, "handshake")

\* ssl_shutdown needs an SSL object, and the remote's close to be complete.
ShutdownResult(s, kc, c) ==
  IF s.ssl[c] = "NULL" \/ ~SockOpen(kc) THEN {"fail"}
  ELSE {"rd", "wr"} \union (IF kc.fin THEN {"done"} ELSE {})

-----------------------------------------------------------------------------
(* session_run_task.                                                       *)

session_fparse(s, c) ==
  [s EXCEPT !.mid[c] = @ \o s.inq[c], !.inq[c] = <<>>]

\* The packets of the other side become output of c; the first time, c is
\* connected to a server with outcome f: "fail", "wait" or "now".
Joined(s, c) ==
  [s EXCEPT !.out[c] = @ \o s.mid[Peer(c)], !.mid[Peer(c)] = <<>>]

session_get_server(s, c) ==
  LET g == [s EXCEPT !.svrdata = TRUE, !.svrref = @ + 1]
  IN  IF c \in SSLConn THEN [g EXCEPT !.ssl[c] = "nofd", !.nssl = @ + 1]
      ELSE [g EXCEPT !.ssl[c] = "NULL"]

session_forward(s, c, f) ==
  LET j  == Joined(s, c)
      g  == session_get_server(j, c)
      o  == [g EXCEPT !.fd[c] = TRUE]
      up == [o EXCEPT !.ssl[c] = "fd", !.flags[c] = @ \union {"SSLHSK"}]
  IN  IF s.fd[c] THEN j
      ELSE CASE f = "noserver" -> j
             [] f = "fail"     -> g
             [] f = "wait"     -> AddEvent(Raise(o, c, "HSK"), c, FD_OUT, "handshake")
             [] f = "now"      -> IF g.ssl[c] # "NULL"
                                  THEN AddEvent(up, c, FD_OUT, "handshake")
                                  ELSE AddEvent(o, c, FD_IN, "recv")

ForwardOutcome(s, c) ==
  IF s.fd[c] THEN {"now"}
  ELSE {"wait", "now"} \union (IF MayFail THEN {"noserver", "fail"} ELSE {})

\* The end of session_run_task.
ClosedCheck(s, c) ==
  IF CONN_IS_CLOSED(s, c) /\ CONN_IS_CLOSED(s, Peer(c))
  THEN session_free(s, c) ELSE s

\* PARSE goes on to the end even when the session was deleted because sending
\* failed.
SentFor(s, c, o) ==
  LET s1 == conn_send_data(s, Peer(c), o)
  IN  ClosedCheck(IF o.end = "err" THEN session_free(s1, c) ELSE s1, c)

RunSend(s, c, o) ==
  LET s1 == conn_send_data(s, c, o)
  IN  IF o.end = "err" THEN session_free(s1, c) ELSE ClosedCheck(s1, c)

-----------------------------------------------------------------------------
(* The environment: the kernel's sockets and the remote programs.          *)

\* st: how far the socket is; rcv: bytes that wait to be read; fin, rst: what
\* the remote did.
NoSock == [st |-> "closed", rcv |-> <<>>, fin |-> FALSE, rst |-> FALSE]

\* Sockets the worker closed are gone, new ones exist.
Sockets(s, kk) ==
  [c \in Conn |-> IF ~s.fd[c] THEN NoSock
                  ELSE IF kk[c].st # "closed" THEN kk[c]
                  ELSE [NoSock EXCEPT !.st =
                          IF "HSK" \in s.flags[c] THEN "connecting" ELSE "up"]]

\* The remote of c can exchange application data.
Talking(c) == SockOpen(k[c]) /\ "SSLHSK" \notin w.flags[c]

RemoteSend(c) ==
  /\ Talking(c) /\ ~k[c].fin /\ sent[c] < NSend[c]
  /\ k' = [k EXCEPT ![c].rcv = Append(@, sent[c] + 1)]
  /\ sent' = [sent EXCEPT ![c] = @ + 1]
  /\ UNCHANGED <<w, sndq, pev, phase, batch, hung, wrote, nsess>>

RemoteFin(c) ==
  /\ Talking(c) /\ ~k[c].fin
  /\ k' = [k EXCEPT ![c].fin = TRUE]
  /\ hung' = hung \union {c}
  /\ UNCHANGED <<w, sndq, pev, phase, batch, sent, wrote, nsess>>

RemoteRead(c) ==
  /\ SockOpen(k[c]) /\ sndq[c] > 0
  /\ sndq' = [sndq EXCEPT ![c] = @ - 1]
  /\ UNCHANGED <<w, k, pev, phase, batch, sent, hung, wrote, nsess>>

\* The connection breaks, or connecting is refused.
RemoteReset(c) ==
  /\ c \in MayReset /\ k[c].st # "closed" /\ ~k[c].rst
  /\ k' = [k EXCEPT ![c].rst = TRUE, ![c].rcv = <<>>]
  /\ hung' = hung \union {c}
  /\ UNCHANGED <<w, sndq, pev, phase, batch, sent, wrote, nsess>>

RemoteConnect(c) ==
  /\ k[c].st = "connecting" /\ ~k[c].rst
  /\ k' = [k EXCEPT ![c].st = "up"]
  /\ UNCHANGED <<w, sndq, pev, phase, batch, sent, hung, wrote, nsess>>

Environment ==
  \E c \in Conn : \/ RemoteSend(c) \/ RemoteFin(c) \/ RemoteRead(c)
                  \/ RemoteReset(c) \/ RemoteConnect(c)

-----------------------------------------------------------------------------
(* _worker_loop.                                                           *)

\* What epoll reports for the socket of c, registered for the events e.
Events(c, e) ==
  LET s == k[c]
      hs == "SSLHSK" \in w.flags[c]
      ready == (IF s.st = "up" /\ (s.rcv # <<>> \/ s.fin \/ hs) THEN {"IN"} ELSE {})
        \union (IF s.fin THEN {"RDHUP"} ELSE {})
        \union (IF s.st = "up" /\ (sndq[c] < SndBuf \/ "SHUTWR" \in w.flags[c])
                THEN {"OUT"} ELSE {})
        \union (IF s.rst THEN Mask ELSE {})
  IN  IF e = {} THEN {} ELSE ready \intersect (e \union {"ERR"})

\* fd_epoll_flush_events: the registrations asked for reach the kernel.
fd_epoll_flush_events ==
  /\ phase = "flush"
  /\ phase' = "wait"
  /\ pev' = [c \in Conn |-> IF w.fd[c] THEN w.ev[c] ELSE {}]
  /\ UNCHANGED <<w, k, sndq, batch, sent, hung, wrote, nsess>>

\* epoll_wait of fd_epoll_poll: ready sockets, as many as fit, in any order.
epoll_wait ==
  /\ phase = "wait"
  /\ LET ready == {c \in Conn : Events(c, pev[c]) # {}}
         size  == IF Cardinality(ready) < MaxWait THEN Cardinality(ready) ELSE MaxWait
     IN  \/ /\ \E b \in Injection(1..size, ready) :
                 batch' = [i \in 1..size |->
                             [fd |-> b[i], mask |-> Events(b[i], pev[b[i]])]]
            /\ phase' = IF ready = {} THEN "flush" ELSE "poll"
         \/ /\ ~w.alive /\ nsess < MaxSess
            /\ batch' = <<[fd |-> LFD, mask |-> {"IN"}]>>
            /\ phase' = "poll"
  /\ UNCHANGED <<w, k, sndq, pev, sent, hung, wrote, nsess>>

\* fd_epoll_poll calls the callback of the next event.
Dispatch(fd) == phase = "poll" /\ batch # <<>> /\ batch[1].fd = fd

\* The callback leaves the worker's memory as s.
Called(s) ==
  /\ w' = s
  /\ batch' = Tail(batch)
  /\ phase' = IF Tail(batch) # <<>> THEN "poll"
              ELSE IF s.taskq # <<>> THEN "task" ELSE "flush"
  /\ UNCHANGED pev

listener_accept ==
  /\ Dispatch(LFD)
  /\ Called(_ltn_accept(w))
  /\ k' = Sockets(_ltn_accept(w), k)
  /\ UNCHANGED sndq
  /\ sent' = [c \in Conn |-> 0]
  /\ hung' = {}
  /\ wrote' = [c \in Conn |-> <<>>]
  /\ nsess' = nsess + 1

RecvCallback(c) ==
  /\ Dispatch(c) /\ w.cb[c] = "recv"
  /\ \E r \in RecvOutcome(w, k[c], c) :
       /\ Called(conn_recv_data(w, c, batch[1].mask, r))
       /\ k' = [k EXCEPT ![c].rcv = IF "ERR" \in batch[1].mask THEN @
                                    ELSE SubSeq(@, Len(r.data) + 1, Len(@))]
  /\ UNCHANGED <<sndq, sent, hung, wrote, nsess>>

\* After the call, with memory s, of a handler that sent o from out of c in
\* memory t: the bytes are in the send buffer, closed sockets are gone.
Sent(t, c, o, s) ==
  /\ k' = Sockets(s, k)
  /\ sndq' = [x \in Conn |-> IF ~s.fd[x] THEN 0
                            ELSE IF x = c THEN sndq[c] + o.bytes ELSE sndq[x]]
  /\ wrote' = [wrote EXCEPT ![c] = @ \o SentBytes(t, c, o)]

SendCallback(c) ==
  /\ Dispatch(c) /\ w.cb[c] = "send"
  /\ \E o \in SendOutcome(w, c, k[c], SndBuf - sndq[c]) :
       Called(SendEvent(w, c, o)) /\ Sent(w, c, o, SendEvent(w, c, o))
  /\ UNCHANGED <<sent, hung, nsess>>

HandshakeCallback(c) ==
  /\ Dispatch(c) /\ w.cb[c] = "handshake"
  /\ \E h \in HandshakeResult(w, k[c], c) :
       Called(conn_handshake(w, c, batch[1].mask, k[c], h))
  /\ UNCHANGED <<k, sndq, sent, hung, wrote, nsess>>

ShutdownCallback(c) ==
  /\ Dispatch(c) /\ w.cb[c] = "shutdown"
  /\ \E z \in ShutdownResult(w, k[c], c) :
       Called(conn_shutdown(w, c, batch[1].mask, z))
  /\ UNCHANGED <<k, sndq, sent, hung, wrote, nsess>>

\* task_run_queue takes the first task, which has this type.
Running(c, type) ==
  phase = "task" /\ w.taskq # <<>> /\ w.taskq[1] = c /\ w.task[c] = type

Unlinked == [w EXCEPT !.taskq = Tail(@)]

\* session_run_task leaves the worker's memory as s.
Ran(s) ==
  /\ w' = s
  /\ phase' = IF s.taskq # <<>> THEN "task" ELSE "flush"
  /\ UNCHANGED <<pev, batch, sent, hung, nsess>>

\* session_run_task deleted the session and sent nothing.
Freed(s) ==
  /\ Ran(s)
  /\ k' = Sockets(s, k)
  /\ sndq' = [x \in Conn |-> IF s.fd[x] THEN sndq[x] ELSE 0]
  /\ UNCHANGED wrote

TaskDelete(c) ==
  /\ Running(c, "DELETE")
  /\ Freed(session_free(Unlinked, c))

TaskParse(c) ==
  /\ Running(c, "PARSE")
  /\ \E f \in ForwardOutcome(w, Peer(c)) :
       LET p == Peer(c)
           t == session_forward(session_fparse(Unlinked, c), p, f)
       IN  IF f \in {"noserver", "fail"} THEN Freed(session_free(t, c))
           ELSE \E o \in SendOutcome(t, p, Sockets(t, k)[p], SndBuf - sndq[p]) :
                  Ran(SentFor(t, c, o)) /\ Sent(t, p, o, SentFor(t, c, o))

TaskSend(c) ==
  /\ Running(c, "SEND")
  /\ \E o \in SendOutcome(Unlinked, c, k[c], SndBuf - sndq[c]) :
       LET s == RunSend(Unlinked, c, o)
       IN  Ran(s) /\ Sent(Unlinked, c, o, s)

Worker ==
  \/ fd_epoll_flush_events
  \/ epoll_wait
  \/ listener_accept
  \/ \E c \in Conn : \/ RecvCallback(c) \/ SendCallback(c)
                     \/ HandshakeCallback(c) \/ ShutdownCallback(c)
                     \/ TaskDelete(c) \/ TaskParse(c) \/ TaskSend(c)

Init ==
  /\ w = NoSession
  /\ k = [c \in Conn |-> NoSock]
  /\ sndq = [c \in Conn |-> 0]
  /\ pev = [c \in Conn |-> {}]
  /\ phase = "flush"
  /\ batch = <<>>
  /\ sent = [c \in Conn |-> 0]
  /\ hung = {}
  /\ wrote = [c \in Conn |-> <<>>]
  /\ nsess = 0

Next == Worker \/ Environment

Spec == Init /\ [][Next]_vars

\* The worker thread keeps running, and the remote programs keep reading, get
\* an answer to their connect, and hang up in the end.
Fairness ==
  /\ WF_vars(Worker)
  /\ \A c \in Conn : WF_vars(RemoteRead(c)) /\ WF_vars(RemoteConnect(c))
                     /\ WF_vars(RemoteFin(c))

FairSpec == Spec /\ Fairness

-----------------------------------------------------------------------------
(* Properties.                                                             *)

Memory ==
  [alive : BOOLEAN, fd : [Conn -> BOOLEAN], ssl : [Conn -> {"NULL", "nofd", "fd"}],
   inq : [Conn -> Seq(Packet)], mid : [Conn -> Seq(Packet)],
   out : [Conn -> Seq(Packet)], task : [Conn -> TaskType],
   flags : [Conn -> SUBSET Flag], ev : [Conn -> SUBSET Mask],
   cb : [Conn -> Callback], svrdata : BOOLEAN, nalloced : Int,
   taskq : Seq(Conn), plref : Int, svrref : Int, nssl : Int]

Socket == [st : {"closed", "connecting", "up"}, rcv : Seq(Nat),
           fin : BOOLEAN, rst : BOOLEAN]

Event == [fd : Conn \union {LFD}, mask : SUBSET Mask]

\* The worker's memory, the sockets and the loop position have their types, no
\* send buffer is overfull and nalloced is never negative (ImplementsRelay is
\* about the contents of wrote).
TypeOK ==
  /\ w \in Memory
  /\ w.nalloced >= 0
  /\ k \in [Conn -> Socket]
  /\ sndq \in [Conn -> 0..SndBuf]
  /\ pev \in [Conn -> SUBSET Mask]
  /\ phase \in {"flush", "wait", "poll", "task"}
  /\ batch \in Seq(Event)
  /\ sent \in [Conn -> Nat]
  /\ hung \in SUBSET Conn
  /\ nsess \in Nat

\* nalloced, which every path that takes or returns a packet has to keep, is
\* the number of packets in the session's six queues.
NallocedExact == w.nalloced = NPackets(w)

\* The assertion of session_free: a session that is gone left no packet, in
\* no queue, so that the next user of the slot starts with nalloced = 0.
FreedClean == ~w.alive => w.nalloced = 0 /\ \A c \in Conn : ~w.fd[c]

\* A task is linked into the queue at most once: linking it twice would cut
\* the tasks behind it out of the list.
TaskLinkedOnce ==
  \A i, j \in 1..Len(w.taskq) : w.taskq[i] = w.taskq[j] => i = j

\* An event that epoll_wait returned still finds, when its turn comes after
\* other callbacks ran, an open socket, a callback (fd_epoll_poll exits the
\* process without one) and a connection without a queued task.
EventStillValid ==
  \A i \in 1..Len(batch) :
    LET c == batch[i].fd
    IN  c # LFD => w.fd[c] /\ w.cb[c] # "NULL" /\ ~task_in_queue(w, c)

\* A live session holds one reference on its policy and one on the server
\* data it chose, a deleted one none.
RefsHeld ==
  /\ w.plref = IF w.alive THEN 1 ELSE 0
  /\ w.svrref = IF w.alive /\ w.svrdata THEN 1 ELSE 0

\* Before the worker sleeps in epoll_wait, a live session has a socket that
\* can wake it up: nothing else (no timer) would ever touch it again.
NoOrphan ==
  phase = "wait" /\ w.alive => \E c \in Conn : pev[c] # {}

\* While c waits for room in its send buffer (conn_send_data is its callback),
\* epoll watches nothing of its peer, unless the peer uses SSL: what c cannot
\* send stays in the peer's socket, also in sessions in which both sides were
\* blocked and an unblocked one has armed both sockets again.
StallStopsPeer ==
  phase = "wait" =>
    \A c \in Conn :
      w.cb[c] = "send" /\ w.ssl[Peer(c)] = "NULL" => pev[Peer(c)] = {}

\* While c is marked CONN_F_BLOCKED, nothing more is read from its peer.
BackPressure ==
  phase = "wait" =>
    \A c \in Conn : "BLOCKED" \in w.flags[c] => "IN" \notin pev[Peer(c)]

\* A blocked connection waits for its socket to become writable.
BlockedIsArmed ==
  phase = "wait" =>
    \A c \in Conn : "BLOCKED" \in w.flags[c] => pev[c] = FD_OUT

\* The write side of c is shut down only when all that was ever read from the
\* peer has been handed to the kernel, except what this round has read and not
\* parsed yet (a reset drops what is unread).
ShutdownAfterData ==
  [][\A c \in Conn :
       LET p == Peer(c)
       IN  (/\ w'.alive /\ ~k[p].rst
            /\ "SHUTWR" \in w'.flags[c] \ w.flags[c]) =>
             Len(wrote'[c]) + Len(UnsentOf(w'.inq[p], Len(w'.inq[p])))
               = sent[p] - Len(k[p].rcv)]_vars

\* The session implements the relay of two byte streams.
R == INSTANCE Relay WITH
       Side <- Conn, live <- w.alive, src <- sent, dst <- wrote,
       ended <- {c \in Conn : "SHUTWR" \in w.flags[c]}

ImplementsRelay == R!RelaySpec

\* Sending is blocked on one of the two sides at most.
OneWay == \E c \in Conn : "BLOCKED" \notin w.flags[c]

\* A session whose remote programs hang up is deleted in the end, if never both
\* of its sides are blocked: the first of them then has no write event to wake
\* it up (BlockedIsArmed).
SessionEnds == []OneWay => (w.alive ~> ~w.alive)

\* The read side is marked closed only when no data is left to read.
ShutReadAfterData ==
  \A c \in Conn : "SHUTRD" \in w.flags[c] /\ w.fd[c] => k[c].rcv = <<>>

\* Nothing that was read is left behind a write side that is shut down.
ShutdownComplete ==
  \A c \in Conn : w.alive /\ "SHUTWR" \in w.flags[c] => w.inq[Peer(c)] = <<>>

\* CONN_F_ERROR stands for a socket that failed, or was shut down for writing.
ErrorIsFailure ==
  \A c \in Conn : "ERROR" \in w.flags[c] /\ w.fd[c] =>
    k[c].rst \/ "SHUTWR" \in w.flags[c]

\* The SSL objects of a session are gone when it is deleted.
SSLFreed == ~w.alive => w.nssl = 0
=============================================================================
