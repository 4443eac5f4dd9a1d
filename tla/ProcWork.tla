----------------------------- MODULE ProcWork ------------------------------
(***************************************************************************)
(* A worker process of the process proxy (proxy/pproxy/worker.c) with its  *)
(* event table (fd_epoll.c) and its task queue.  A round of _worker_loop   *)
(* flushes the updates, polls and calls the callbacks, then runs the       *)
(* tasks.  The model has one session at a time; the next client gets the   *)
(* same memory and the same descriptor numbers.                            *)
(*                                                                         *)
(* A session has two ends, "cli" and "svr".  A byte is its number in the   *)
(* stream, a packet a sequence of bytes (from sendpos on).  Handlers are   *)
(* operators on the session x; what a system call did is a parameter.      *)
(* epoll_ctl does not fail here: FdEpoll is about the table on its own.    *)
(***************************************************************************)
EXTENDS Integers, Sequences, FiniteSets, SequencesExt

CONSTANTS N,        \* N[e]: bound, the bytes the remote program of e sends
          Cap,      \* bytes a packet holds
          MaxSess,  \* bound: how many clients are accepted
          MaxLive,  \* g_proxy.max: how many live sessions are allowed
          Word,     \* 2^64: nlive is unsigned
          MayFail   \* connect, allocation, receive and send may fail

End == {"cli", "svr"}
Peer(e) == CHOOSE f \in End : f # e

ASSUME ProcWorkAssumption ==
  /\ N \in [End -> Nat] /\ Cap \in Nat \ {0}
  /\ MaxSess \in Nat /\ MaxLive \in Nat \ {0} /\ Word \in Nat /\ Word > MaxLive
  /\ MayFail \in BOOLEAN

READ  == {"IN", "RDHUP"}    \* EPOLLIN | EPOLLRDHUP
WRITE == {"OUT"}            \* EPOLLOUT

VARIABLES x,       \* the session, its two fd_items and its tasks
          taskq,   \* the ends whose task is queued
          phase,   \* where _worker_loop is: wait, poll, task
          batch,   \* what epoll_wait returned for each end, {} if nothing
          nlive,   \* g_proxy.stat.nlive
          puts,    \* how often the session was put back into the pool
          hung,    \* the ends whose remote program has hung up
          nsess    \* clients accepted so far

vars == <<x, taskq, phase, batch, nlive, puts, hung, nsess>>

----------------------------------------------------------------------------
(* The event table.  *)

(* fd_epoll_init_item: state FD_CLOSED, no events, no callback.  listed says that the *)
(* descriptor is in the update array.                                                *)
Item(st) == [st |-> st, ev |-> {}, pev |-> {}, cb |-> "NULL", upd |-> FALSE, listed |-> FALSE]

(* fd_epoll_alloc_update sets events and callback and then fails if an update is     *)
(* pending already.                                                                  *)
Pends(s, e) == s.item[e].upd

fd_epoll_alloc_update(s, e, ev, cb) ==
  [s EXCEPT !.item[e].ev = ev, !.item[e].cb = cb, !.item[e].upd = TRUE,
            !.item[e].listed = @ \/ ~Pends(s, e)]

Flushed(i) ==
  IF i.listed /\ i.upd /\ i.st = "READY" /\ i.ev # i.pev
  THEN [i EXCEPT !.pev = i.ev, !.upd = FALSE, !.listed = FALSE]
  ELSE [i EXCEPT !.listed = FALSE]

----------------------------------------------------------------------------
(* A session and its end.  *)

(* session_init, and the items of descriptors that are closed. *)
session_init ==
  [live |-> TRUE,
   fd |-> [e \in End |-> FALSE],
   inq |-> [e \in End |-> <<>>], out |-> [e \in End |-> <<>>],
   flags |-> [e \in End |-> {}], task |-> [e \in End |-> "NONE"],
   item |-> [e \in End |-> Item("CLOSED")],
   nalloced |-> 0,
   got |-> [e \in End |-> 0],          \* bytes received from e
   sent |-> [e \in End |-> <<>>]]      \* bytes sent to e

NoSession == [session_init EXCEPT !.live = FALSE]

Queued(q, e) == \E i \in DOMAIN q : q[i] = e

(* The packets go back, and the socket is closed if there is one. *)
_worker_free_session_data(s, e) ==
  [s EXCEPT !.nalloced = @ - Len(s.inq[e]) - Len(s.out[e]),
            !.inq[e] = <<>>, !.out[e] = <<>>,
            !.item[e] = IF s.fd[e] THEN Item("CLOSED") ELSE @, !.fd[e] = FALSE]

(* Variant: a queued task of the peer does not delay the deletion. *)
Delayed_Never(q, e) == FALSE

(* The deletion is left to the task of the peer. *)
Delayed(q, e) == Queued(q, Peer(e))

(* How often the session goes back to the pool. *)
Puts(q, e) == IF Delayed(q, e) THEN 0 ELSE 1

_worker_free_session(s, q, e) ==
  LET t == _worker_free_session_data(s, e)
  IN IF Delayed(q, e) THEN [t EXCEPT !.task[Peer(e)] = "DELETE"]
     ELSE [_worker_free_session_data(t, Peer(e)) EXCEPT !.live = FALSE]

(* One round's changes: session s, task queue q, the session put back n times.  The   *)
(* process ends if nalloced is not 0 then, which NallocedExact excludes.              *)
Becomes(s, q, n) ==
  /\ x' = s /\ taskq' = q
  /\ puts' = puts + n
  /\ nlive' = (nlive - n) % Word

----------------------------------------------------------------------------
(* Accepting and connecting.  *)

(* The server's socket is there: connected, or with the handshake to come. *)
Connected(s, wait) ==
  LET t == [s EXCEPT !.fd["svr"] = TRUE, !.item["svr"].st = "READY"]
  IN IF wait
     THEN fd_epoll_alloc_update([t EXCEPT !.flags["svr"] = @ \cup {"HANDSHAKE"}],
                                "svr", WRITE, "handshake")
     ELSE fd_epoll_alloc_update(t, "svr", READ, "recv")

(* The session of a new client before _worker_connect. *)
Accepted ==
  fd_epoll_alloc_update([session_init EXCEPT !.fd["cli"] = TRUE, !.item["cli"].st = "READY"],
                        "cli", READ, "recv")

(* A client is accepted, unless too many are live.  A server that cannot be connected *)
(* frees the session, which takes it off nlive before it was counted there.           *)
_worker_accept_client ==
  /\ phase = "poll"
  /\ ~x.live /\ nsess < MaxSess
  /\ nlive < MaxLive
  /\ \/ /\ \E wait \in BOOLEAN : x' = Connected(Accepted, wait)
        /\ nlive' = (nlive + 1) % Word /\ puts' = 0
     \/ /\ MayFail
        /\ x' = _worker_free_session(Accepted, taskq, "cli")
        /\ nlive' = (nlive - 1) % Word /\ puts' = 1
  /\ nsess' = nsess + 1
  /\ hung' = {}
  /\ UNCHANGED <<taskq, phase, batch>>

----------------------------------------------------------------------------
(* The callbacks.  *)

(* The task of e is set to t, and linked unless it is linked already. *)
Add(s, q, e, t) ==
  /\ x' = [s EXCEPT !.task[e] = t]
  /\ taskq' = IF Queued(q, e) THEN q ELSE Append(q, e)
  /\ UNCHANGED <<nlive, puts>>

(* The end of a connect: readable from now on, and what came from the client is sent. *)
_worker_handshake(e, ev, ok) ==
  LET t == fd_epoll_alloc_update([x EXCEPT !.flags[e] = @ \ {"HANDSHAKE"}], e, READ, "recv")
  IN IF "ERR" \in ev \/ ~ok THEN Add(x, taskq, e, "DELETE")
     ELSE IF Pends(x, e) THEN Add(t, taskq, e, "DELETE")
     ELSE Add(t, taskq, e, "SEND")

(* sk_recv brought n bytes into a new packet (in is empty whenever data is read). *)
Received(e, n) ==
  [x EXCEPT !.inq[e] = Append(@, [i \in 1 .. n |-> x.got[e] + i]),
            !.got[e] = @ + n, !.nalloced = @ + 1]

(* sk_recv failed: the packet stays in the queue. *)
Failed(e) == Received(e, 0)

(* No more is read from e. *)
Closed(s, e) == fd_epoll_alloc_update([s EXCEPT !.flags[e] = @ \cup {"SHUTRD"}], e, {}, "NULL")

(* n bytes come, or it is the end of the stream, or fail = "recv" or "alloc" happens. *)
_worker_recv_data(e, ev, n, fail) ==
  LET t == Received(e, n)
  IN IF "ERR" \in ev \/ fail = "alloc" THEN Add(x, taskq, e, "DELETE")
     ELSE IF fail = "recv" THEN Add(Failed(e), taskq, e, "DELETE")
     ELSE IF "RDHUP" \in ev \/ (n = 0 /\ e \in hung)
          THEN Add(Closed(t, e), taskq, e, IF Pends(t, e) THEN "DELETE" ELSE "PARSE")
     ELSE Add(t, taskq, e, "PARSE")

(* What sk_send makes of queue out[e]: k packets whole, then m bytes of the next; or   *)
(* an error, which a full buffer is too.                                             *)
Outcome(s, e) ==
  LET q == s.out[e]
      none == [k |-> Len(q), m |-> 0, err |-> FALSE]
      part == {[k |-> k, m |-> m, err |-> FALSE] : k \in 0 .. Len(q) - 1, m \in 1 .. Cap - 1}
      fail == {[k |-> k, m |-> 0, err |-> TRUE] : k \in 0 .. Len(q) - 1}
  IN IF "HANDSHAKE" \in s.flags[e] THEN {[none EXCEPT !.k = 0]}
     ELSE {none} \cup {o \in part : o.m < Len(q[o.k + 1])} \cup (IF MayFail THEN fail ELSE {})

(* Variant: sendpos does not move. *)
Advance_Not(p, m) == p

Advance(p, m) == SubSeq(p, m + 1, Len(p))

(* out[e] and sent after outcome o. *)
Taken(s, e, o) ==
  LET q == s.out[e]
      rest == SubSeq(q, o.k + 1, Len(q))
  IN [s EXCEPT !.sent[e] = @ \o FlattenSeq(SubSeq(q, 1, o.k))
                             \o (IF o.m > 0 THEN SubSeq(q[o.k + 1], 1, o.m) ELSE <<>>),
               !.out[e] = IF o.m > 0 THEN [rest EXCEPT ![1] = Advance(@, o.m)] ELSE rest,
               !.nalloced = @ - o.k]

(* The end of the stream is passed on; the flag is set at the end that was closed. *)
PassEnd(s, e) ==
  IF "SHUTRD" \in s.flags[Peer(e)] /\ "HANDSHAKE" \notin s.flags[e]
  THEN [s EXCEPT !.flags[Peer(e)] = @ \cup {"SHUTWR"}] ELSE s

(* A send from a task that blocked: e waits to write and the peer is stopped, unless  *)
(* the update fails.                                                                 *)
Blocked(s, e) ==
  LET t == fd_epoll_alloc_update([s EXCEPT !.flags[e] = @ \cup {"BLOCKED"}], e, WRITE, "send")
  IN IF Pends(s, e) THEN t ELSE [t EXCEPT !.item[Peer(e)].st = "STOP"]

(* _worker_send_data from a task: the session, and whether it succeeded. *)
SendNow(s, e, o) ==
  LET t == Taken(s, e, o)
  IN CASE o.err -> [s |-> t, ok |-> FALSE]
       [] o.m > 0 -> [s |-> Blocked(t, e), ok |-> ~Pends(t, e)]
       [] OTHER -> [s |-> PassEnd(t, e), ok |-> TRUE]

(* A callback's send failed: the task is linked, whether it is linked or not. *)
SendFailed(s, e) ==
  /\ x' = [s EXCEPT !.task[e] = "DELETE"]
  /\ taskq' = Append(taskq, e)
  /\ UNCHANGED <<nlive, puts>>

(* _worker_send_data as the callback of an end that was blocked. *)
_worker_send_data(e, o) ==
  LET t == Taken(x, e, o)
  IN IF o.err THEN SendFailed(t, e)
     ELSE /\ x' = IF o.m > 0 THEN [t EXCEPT !.flags[e] = @ \cup {"BLOCKED"}] ELSE PassEnd(t, e)
          /\ UNCHANGED <<taskq, nlive, puts>>

----------------------------------------------------------------------------
(* The loop.  *)

(* What epoll_wait may return for end e. *)
Events(s, e) ==
  IF s.item[e].pev = {} THEN {{}}
  ELSE {ev \in {{}, {"ERR"}, {"IN"}, READ, WRITE} :
          /\ ev \subseteq s.item[e].pev \cup {"ERR"}
          /\ "RDHUP" \in ev => e \in hung
          /\ "ERR" \in ev => MayFail}

(* Variant: an item that is stopped is called back all the same. *)
Calls_Stopped(e) == x.item[e].cb # "NULL"

Calls(e) == x.item[e].st = "READY" /\ x.item[e].cb # "NULL"

_worker_loop(b) ==
  LET s == [x EXCEPT !.item = [e \in End |-> Flushed(x.item[e])]]
  IN /\ phase = "wait"
     /\ b \in [End -> Events(s, "cli") \cup Events(s, "svr")]
     /\ \A e \in End : b[e] \in Events(s, e)
     /\ x' = s /\ batch' = b
     /\ phase' = "poll"
     /\ UNCHANGED <<taskq, nlive, puts, hung, nsess>>

(* The next event of the batch. *)
fd_epoll_poll(e) ==
  /\ phase = "poll" /\ batch[e] # {}
  /\ batch' = [batch EXCEPT ![e] = {}]
  /\ CASE ~Calls(e) -> UNCHANGED <<x, taskq, nlive, puts>>
       [] Calls(e) /\ x.item[e].cb = "handshake" ->
            \E ok \in {TRUE, ~MayFail} : _worker_handshake(e, batch[e], ok)
       [] Calls(e) /\ x.item[e].cb = "recv" ->
            \E n \in 0 .. Cap, fail \in {"none"} \cup (IF MayFail THEN {"recv", "alloc"} ELSE {}) :
              /\ n <= N[e] - x.got[e]
              /\ _worker_recv_data(e, batch[e], n, fail)
       [] Calls(e) /\ x.item[e].cb = "send" ->
            \E o \in Outcome(x, e) : _worker_send_data(e, o)
  /\ UNCHANGED <<phase, hung, nsess>>

task_run_queue ==
  /\ phase = "poll" /\ batch = [e \in End |-> {}]
  /\ phase' = "task"
  /\ UNCHANGED <<x, taskq, batch, nlive, puts, hung, nsess>>

(* The packet goes to the peer's queue, or back to the pool if it is empty.  There is   *)
(* one at most: TypeOK.                                                              *)
_worker_parse_data(s, e) ==
  LET full == IF s.inq[e] = << <<>> >> THEN <<>> ELSE s.inq[e]
  IN [s EXCEPT !.inq[e] = <<>>, !.out[Peer(e)] = @ \o full,
               !.nalloced = @ - (Len(s.inq[e]) - Len(full))]

BothShut(s) == \A e \in End : "SHUTWR" \in s.flags[e]

(* Variant: a session that both sides have closed is kept. *)
Finish_Never(s, q, e, n) == Becomes(s, q, n)

(* The end of _worker_run_task: a session that both sides have closed is freed, after  *)
(* TASK_DELETE too.                                                                  *)
Finish(s, q, e, n) ==
  IF BothShut(s) THEN Becomes(_worker_free_session(s, q, e), q, n + Puts(q, e))
  ELSE Becomes(s, q, n)

(* The peer of a task has a socket: the server is connected when the client is         *)
(* accepted, so _worker_connect is not called here.                                  *)
_worker_run_task(e) ==
  LET q == Tail(taskq)
      parsed == _worker_parse_data(x, e)
      Send(s, f) == \E o \in Outcome(s, f) :
                      LET r == SendNow(s, f, o)
                      IN IF r.ok THEN Finish(r.s, q, e, 0)
                         ELSE Becomes(_worker_free_session(r.s, q, e), q, Puts(q, e))
  IN /\ phase = "task" /\ taskq # <<>> /\ Head(taskq) = e
     /\ CASE x.task[e] = "DELETE" -> Finish(_worker_free_session(x, q, e), q, e, Puts(q, e))
          [] x.task[e] = "PARSE" -> Send(parsed, Peer(e))
          [] x.task[e] = "SEND" -> Send(x, e)
     /\ UNCHANGED <<phase, batch, hung, nsess>>

RoundEnds ==
  /\ phase = "task" /\ taskq = <<>>
  /\ phase' = "wait"
  /\ UNCHANGED <<x, taskq, batch, nlive, puts, hung, nsess>>

(* The remote program behind e hangs up. *)
HangUp(e) ==
  /\ x.live /\ x.fd[e] /\ "HANDSHAKE" \notin x.flags[e] /\ e \notin hung
  /\ hung' = hung \cup {e}
  /\ UNCHANGED <<x, taskq, phase, batch, nlive, puts, nsess>>

----------------------------------------------------------------------------
Batches == [End -> {{}, {"ERR"}, {"IN"}, READ, WRITE}]

Worker == \/ \E b \in Batches : _worker_loop(b)
          \/ \E e \in End : fd_epoll_poll(e) \/ _worker_run_task(e)
          \/ task_run_queue
          \/ RoundEnds

Next == Worker \/ _worker_accept_client \/ \E e \in End : HangUp(e)

Init ==
  /\ x = NoSession /\ taskq = <<>>
  /\ phase = "wait" /\ batch = [e \in End |-> {}]
  /\ nlive = 0 /\ puts = 1 /\ hung = {} /\ nsess = 0

Spec == Init /\ [][Next]_vars

(* The worker goes on, remote programs hang up in the end, and epoll reports a hang-up *)
(* and a decided connect some time.                                                  *)
FairSpec ==
  /\ Spec
  /\ WF_vars(Worker)
  /\ \A e \in End :
       /\ WF_vars(HangUp(e))
       /\ SF_vars(\E b \in Batches : b[e] \in {READ, WRITE} /\ _worker_loop(b))

----------------------------------------------------------------------------
(* Properties.  *)

(* The types of the state; the queue in of an end has one packet at most. *)
TypeOK ==
  /\ phase \in {"wait", "poll", "task"}
  /\ batch \in Batches /\ hung \subseteq End
  /\ taskq \in Seq(End) /\ Len(taskq) <= 2
  /\ nlive \in 0 .. Word - 1 /\ nsess \in 0 .. MaxSess
  /\ x.nalloced \in Nat
  /\ \A e \in End : /\ x.inq[e] \in Seq(Seq(Nat)) /\ Len(x.inq[e]) <= 1
                    /\ x.out[e] \in Seq(Seq(Nat))
                    /\ x.task[e] \in {"NONE", "PARSE", "SEND", "DELETE"}
                    /\ x.flags[e] \subseteq {"SHUTRD", "SHUTWR", "BLOCKED", "HANDSHAKE"}
                    /\ x.item[e].st \in {"CLOSED", "READY", "STOP"}

(* nalloced counts the packets of the four queues, and a freed session has none left,   *)
(* as _worker_free_session asserts.                                                  *)
NallocedExact ==
  /\ x.nalloced = Len(x.inq["cli"]) + Len(x.out["cli"]) + Len(x.inq["svr"]) + Len(x.out["svr"])
  /\ ~x.live => x.nalloced = 0

(* A session goes back to the pool once, although _worker_run_task goes on to look at  *)
(* its flags after TASK_DELETE, and although both ends may have a task that deletes.  *)
FreedOnce == puts = (IF x.live THEN 0 ELSE 1)

(* No task is linked twice, although SendFailed does not look, and none belongs to a   *)
(* session that was freed.                                                           *)
TasksSound == IsInjective(taskq) /\ (taskq # <<>> => x.live)

(* Packets, tasks and sessions go back exactly once, on every path that ends a session, *)
(* and nothing of a session outlives it.                                             *)
Lifetimes == TypeOK /\ NallocedExact /\ FreedOnce /\ TasksSound

(* What goes to one side is what came from the other, in order, without a gap.        *)
Relayed ==
  \A e \in End : \E n \in 0 .. x.got[Peer(e)] : x.sent[e] = [i \in 1 .. n |-> i]

(* A callback belongs to the state of its socket: data is read only from an end that   *)
(* is not closed and whose peer takes data, and the handshake runs once.              *)
EventFits ==
  \A e \in End : x.live /\ phase = "poll" /\ batch[e] # {} /\ Calls(e) =>
    CASE x.item[e].cb = "recv" -> /\ x.flags[e] \cap {"SHUTRD", "HANDSHAKE"} = {}
                                  /\ "BLOCKED" \notin x.flags[Peer(e)]
      [] x.item[e].cb = "send" -> "BLOCKED" \in x.flags[e]
      [] x.item[e].cb = "handshake" -> "HANDSHAKE" \in x.flags[e]

(* A session that never blocks is deleted after both sides have hung up.              *)
SessionEnds ==
  x.live ~> (~x.live \/ \E e \in End : "BLOCKED" \in x.flags[e])

(* nlive is the "live session number" (proxy.h 30).                                   *)
NliveExact == nlive = (IF x.live THEN 1 ELSE 0)

(* "Flush the fd update into epoll socket by epoll_ctl()" (fd_epoll.h): when the worker *)
(* waits, epoll watches what was asked for.                                          *)
Synced ==
  \A e \in End : phase = "wait" /\ x.fd[e] => Flushed(x.item[e]).pev = x.item[e].ev

(* A blocked session goes on or ends.                                                *)
Unblocks ==
  (x.live /\ \E e \in End : "BLOCKED" \in x.flags[e])
    ~> (~x.live \/ \A e \in End : x.item[e].st = "READY")
=============================================================================
