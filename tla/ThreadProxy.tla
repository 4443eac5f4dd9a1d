---------------------------- MODULE ThreadProxy ----------------------------
(***************************************************************************)
(* The threads of the thread proxy (proxyd of socket/proxy/pthread): main, *)
(* one accept thread and NWork work threads.  The accept thread takes      *)
(* clients and hands them over through the input queue of a work thread;   *)
(* the work thread keeps its sessions in a session table.  All share       *)
(* g_proxy.stop and the number of live sessions, g_proxy.stat.nlive, which *)
(* the accept thread increments only after the hand-over.  What a session  *)
(* does between its start and its end is in ThreadWork.                    *)
(*                                                                         *)
(* A client stands for its descriptor, which is used again once it is      *)
(* closed.  Sections under wi->lock and under proxy_stat_lock are single   *)
(* steps.                                                                  *)
(***************************************************************************)
EXTENDS Integers, Sequences, FiniteSets

CONSTANTS Client,   \* the clients that connect
          NWork,    \* g_proxy.nwork
          Max,      \* g_proxy.max
          Word,     \* the number of values of an unsigned counter (2^64 in the code)
          MayFail,  \* system calls and allocations may fail
          NULL

Work == 0 .. NWork - 1
Acc == NWork
Thread == Work \cup {Acc}
Id == 0 .. Max - 1

ASSUME ProxyAssumption ==
  /\ IsFiniteSet(Client) /\ NULL \notin Client
  /\ NWork \in Nat \ {0} /\ Max \in Nat \ {0}
  /\ Word \in Nat /\ Word > Max + 1
  /\ MayFail \in BOOLEAN

VARIABLES stop,      \* g_proxy.stop
          nlive,     \* g_proxy.stat.nlive
          main,      \* where main is: init, create, loop, done
          made,      \* the number of threads main has created
          sig,       \* a SIGINT is on its way to the main thread
          dead,      \* the process crashed
          thr,       \* thr[t]: none, start, run, close, gone, failed
          acc,       \* the accept thread: where it is and the client in its hand
          index,     \* ai->index
          inq,       \* inq[w]: wi->inq
          inq2,      \* inq2[w]: what _work_get_session has still to do of wi->inq2
          turn,      \* where the loop of work thread w is: top, batch, serve
          table,     \* table[w]: the session table, of clients
          nfreed, freeid,
          opened,    \* the open descriptors of clients
          stray      \* a descriptor was closed that was not open

queues == <<inq, inq2, turn>>
tables == <<table, nfreed, freeid>>
process == <<stop, main, made, sig>>
vars == <<stop, nlive, main, made, sig, dead, thr, acc, index, inq, inq2, turn,
          table, nfreed, freeid, opened, stray>>

(* priv is set from the end of _work_init to the end of _work_free. *)
Priv(w) == thr[w] \in {"run", "close"}

fds == <<opened, stray>>

Close(c) == /\ opened' = opened \ {c}
            /\ stray' = (stray \/ c \notin opened)

----------------------------------------------------------------------------
(* The session table (utils/session.c).  *)

(* The ids _st_get_free_id looks at, from freeid on and round the end. *)
Probe(w, k) == (IF freeid[w] >= Max THEN k ELSE freeid[w] + k) % Max

(* Variant: the search does not go round the end. *)
_st_get_free_id_Once(w) ==
  LET free == {k \in Id : freeid[w] + k < Max /\ table[w][freeid[w] + k] = NULL}
  IN IF free = {} THEN -1
     ELSE Probe(w, CHOOSE k \in free : \A j \in free : k <= j)

(* The first free one, or -1. *)
_st_get_free_id(w) ==
  LET free == {k \in Id : table[w][Probe(w, k)] = NULL}
  IN IF free = {} THEN -1
     ELSE Probe(w, CHOOSE k \in free : \A j \in free : k <= j)

(* session_table_add succeeds and gives the session of client c an id. *)
session_table_add(w, c) ==
  LET id == _st_get_free_id(w)
  IN /\ nfreed[w] >= 1 /\ id >= 0
     /\ table' = [table EXCEPT ![w][id] = c]
     /\ nfreed' = [nfreed EXCEPT ![w] = @ - 1]
     /\ freeid' = [freeid EXCEPT ![w] = id + 1]

(* A session is added and deleted again: only the place to search from has moved. *)
session_table_pass(w) ==
  LET id == _st_get_free_id(w)
  IN /\ nfreed[w] >= 1 /\ id >= 0
     /\ freeid' = [freeid EXCEPT ![w] = id + 1]
     /\ UNCHANGED <<table, nfreed>>

session_table_del(w, id) ==
  /\ table' = [table EXCEPT ![w][id] = NULL]
  /\ nfreed' = [nfreed EXCEPT ![w] = @ + 1]
  /\ UNCHANGED freeid

(* session_table_add finds the table full. *)
TableFull(w) == nfreed[w] < 1 \/ _st_get_free_id(w) < 0

----------------------------------------------------------------------------
(* Main (proxy.c).  *)

(* A fault ends the process with all its threads. *)
Crash ==
  /\ dead' = TRUE
  /\ main' = "done"
  /\ thr' = [t \in Thread |-> "gone"]
  /\ acc' = [at |-> "top", cli |-> NULL]
  /\ sig' = FALSE
  /\ UNCHANGED <<stop, made>>

(* Before main_tid is set, the handler signals thread 0: a fault, or nothing. *)
_sig_int_Early ==
  /\ main = "init"
  /\ Crash
  /\ UNCHANGED <<nlive, index, queues, tables, fds>>

(* A SIGINT from outside reaches main, which stops, or another thread, which passes it on. *)
_sig_int ==
  /\ main \in {"create", "loop"}
  /\ stop' = TRUE \/ UNCHANGED stop
  /\ sig' = (sig \/ (stop' = stop /\ ~stop))
  /\ UNCHANGED <<nlive, main, made, dead, thr, acc, index, queues, tables, fds>>

(* The signal another thread sent with pthread_kill. *)
_sig_int_Main ==
  /\ sig
  /\ sig' = FALSE
  /\ stop' = TRUE
  /\ UNCHANGED <<nlive, main, made, dead, thr, acc, index, queues, tables, fds>>

_proxy_init ==
  /\ main = "init"
  /\ main' \in {"create"} \cup (IF MayFail THEN {"done"} ELSE {})
  /\ UNCHANGED <<stop, made, sig, nlive, dead, thr, acc, index, queues, tables, fds>>

(* The next thread, work threads first; nobody looks whether it was created. *)
thread_create ==
  /\ main = "create"
  /\ thr' \in {[thr EXCEPT ![made] = "start"]} \cup (IF MayFail THEN {thr} ELSE {})
  /\ made' = made + 1
  /\ main' = IF made = Acc THEN "loop" ELSE "create"
  /\ UNCHANGED <<stop, sig, nlive, dead, acc, index, queues, tables, fds>>

(* Variant: thread_join does not look at the tid. *)
Joined_Any(t) == thr[t] \in {"gone", "failed"}

(* thread_join returns: the thread has exited, or was never created. *)
Joined(t) == thr[t] \in {"none", "gone", "failed"}

(* _proxy_loop, the joins and _proxy_free. *)
proxy_main ==
  /\ main = "loop"
  /\ stop
  /\ \A t \in Thread : Joined(t)
  /\ main' = "done"
  /\ UNCHANGED <<stop, made, sig, nlive, dead, thr, acc, index, queues, tables, fds>>

----------------------------------------------------------------------------
(* The start of a thread.  *)

(* accept_run and work_run: a thread that cannot initialise stops main with SIGINT. *)
InitFails(t) ==
  /\ MayFail /\ thr[t] = "start"
  /\ thr' = [thr EXCEPT ![t] = "failed"]
  /\ sig' = TRUE
  /\ UNCHANGED <<stop, main, made, nlive, dead, acc, index, queues, tables, fds>>

_accept_init ==
  /\ thr[Acc] = "start"
  /\ thr' = [thr EXCEPT ![Acc] = "run"]
  /\ UNCHANGED <<process, nlive, dead, acc, index, queues, tables, fds>>

(* priv is set last. *)
_work_init(w) ==
  /\ thr[w] = "start"
  /\ thr' = [thr EXCEPT ![w] = "run"]
  /\ UNCHANGED <<process, nlive, dead, acc, index, queues, tables, fds>>

----------------------------------------------------------------------------
(* The accept thread (accept.c).  *)

Hand(at, c) == acc' = [at |-> at, cli |-> c]

(* A round of the loop: the end, or a poll. *)
_accept_loop ==
  /\ thr[Acc] = "run" /\ acc.at = "top"
  /\ IF stop THEN thr' = [thr EXCEPT ![Acc] = "gone"] /\ UNCHANGED acc
     ELSE Hand("poll", NULL) /\ UNCHANGED thr
  /\ UNCHANGED <<process, nlive, dead, index, queues, tables, fds>>

(* poll ends without a client, or accept fails. *)
PollTimeout ==
  /\ acc.at = "poll"
  /\ Hand("top", NULL)
  /\ UNCHANGED <<process, nlive, dead, thr, index, queues, tables, fds>>

(* Variant: one client more than the limit. *)
Exceeded_Late == nlive > Max

(* The concurrency check. *)
Exceeded == nlive >= Max

(* The first part of _accept_client: a client comes in; too many are turned away. *)
_accept_client(c) ==
  /\ acc.at = "poll"
  /\ c \notin opened
  /\ IF Exceeded THEN Hand("top", NULL) /\ UNCHANGED opened
     ELSE Hand("add", c) /\ opened' = opened \cup {c}
  /\ UNCHANGED <<process, nlive, dead, thr, index, queues, tables, stray>>

(* Variant: the descriptor stays open. *)
Refuse_Leaks == Hand("top", NULL) /\ UNCHANGED fds

(* The hand-over failed: the client is turned away. *)
Refuse == Close(acc.cli) /\ Hand("top", NULL)

(* work_add_session finds wi, or there is none. *)
work_add_session ==
  /\ acc.at = "add"
  /\ IF Priv(index) THEN Hand("lock", acc.cli) /\ UNCHANGED fds
     ELSE Refuse
  /\ UNCHANGED <<process, nlive, dead, thr, index, queues, tables>>

maxfds == (Max \div NWork) + 1

(* Its locked section: the client is queued, or the queue is full. *)
work_add_session_Locked ==
  /\ acc.at = "lock"
  /\ thr[index] = "run"
  /\ IF Len(inq[index]) >= maxfds
     THEN Refuse /\ UNCHANGED inq
     ELSE /\ inq' = [inq EXCEPT ![index] = Append(@, acc.cli)]
          /\ Hand("count", NULL)
          /\ UNCHANGED fds
  /\ UNCHANGED <<process, nlive, dead, thr, index, inq2, turn, tables>>

(* wi is being freed, or was: the section runs on memory nobody owns.  It sees no    *)
(* queue and turns the client away, or writes somewhere, or faults.                  *)
work_add_session_Freed ==
  /\ acc.at = "lock"
  /\ thr[index] \in {"close", "gone"}
  /\ \/ Refuse /\ UNCHANGED <<process, dead, thr>>
     \/ Hand("count", NULL) /\ UNCHANGED <<process, fds, dead, thr>>
     \/ Crash /\ UNCHANGED fds
  /\ UNCHANGED <<nlive, index, queues, tables>>

(* The worker after worker i. *)
Rotate(i) == IF i + 1 >= NWork THEN 0 ELSE i + 1

(* The last part of _accept_client: the client counts, and the next worker is due. *)
_accept_client_Counts ==
  /\ acc.at = "count"
  /\ nlive' = (nlive + 1) % Word
  /\ index' = Rotate(index)
  /\ Hand("top", NULL)
  /\ UNCHANGED <<process, dead, thr, queues, tables, fds>>

----------------------------------------------------------------------------
(* A work thread (work.c).  *)

(* The first part of _work_get_session, under wi->lock. *)
TakeQueue(w) ==
  /\ inq2' = [inq2 EXCEPT ![w] = inq[w]]
  /\ inq' = [inq EXCEPT ![w] = <<>>]

(* The descriptors q are still to be done, or the sessions come next. *)
Turn(w, q) == turn' = [turn EXCEPT ![w] = IF q = <<>> THEN "serve" ELSE "batch"]

(* A round of _work_loop begins, or the loop ends and _work_free begins. *)
_work_loop(w) ==
  /\ thr[w] = "run" /\ turn[w] = "top"
  /\ IF stop
     THEN thr' = [thr EXCEPT ![w] = "close"] /\ UNCHANGED queues
     ELSE TakeQueue(w) /\ Turn(w, inq[w]) /\ UNCHANGED thr
  /\ UNCHANGED <<process, nlive, dead, acc, index, tables, fds>>

(* A session no longer counts; nlive is unsigned and may go below zero. *)
Uncount == nlive' = (nlive - 1) % Word

(* Variant: the descriptor is in the session already when epoll_ctl fails. *)
AddFails_Twice(w, c) ==
  /\ session_table_pass(w)
  /\ opened' = opened \ {c} /\ stray' = TRUE
  /\ Uncount

(* epoll_ctl fails: the descriptor is closed, and the session, without it, freed. *)
AddFails(w, c) == session_table_pass(w) /\ Close(c) /\ Uncount

(* One descriptor of inq2: it gets a session; or there is no memory for one, or no    *)
(* id; or epoll, the server or the pipe of its session fails.                        *)
_work_get_session(w) ==
  LET c == Head(inq2[w])
  IN /\ thr[w] = "run" /\ turn[w] = "batch"
     /\ inq2' = [inq2 EXCEPT ![w] = Tail(@)]
     /\ Turn(w, Tail(inq2[w]))
     /\ \/ session_table_add(w, c) /\ UNCHANGED <<fds, nlive>>
        \/ (MayFail \/ TableFull(w)) /\ Close(c) /\ UNCHANGED <<tables, nlive>>
        \/ MayFail /\ AddFails(w, c)
     /\ UNCHANGED <<process, dead, thr, acc, index, inq>>

(* A session ends while _work_send_data or _work_recv_data work on it. *)
_work_free_session(w, id) ==
  /\ thr[w] = "run" /\ turn[w] = "serve"
  /\ table[w][id] # NULL
  /\ Close(table[w][id])
  /\ session_table_del(w, id)
  /\ Uncount
  /\ UNCHANGED <<process, dead, thr, acc, index, queues>>

ServedAll(w) ==
  /\ thr[w] = "run" /\ turn[w] = "serve"
  /\ turn' = [turn EXCEPT ![w] = "top"]
  /\ UNCHANGED <<process, nlive, dead, thr, acc, index, inq, inq2, tables, fds>>

(* The end of _work_free: priv is NULL and wi is freed.  Sessions and queue are left. *)
_work_free(w) ==
  /\ thr[w] = "close"
  /\ thr' = [thr EXCEPT ![w] = "gone"]
  /\ UNCHANGED <<process, nlive, dead, acc, index, queues, tables, fds>>

----------------------------------------------------------------------------
Main == _sig_int_Main \/ _proxy_init \/ thread_create \/ proxy_main

Accept == \/ InitFails(Acc) \/ _accept_init \/ _accept_loop \/ PollTimeout
          \/ \E c \in Client : _accept_client(c)
          \/ work_add_session \/ work_add_session_Locked \/ work_add_session_Freed
          \/ _accept_client_Counts

Worker(w) == \/ InitFails(w) \/ _work_init(w) \/ _work_loop(w) \/ _work_get_session(w)
             \/ ServedAll(w) \/ _work_free(w)
             \/ \E id \in Id : _work_free_session(w, id)

Next == \/ _sig_int_Early \/ _sig_int
        \/ Main \/ Accept
        \/ \E w \in Work : Worker(w)

Init ==
  /\ stop = FALSE /\ nlive = 0 /\ main = "init" /\ made = 0 /\ sig = FALSE /\ dead = FALSE
  /\ thr = [t \in Thread |-> "none"]
  /\ acc = [at |-> "top", cli |-> NULL] /\ index = 0
  /\ inq = [w \in Work |-> <<>>] /\ inq2 = [w \in Work |-> <<>>]
  /\ turn = [w \in Work |-> "top"]
  /\ table = [w \in Work |-> [id \in Id |-> NULL]]
  /\ nfreed = [w \in Work |-> Max] /\ freeid = [w \in Work |-> 0]
  /\ opened = {} /\ stray = FALSE

Spec == Init /\ [][Next]_vars

(* No thread waits for another except main for the rest at the end: poll and         *)
(* epoll_wait have timeouts, and sockets do not block.                               *)
FairSpec == /\ Spec
            /\ WF_vars(Main)
            /\ WF_vars(Accept)
            /\ \A w \in Work : WF_vars(Worker(w))

----------------------------------------------------------------------------
(* Properties.  *)

Queued(w) == {inq[w][i] : i \in DOMAIN inq[w]}
Batched(w) == {inq2[w][i] : i \in DOMAIN inq2[w]}
Live(w) == {table[w][id] : id \in Id} \ {NULL}
InService == UNION {Queued(w) \cup Batched(w) \cup Live(w) : w \in Work}

(* The types of the state. *)
TypeOK ==
  /\ stop \in BOOLEAN /\ sig \in BOOLEAN /\ dead \in BOOLEAN
  /\ nlive \in 0 .. Word - 1
  /\ main \in {"init", "create", "loop", "done"} /\ made \in 0 .. NWork + 1
  /\ thr \in [Thread -> {"none", "start", "run", "close", "gone", "failed"}]
  /\ acc \in [at : {"top", "poll", "add", "lock", "count"}, cli : Client \cup {NULL}]
  /\ index \in Work
  /\ inq \in [Work -> Seq(Client)] /\ inq2 \in [Work -> Seq(Client)]
  /\ turn \in [Work -> {"top", "batch", "serve"}]
  /\ table \in [Work -> [Id -> Client \cup {NULL}]]
  /\ nfreed \in [Work -> 0 .. Max] /\ freeid \in [Work -> 0 .. Max]
  /\ opened \subseteq Client /\ stray \in BOOLEAN

(* The limit on concurrency holds although nlive is tested without the lock and       *)
(* counted only after the hand-over, when the session may have ended already and the *)
(* unsigned counter has gone below zero (accept.c 129, 159; work.c 498).             *)
Admitted == Cardinality(InService) <= Max

(* When the accept thread tests nlive it is at least the number of clients in        *)
(* service and within the limit: the underflow is over.                              *)
NliveCovers == acc.at \in {"top", "poll"} => nlive >= Cardinality(InService) /\ nlive <= Max

(* The limit on sessions, and why it holds: the accept thread tests nlive only when it  *)
(* covers all clients in service.                                                    *)
Limited == TypeOK /\ NliveCovers /\ Admitted

(* Until the proxy stops, an open descriptor has one owner, the accept thread, one   *)
(* place in a queue or one session, and nobody has one that was closed, and perhaps  *)
(* opened again for another client: none leaks, none is closed twice.                *)
Places(c) ==
  {<<"accept", 0, 0>> : x \in {y \in {acc} : y.cli = c}}
    \cup UNION {     {<<"inq", w, i>> : i \in {j \in DOMAIN inq[w] : inq[w][j] = c}}
                \cup {<<"inq2", w, i>> : i \in {j \in DOMAIN inq2[w] : inq2[w][j] = c}}
                \cup {<<"table", w, id>> : id \in {j \in Id : table[w][j] = c}} : w \in Work}
OneOwner ==
  /\ ~stray
  /\ ~stop => \A c \in Client : Cardinality(Places(c)) = IF c \in opened THEN 1 ELSE 0

(* A client that was let in always finds an id: session_table_add cannot fail for     *)
(* lack of room, nfreed is exact, and the search for an id finds one (session.c 71). *)
RoomForAll ==
  \A w \in Work : /\ nfreed[w] = Cardinality({id \in Id : table[w][id] = NULL})
                  /\ inq2[w] # <<>> => ~TableFull(w)

(* Until the proxy stops, the accept thread never works on a queue that is freed.    *)
OwnedQueue == acc.at = "lock" /\ ~stop => thr[index] = "run"

(* Until the proxy stops, what is handed over has one owner, and so has the queue it   *)
(* goes through.                                                                     *)
Owned == OneOwner /\ OwnedQueue

Over == main = "done"

(* Every client that was taken gets a session or is closed, unless the proxy stops.  *)
Handled ==
  \A c \in Client : acc.cli = c ~> (stop \/ Over \/ c \notin opened \/ \E w \in Work : c \in Live(w))

(* A stop, from whatever thread the signal came, ends all threads and the process; so  *)
(* does a thread that cannot initialise, and no proxy is left that serves nobody.     *)
Stops == (stop \/ sig \/ \E t \in Thread : thr[t] = "failed") ~> Over

(* What proxy.h says of nlive, "live session number": without a client in service    *)
(* the accept thread finds 0.                                                        *)
NliveExact == acc.at = "poll" /\ InService = {} => nlive = 0

(* The accept thread never works on a queue that is freed, at the stop neither.      *)
NoUseAfterFree == acc.at = "lock" => thr[index] = "run"
=============================================================================
