------------------------------ MODULE Daemon -------------------------------
(***************************************************************************)
(* The life of the tproxyd process: the main thread initialises the        *)
(* policies, starts the worker threads, hands every policy to every worker *)
(* through the worker's command list, sleeps until SIGINT and then joins   *)
(* the workers and frees everything.  A policy is shared by all threads    *)
(* and counted: refcnt starts at 0 for the proxy's own pointer, a clone    *)
(* adds one, and the policy_free that finds 0 frees it.                    *)
(*                                                                         *)
(* What a worker does with one session is the module Session; here a       *)
(* session is what it holds of its policy.                                 *)
(***************************************************************************)
EXTENDS Integers, Sequences, FiniteSets

CONSTANTS
  NPolicy,      \* policies in pllist
  NWorker,      \* nworker
  MaxSsn,       \* sessions of one policy in one worker at a time
  MaxInt,       \* SIGINTs the process gets from outside
  MayFail       \* TRUE: system calls and malloc may fail

ASSUME DaemonAssumption ==
  /\ NPolicy \in Nat \ {0} /\ NWorker \in Nat \ {0}
  /\ MaxSsn \in Nat /\ MaxInt \in Nat
  /\ MayFail \in BOOLEAN

Policy == 1..NPolicy
Index  == 1..NWorker

VARIABLES
  g_stop,     \* the stop flag
  sig,        \* SIGINT is pending for the main thread
  nint,       \* SIGINTs so far
  pc,         \* position of the main thread
  at,         \* <<policy, worker>> of _py_loop, or worker of the other loops
  wpc,        \* position of each worker thread
  priv,       \* priv[i]: ti->priv is set
  mem,        \* mem[i]: the worker_t of worker i
  lock,       \* lock[i]: who holds wi->lock
  cmdlist,    \* commands added for worker i
  todo,       \* commands that worker i took and runs
  lfds,       \* lfds[i]: the policies worker i listens for
  failed,     \* history: failed[i]: the policies whose listener failed in worker i
  ssn,        \* ssn[i][p]: sessions of policy p in worker i
  refcnt,     \* pl->refcnt
  freed,      \* the policies that were freed
  data,       \* the policies whose running data exists
  lost        \* lost[p]: references to p that nobody can give back

main    == <<g_stop, sig, nint, pc, at>>
workers == <<wpc, priv, mem, lock, cmdlist, todo, lfds, failed, ssn>>
pols    == <<refcnt, freed, data, lost>>
vars    == <<main, workers, pols>>

Running == pc \notin {"done", "aborted"}

-----------------------------------------------------------------------------
(* policy_clone and policy_free on n references to p at once.              *)

policy_clone(p) == refcnt' = [refcnt EXCEPT ![p] = @ + 1]

policy_free(p, n) ==
  /\ refcnt' = [refcnt EXCEPT ![p] = @ - n]
  /\ freed' = IF n > refcnt[p] THEN freed \union {p} ELSE freed
  /\ data' = IF n > refcnt[p] THEN data \ {p} ELSE data

-----------------------------------------------------------------------------
(* The main thread.                                                        *)

Goto(l) == pc' = l

\* _py_init_data: policy_init_data for every policy.
_py_init_data ==
  /\ pc = "init"
  /\ \/ data' = Policy /\ Goto("create")
     \/ MayFail /\ (\E n \in 0..(NPolicy - 1) : data' = 1..n) /\ Goto("release")
  /\ UNCHANGED <<g_stop, sig, nint, at, workers, refcnt, freed, lost>>

\* thread_create, whose failure proxy_main does not look at.
thread_create ==
  /\ pc = "create"
  /\ LET i == at[2]
     IN  /\ \/ wpc' = [wpc EXCEPT ![i] = "start"]
            \/ MayFail /\ UNCHANGED wpc
         /\ IF i < NWorker THEN at' = <<1, i + 1>> /\ UNCHANGED pc
            ELSE at' = <<1, 1>> /\ Goto("clone")
  /\ UNCHANGED <<g_stop, sig, nint, priv, mem, lock, cmdlist, todo, lfds, failed, ssn, pols>>

\* sleep(1), then for each policy and worker a command with a cloned policy.
_py_loop_clone ==
  /\ pc = "clone"
  /\ \/ policy_clone(at[1]) /\ Goto("get") /\ UNCHANGED at
     \/ MayFail /\ Goto("join") /\ at' = <<1, 1>> /\ UNCHANGED refcnt
  /\ UNCHANGED <<g_stop, sig, nint, workers, freed, data, lost>>

\* worker_add_cmd looks at ti->priv; an error ends _py_loop.
worker_add_cmd_get ==
  /\ pc = "get"
  /\ IF priv[at[2]]
     THEN Goto("assert") /\ UNCHANGED <<at, refcnt, freed, data>>
     ELSE policy_free(at[1], 1) /\ Goto("join") /\ at' = <<1, 1>>
  /\ UNCHANGED <<g_stop, sig, nint, workers, lost>>

\* _worker_lock: assert(ti->priv), then the mutex of what it points to, which
\* may be gone when the worker stops between the two.
_worker_lock_assert ==
  /\ pc = "assert"
  /\ Goto(IF priv[at[2]] THEN "lock" ELSE "aborted")
  /\ UNCHANGED <<g_stop, sig, nint, at, workers, pols>>

_worker_lock ==
  /\ pc = "lock"
  /\ LET i == at[2]
     IN  \/ /\ mem[i] # "freed" /\ lock[i] = "none"
            /\ lock' = [lock EXCEPT ![i] = "main"] /\ Goto("append")
         \/ mem[i] = "freed" /\ pc' \in {"append", "aborted"} /\ UNCHANGED lock
  /\ UNCHANGED <<g_stop, sig, nint, at, wpc, priv, mem, cmdlist, todo, lfds, failed, ssn, pols>>

\* The command is linked into the list that was found before the lock; in a
\* worker_t that was freed meanwhile it is lost, or the process crashes.
worker_add_cmd_append ==
  /\ pc = "append"
  /\ LET p == at[1]
         i == at[2]
     IN  \/ /\ mem[i] # "freed"
            /\ cmdlist' = [cmdlist EXCEPT ![i] = Append(@, p)]
            /\ Goto("unlock") /\ UNCHANGED lost
         \/ /\ mem[i] = "freed"
            /\ pc' \in {"unlock", "aborted"}
            /\ lost' = [lost EXCEPT ![p] = @ + 1]
            /\ UNCHANGED cmdlist
  /\ UNCHANGED <<g_stop, sig, nint, at, wpc, priv, mem, lock, todo, lfds, failed, ssn,
                 refcnt, freed, data>>

\* Variant: the loop over the workers stops one early.
_worker_unlock_ShortLoop ==
  /\ pc = "unlock"
  /\ LET p == at[1]
         i == at[2]
     IN  IF i < NWorker - 1 THEN at' = <<p, i + 1>> /\ Goto("clone")
         ELSE IF p < NPolicy THEN at' = <<p + 1, 1>> /\ Goto("clone")
         ELSE at' = <<1, 1>> /\ Goto("sleep")
  /\ lock' = [lock EXCEPT ![at[2]] = "none"]
  /\ UNCHANGED <<g_stop, sig, nint, wpc, priv, mem, cmdlist, todo, lfds, failed, ssn, pols>>

\* _worker_unlock asserts ti->priv too; then the loops of _py_loop go on.
_worker_unlock ==
  /\ pc = "unlock"
  /\ LET p == at[1]
         i == at[2]
     IN  IF ~priv[i] THEN Goto("aborted") /\ UNCHANGED <<at, lock>>
         ELSE /\ lock' = [lock EXCEPT ![i] = "none"]
              /\ IF i < NWorker THEN at' = <<p, i + 1>> /\ Goto("clone")
                 ELSE IF p < NPolicy THEN at' = <<p + 1, 1>> /\ Goto("clone")
                 ELSE at' = <<1, 1>> /\ Goto("sleep")
  /\ UNCHANGED <<g_stop, sig, nint, wpc, priv, mem, cmdlist, todo, lfds, failed, ssn, pols>>

\* while (!g_stop) sleep(1)
_py_loop_sleep ==
  /\ pc = "sleep" /\ g_stop /\ Goto("join")
  /\ UNCHANGED <<g_stop, sig, nint, at, workers, pols>>

\* Variant: the last worker is not joined.
thread_join_Skip ==
  /\ pc = "join"
  /\ LET i == at[2]
     IN  /\ i = NWorker \/ wpc[i] \in {"absent", "exit"}
         /\ IF i < NWorker THEN at' = <<1, i + 1>> /\ UNCHANGED pc
            ELSE Goto("free") /\ UNCHANGED at
  /\ UNCHANGED <<g_stop, sig, nint, workers, pols>>

\* thread_join returns at once for a thread that was not created.
thread_join ==
  /\ pc = "join"
  /\ LET i == at[2]
     IN  /\ wpc[i] \in {"absent", "exit"}
         /\ IF i < NWorker THEN at' = <<1, i + 1>> /\ UNCHANGED pc
            ELSE Goto("free") /\ UNCHANGED at
  /\ UNCHANGED <<g_stop, sig, nint, workers, pols>>

_py_free_data ==
  /\ pc = "free"
  /\ data' = {} /\ Goto("release")
  /\ UNCHANGED <<g_stop, sig, nint, at, workers, refcnt, freed, lost>>

\* _release: proxy_free gives up the proxy's pointer to every policy.
proxy_free ==
  /\ pc = "release" /\ Goto("done")
  /\ refcnt' = [p \in Policy |-> refcnt[p] - 1]
  /\ freed' = freed \union {p \in Policy : refcnt[p] = 0}
  /\ data' = data \ {p \in Policy : refcnt[p] = 0}
  /\ UNCHANGED <<g_stop, sig, nint, at, workers, lost>>

Main ==
  \/ _py_init_data \/ thread_create \/ _py_loop_clone \/ worker_add_cmd_get
  \/ _worker_lock_assert \/ _worker_lock \/ worker_add_cmd_append
  \/ _worker_unlock \/ _py_loop_sleep \/ thread_join \/ _py_free_data \/ proxy_free

-----------------------------------------------------------------------------
(* SIGINT.  In a worker thread the handler passes it on to the main thread. *)

Interrupt ==
  /\ Running /\ nint < MaxInt
  /\ nint' = nint + 1
  /\ \/ g_stop' = TRUE /\ UNCHANGED sig
     \/ (\E i \in Index : wpc[i] \notin {"absent", "exit"})
        /\ sig' = (sig \/ ~g_stop) /\ UNCHANGED g_stop
  /\ UNCHANGED <<pc, at, workers, pols>>

_sig_int ==
  /\ Running /\ sig
  /\ g_stop' = TRUE /\ sig' = FALSE
  /\ UNCHANGED <<nint, pc, at, workers, pols>>

-----------------------------------------------------------------------------
(* A worker thread.                                                        *)

Step(i, from, to) == Running /\ wpc[i] = from /\ wpc' = [wpc EXCEPT ![i] = to]

\* worker_run up to the loop: every failure interrupts the main thread.
_worker_init(i) ==
  /\ \/ Step(i, "start", "loop")
        /\ priv' = [priv EXCEPT ![i] = TRUE] /\ mem' = [mem EXCEPT ![i] = "live"]
        /\ UNCHANGED sig
     \/ MayFail /\ Step(i, "start", "exit") /\ sig' = TRUE /\ UNCHANGED <<priv, mem>>
  /\ UNCHANGED <<g_stop, nint, pc, at, lock, cmdlist, todo, lfds, failed, ssn, pols>>

\* Variant: the loop goes on until the last session is gone.
_worker_loop_Drain(i) ==
  /\ g_stop
  /\ IF \A p \in Policy : ssn[i][p] = 0 THEN Step(i, "loop", "free")
     ELSE Step(i, "loop", "run")
  /\ UNCHANGED <<main, priv, mem, lock, cmdlist, todo, lfds, failed, ssn, pols>>

\* The end of the loop.
_worker_loop(i) ==
  /\ Step(i, "loop", "free") /\ g_stop
  /\ UNCHANGED <<main, priv, mem, lock, cmdlist, todo, lfds, failed, ssn, pols>>

\* The commands are taken under the lock.
_worker_get_cmd(i) ==
  /\ Step(i, "loop", "run") /\ ~g_stop /\ lock[i] = "none"
  /\ todo' = [todo EXCEPT ![i] = cmdlist[i]]
  /\ cmdlist' = [cmdlist EXCEPT ![i] = <<>>]
  /\ UNCHANGED <<main, priv, mem, lock, lfds, failed, ssn, pols>>

\* _worker_run_cmd, _worker_add_policy: the command's reference becomes that of
\* the listener_fd.  It is forgotten when listener_alloc_fd fails, and given back
\* by listener_free_fd when the descriptor does not fit in the event table.
_worker_add_policy(i) ==
  /\ Step(i, "run", "run") /\ todo[i] # <<>>
  /\ todo' = [todo EXCEPT ![i] = Tail(@)]
  /\ LET p == Head(todo[i])
     IN  \/ lfds' = [lfds EXCEPT ![i] = @ \union {p}]
            /\ UNCHANGED <<failed, refcnt, freed, data, lost>>
         \/ /\ MayFail
            /\ failed' = [failed EXCEPT ![i] = @ \union {p}]
            /\ \/ lost' = [lost EXCEPT ![p] = @ + 1] /\ UNCHANGED <<refcnt, freed, data>>
               \/ policy_free(p, 1) /\ UNCHANGED lost
            /\ UNCHANGED lfds
  /\ UNCHANGED <<main, priv, mem, lock, cmdlist, ssn>>

\* Nothing is ready within waittime, or what is ready changes no session.
_worker_poll(i) ==
  /\ Step(i, "run", "loop") /\ todo[i] = <<>>
  /\ UNCHANGED <<main, priv, mem, lock, cmdlist, todo, lfds, failed, ssn, pols>>

\* listener_accept: a session clones the policy.
_worker_accept(i) ==
  /\ Step(i, "run", "loop") /\ todo[i] = <<>>
  /\ \E p \in lfds[i] :
       /\ ssn[i][p] < MaxSsn
       /\ ssn' = [ssn EXCEPT ![i][p] = @ + 1]
       /\ policy_clone(p)
  /\ UNCHANGED <<main, priv, mem, lock, cmdlist, todo, lfds, failed, freed, data,
                 lost>>

\* session_free in task_run_queue.
_worker_delete(i) ==
  /\ Step(i, "run", "loop") /\ todo[i] = <<>>
  /\ \E p \in Policy :
       /\ ssn[i][p] > 0
       /\ ssn' = [ssn EXCEPT ![i][p] = @ - 1]
       /\ policy_free(p, 1)
  /\ UNCHANGED <<main, priv, mem, lock, cmdlist, todo, lfds, failed, lost>>

\* Variant: only the listener's reference is given up.
_worker_free_lfd_KeepSessions(i) ==
  /\ Step(i, "free", "free")
  /\ \E p \in lfds[i] :
       /\ lfds' = [lfds EXCEPT ![i] = @ \ {p}]
       /\ ssn' = [ssn EXCEPT ![i][p] = 0]
       /\ policy_free(p, 1)
  /\ UNCHANGED <<main, priv, mem, lock, cmdlist, todo, failed, lost>>

\* _worker_free, listener_free_fd: the sessions of a listener, then itself.
_worker_free_lfd(i) ==
  /\ Step(i, "free", "free")
  /\ \E p \in lfds[i] :
       /\ lfds' = [lfds EXCEPT ![i] = @ \ {p}]
       /\ ssn' = [ssn EXCEPT ![i][p] = 0]
       /\ policy_free(p, ssn[i][p] + 1)
  /\ UNCHANGED <<main, priv, mem, lock, cmdlist, todo, failed, lost>>

\* ti->priv = NULL
_worker_free_priv(i) ==
  /\ Step(i, "free", "clear") /\ lfds[i] = {}
  /\ priv' = [priv EXCEPT ![i] = FALSE]
  /\ UNCHANGED <<main, mem, lock, cmdlist, todo, lfds, failed, ssn, pols>>

\* free(wi), with the commands that were never taken.
_worker_free_mem(i) ==
  /\ Step(i, "clear", "exit")
  /\ mem' = [mem EXCEPT ![i] = "freed"]
  /\ cmdlist' = [cmdlist EXCEPT ![i] = <<>>]
  /\ lost' = [p \in Policy |->
               lost[p] + Cardinality({n \in DOMAIN cmdlist[i] : cmdlist[i][n] = p})]
  /\ UNCHANGED <<main, priv, lock, todo, lfds, failed, ssn, refcnt, freed, data>>

Worker(i) ==
  \/ _worker_init(i) \/ _worker_loop(i) \/ _worker_get_cmd(i)
  \/ _worker_add_policy(i) \/ _worker_poll(i) \/ _worker_accept(i)
  \/ _worker_delete(i) \/ _worker_free_lfd(i) \/ _worker_free_priv(i)
  \/ _worker_free_mem(i)

\* The process is gone.
Ended == ~Running /\ UNCHANGED vars

Init ==
  /\ g_stop = FALSE /\ sig = FALSE /\ nint = 0
  /\ pc = "init" /\ at = <<1, 1>>
  /\ wpc = [i \in Index |-> "absent"]
  /\ priv = [i \in Index |-> FALSE]
  /\ mem = [i \in Index |-> "none"]
  /\ lock = [i \in Index |-> "none"]
  /\ cmdlist = [i \in Index |-> <<>>]
  /\ todo = [i \in Index |-> <<>>]
  /\ lfds = [i \in Index |-> {}] /\ failed = [i \in Index |-> {}]
  /\ ssn = [i \in Index |-> [p \in Policy |-> 0]]
  /\ refcnt = [p \in Policy |-> 0]
  /\ freed = {} /\ data = {}
  /\ lost = [p \in Policy |-> 0]

Next == Main \/ Interrupt \/ _sig_int \/ (\E i \in Index : Worker(i)) \/ Ended

Spec == Init /\ [][Next]_vars

\* Threads are scheduled and a pending signal is delivered.
FairSpec ==
  /\ Spec
  /\ WF_vars(Main) /\ WF_vars(_sig_int)
  /\ \A i \in Index : WF_vars(Worker(i))

-----------------------------------------------------------------------------
(* Properties.                                                             *)

\* References to p that somebody will give back, besides the proxy's own: those of
\* commands, listeners and sessions, and the one in the hand of the main thread.
Refs(i, p) ==
       {<<"cmdlist", i, n>> : n \in {m \in DOMAIN cmdlist[i] : cmdlist[i][m] = p}}
  \cup {<<"todo", i, n>> : n \in {m \in DOMAIN todo[i] : todo[i][m] = p}}
  \cup {<<"lfd", i, q>> : q \in lfds[i] \cap {p}}
  \cup {<<"ssn", i, n>> : n \in 1..ssn[i][p]}
InHand(p) == IF at[1] = p /\ pc \in {"get", "assert", "lock", "append"} THEN 1 ELSE 0
Held(p) == Cardinality(UNION {Refs(i, p) : i \in Index}) + InHand(p)

\* State types of all three threads; no count of references goes below the
\* one free proxy_free leaves.
TypeOK ==
  /\ g_stop \in BOOLEAN /\ sig \in BOOLEAN /\ nint \in 0..MaxInt
  /\ pc \in {"init", "create", "clone", "get", "assert", "lock", "append", "unlock",
             "sleep", "join", "free", "release", "done", "aborted"}
  /\ at \in Policy \X Index
  /\ wpc \in [Index -> {"absent", "start", "loop", "run", "free", "clear", "exit"}]
  /\ priv \in [Index -> BOOLEAN]
  /\ mem \in [Index -> {"none", "live", "freed"}]
  /\ lock \in [Index -> {"none", "main"}]
  /\ cmdlist \in [Index -> Seq(Policy)] /\ todo \in [Index -> Seq(Policy)]
  /\ lfds \in [Index -> SUBSET Policy] /\ failed \in [Index -> SUBSET Policy]
  /\ ssn \in [Index -> [Policy -> 0..MaxSsn]]
  /\ refcnt \in [Policy -> Int] /\ \A p \in Policy : refcnt[p] >= -1
  /\ freed \in SUBSET Policy /\ data \in SUBSET Policy
  /\ lost \in [Policy -> Nat]

\* refcnt is the number of references in command lists, listeners and
\* sessions of all workers, plus those that were lost: whatever the order in
\* which threads clone, free, stop and fail.
RefsExact ==
  pc # "aborted" => \A p \in Policy :
    refcnt[p] = Held(p) + lost[p] - (IF pc = "done" THEN 1 ELSE 0)

\* A policy that a command, a listener or a session points to is not freed.
PolicyAlive == \A p \in freed : Held(p) = 0

\* policy_clone_ltndata and policy_clone_spdata find running data: the main
\* thread frees it only when no worker can ask for it.
DataAlive ==
  \A i \in Index : wpc[i] \in {"loop", "run"} => lfds[i] \subseteq data

\* Nobody uses what was freed: policies and running data live as long as a
\* command, a listener or a session refers to them.
Alive == TypeOK /\ PolicyAlive /\ DataAlive

\* Policy p has reached worker i, as a command or a listener, or its listener
\* failed, or the worker stopped.
Reached(i, p) ==
  \/ p \in lfds[i] \union failed[i]
  \/ \E n \in DOMAIN cmdlist[i] : cmdlist[i][n] = p
  \/ \E n \in DOMAIN todo[i] : todo[i][n] = p
  \/ wpc[i] \in {"free", "clear", "exit"}

\* When the main thread sleeps, every policy has reached every worker that did
\* not stop.
Delivered == pc = "sleep" => \A i \in Index, p \in Policy : Reached(i, p)

\* A stop request ends the process.
Stops == g_stop ~> ~Running

\* The assertions of _worker_lock and _worker_unlock: from worker_add_cmd's look
\* at ti->priv to its end the worker has its worker_t.
WorkerAlive ==
  pc \in {"assert", "lock", "append", "unlock"} => priv[at[2]]

\* _py_loop returns only when the program is to stop.
LoopsUntilStop == pc = "join" => g_stop

\* A worker frees every command that was added to it.
CommandsFreed ==
  [][\A i \in Index : wpc[i] = "clear" /\ wpc'[i] = "exit" => cmdlist[i] = <<>>]_vars
=============================================================================
