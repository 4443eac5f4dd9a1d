----------------------------- MODULE ProcMain ------------------------------
(***************************************************************************)
(* The processes of the process proxies (proxy/pproxy and                  *)
(* socket/proxy/mprocess, main.c, childproc.c and proxy.c): the main       *)
(* process forks its children, sleeps until SIGINT, and then stops each    *)
(* child with SIGUSR1 and waits for it.  SIGCHLD is ignored, so the kernel *)
(* removes a child that has ended at once and may give its pid to another  *)
(* program; waitpid then fails.                                            *)
(*                                                                         *)
(* The two proxies differ in what a child does with a signal: pproxy stops *)
(* on SIGINT and dies of SIGUSR1; mprocess ignores SIGINT and stops on     *)
(* SIGUSR1.  Before a child has set its handlers it has main's SIGINT      *)
(* handler, which sets a flag the child never reads, and dies of SIGUSR1.  *)
(* Names differ from ProcWork's, so that one proof module can extend both. *)
(***************************************************************************)
EXTENDS Integers, FiniteSets

CONSTANTS NChild,   \* the number of children
          Pid,      \* pids, numbers above 1
          Kind,     \* which proxies: "pproxy", "mprocess"
          MayCrash  \* fork and initialisation fail, children crash

ASSUME ProcAssumption ==
  /\ NChild \in Nat \ {0}
  /\ Pid \subseteq Nat \ {0, 1}
  /\ Kind \subseteq {"pproxy", "mprocess"} /\ Kind # {}
  /\ MayCrash \in BOOLEAN

VARIABLES pc,      \* main: init, create, loop, destroy, wait, done
          slot,    \* i, its loop variable
          pid,     \* pid[n]: cproc_t.pid of child n, 0 if there is none
          proc,    \* proc[p]: none, other; new or run for a child of main
          stop,    \* main's _g_stop
          cstop,   \* the children whose stop flag is set
          stray,   \* another program was sent SIGUSR1
          killed,  \* a child that had set its handlers died of a signal
          kind     \* which proxy it is

procvars == <<pc, slot, pid, proc, stop, cstop, stray, killed, kind>>

Children == {p \in Pid : proc[p] \in {"new", "run"}}

----------------------------------------------------------------------------
(* The main process.  *)

_initiate ==
  /\ pc = "init" /\ pc' = "create" /\ slot' = 1
  /\ UNCHANGED <<pid, proc, stop, cstop, stray, killed, kind>>

MoreChildren(n) == n <= NChild

(* fork gives an unused pid, or fails, which nobody looks at. *)
cproc_create ==
  /\ pc = "create" /\ MoreChildren(slot)
  /\ slot' = slot + 1
  /\ \/ \E p \in Pid : /\ proc[p] = "none"
                       /\ pid' = [pid EXCEPT ![slot] = p]
                       /\ proc' = [proc EXCEPT ![p] = "new"]
     \/ MayCrash /\ UNCHANGED <<pid, proc>>
  /\ UNCHANGED <<pc, stop, cstop, stray, killed, kind>>

_create_workers ==
  /\ pc = "create" /\ ~MoreChildren(slot)
  /\ pc' = "loop"
  /\ UNCHANGED <<slot, pid, proc, stop, cstop, stray, killed, kind>>

_do_loop ==
  /\ pc = "loop" /\ stop
  /\ pc' = "destroy" /\ slot' = 1
  /\ UNCHANGED <<pid, proc, stop, cstop, stray, killed, kind>>

(* Variant: SIGINT is sent in place of SIGUSR1. *)
StopChild_Int(p) ==
  IF kind = "pproxy" /\ proc[p] = "run"
  THEN cstop' = cstop \cup {p} /\ UNCHANGED <<proc, killed>>
  ELSE UNCHANGED <<proc, cstop, killed>>

(* SIGUSR1 reaches child p: mprocess has a handler for it once it runs. *)
StopChild(p) ==
  IF kind = "mprocess" /\ proc[p] = "run"
  THEN cstop' = cstop \cup {p} /\ UNCHANGED <<proc, killed>>
  ELSE /\ proc' = [proc EXCEPT ![p] = "none"]
       /\ cstop' = cstop \ {p}
       /\ killed' = (killed \/ proc[p] = "run")

(* Variant: main does not wait for the child. *)
Waits_Not(p) == pc' = "destroy" /\ slot' = slot + 1

(* kill succeeded, waitpid follows. *)
Waits(p) == pc' = "wait" /\ UNCHANGED slot

(* kill(cp->pid, SIGUSR1): no such process, another program's, or the child. *)
cproc_destroy ==
  /\ pc = "destroy" /\ slot <= NChild
  /\ LET p == pid[slot]
     IN \/ /\ p = 0 \/ (p # 0 /\ proc[p] = "none")
           /\ slot' = slot + 1
           /\ UNCHANGED <<pc, proc, cstop, stray, killed>>
        \/ /\ p # 0 /\ proc[p] = "other"
           /\ slot' = slot + 1 /\ stray' = TRUE
           /\ UNCHANGED <<pc, proc, cstop, killed>>
        \/ /\ p # 0 /\ p \in Children
           /\ Waits(p) /\ StopChild(p)
           /\ UNCHANGED stray
  /\ UNCHANGED <<pid, stop, kind>>

(* waitpid returns when the child is gone. *)
waitpid ==
  /\ pc = "wait" /\ pid[slot] \notin Children
  /\ pc' = "destroy" /\ slot' = slot + 1
  /\ UNCHANGED <<pid, proc, stop, cstop, stray, killed, kind>>

_destroy_workers ==
  /\ pc = "destroy" /\ slot > NChild
  /\ pc' = "done"
  /\ UNCHANGED <<slot, pid, proc, stop, cstop, stray, killed, kind>>

----------------------------------------------------------------------------
(* Signals from outside.  *)

(* main before and after it has its handler. *)
_sig_stop ==
  IF pc = "init" THEN pc' = "done" /\ UNCHANGED stop
  ELSE stop' = TRUE /\ UNCHANGED pc

(* SIGINT to main, or from the terminal to main and all its children. *)
SigInt(group) ==
  /\ pc # "done" /\ ~stop
  /\ _sig_stop
  /\ cstop' = IF group /\ kind = "pproxy" THEN cstop \cup {p \in Pid : proc[p] = "run"} ELSE cstop
  /\ UNCHANGED <<slot, pid, proc, stray, killed, kind>>

----------------------------------------------------------------------------
(* The children and other programs.  *)

(* Child p is gone. *)
Ends(p) ==
  /\ proc' = [proc EXCEPT ![p] = "none"]
  /\ cstop' = cstop \ {p}
  /\ UNCHANGED <<pc, slot, pid, stop, stray, killed, kind>>

(* _proxy_init sets the handlers and, in mprocess, all the rest; or it fails. *)
_proxy_init(p) ==
  /\ proc[p] = "new"
  /\ \/ /\ proc' = [proc EXCEPT ![p] = "run"]
        /\ UNCHANGED <<pc, slot, pid, stop, cstop, stray, killed, kind>>
     \/ MayCrash /\ Ends(p)

(* The loop of the child sees its flag, and proxy_main returns. *)
proxy_main(p) == proc[p] = "run" /\ p \in cstop /\ Ends(p)

(* An assertion fails, or _worker_init does. *)
ChildFails(p) == MayCrash /\ proc[p] = "run" /\ Ends(p)

(* Another program gets a pid that is free, and ends. *)
OtherStarts(p) ==
  /\ proc[p] = "none" /\ proc' = [proc EXCEPT ![p] = "other"]
  /\ UNCHANGED <<pc, slot, pid, stop, cstop, stray, killed, kind>>

OtherEnds(p) ==
  /\ proc[p] = "other" /\ proc' = [proc EXCEPT ![p] = "none"]
  /\ UNCHANGED <<pc, slot, pid, stop, cstop, stray, killed, kind>>

----------------------------------------------------------------------------
Main == \/ _initiate \/ cproc_create \/ _create_workers \/ _do_loop
        \/ cproc_destroy \/ waitpid \/ _destroy_workers

Child(p) == _proxy_init(p) \/ proxy_main(p)

ProcNext ==
  \/ Main
  \/ \E group \in BOOLEAN : SigInt(group)
  \/ \E p \in Pid : Child(p) \/ ChildFails(p) \/ OtherStarts(p) \/ OtherEnds(p)

ProcInit ==
  /\ pc = "init" /\ slot = 1
  /\ pid = [n \in 1 .. NChild |-> 0]
  /\ proc = [p \in Pid |-> "none"]
  /\ stop = FALSE /\ cstop = {} /\ stray = FALSE /\ killed = FALSE
  /\ kind \in Kind

ProcSpec == ProcInit /\ [][ProcNext]_procvars

(* Processes are scheduled, and pids do not run out for ever. *)
ProcFairSpec ==
  /\ ProcSpec
  /\ WF_procvars(Main)
  /\ \A p \in Pid : WF_procvars(Child(p)) /\ WF_procvars(OtherEnds(p))

----------------------------------------------------------------------------
(* Properties.  *)

(* The types of the state. *)
ProcTypeOK ==
  /\ pc \in {"init", "create", "loop", "destroy", "wait", "done"}
  /\ slot \in 1 .. NChild + 1
  /\ pid \in [1 .. NChild -> Pid \cup {0}]
  /\ proc \in [Pid -> {"none", "other", "new", "run"}]
  /\ cstop \subseteq Children
  /\ stop \in BOOLEAN /\ stray \in BOOLEAN /\ killed \in BOOLEAN /\ kind \in Kind

(* No child is left behind when main has ended, whichever children had crashed, were   *)
(* still starting, or had lost their pid to another program.                         *)
NoneLeft == pc = "done" => Children = {}

(* A SIGINT, to main alone or to all, ends all processes, whatever the children were    *)
(* doing when it came.                                                               *)
Stops == stop ~> (pc = "done" /\ Children = {})

(* Only "a child process" is destroyed (childproc.h 40).                              *)
OwnOnly == ~stray

(* A child ends by its stop flag, which all "will check ... to decide stop running"    *)
(* (pproxy/proxy.c 28).                                                              *)
StopsByFlag == ~killed
=============================================================================
