------------------------------ MODULE SvrPool ------------------------------
(***************************************************************************)
(* The running data of one server pool: svrpool_data with one server_data  *)
(* for each server, shared by the worker threads without a lock.  A worker *)
(* takes a server for a session with atomic additions only: it clones the  *)
(* pool data, draws a position, clones the server data and gives the pool  *)
(* data back.  The main thread allocates the data before the workers start *)
(* and frees it after they were joined, when each has freed its sessions.  *)
(***************************************************************************)
EXTENDS Integers, FiniteSets, FiniteSetsExt

CONSTANTS
  NServer,    \* servers in svrlist
  Worker,     \* the worker threads
  Slot,       \* the sessions a worker may have at a time
  Conf,       \* the configurations: mode, and weight and address of servers
  Address,    \* addresses of servers and of original destinations
  INT_MAX,    \* the largest int
  MaxGet,     \* bound: sessions that ask for a server
  MayFail     \* TRUE: an allocation may fail

Server  == 0..(NServer - 1)
Session == Worker \X Slot
NULL    == -1

ASSUME SvrPoolAssumption ==
  /\ NServer \in Nat \ {0} /\ INT_MAX \in Nat /\ MaxGet \in Nat
  /\ IsFiniteSet(Worker) /\ IsFiniteSet(Slot)
  /\ Conf \subseteq [reverse : BOOLEAN,
                     server : [Server -> [weight : Nat \ {0}, address : Address]]]
  /\ MayFail \in BOOLEAN

VARIABLES
  phase,    \* main: "init", "run", "stop", "free", "done"; "unwind" and
            \* "freed" when the listener's data failed; "crash"
  cfg,      \* cfg.reverse: PL_MODE_REVERSE; cfg.server[j]: weight and address
  gcd,      \* spdata->gcd
  rrpos,    \* spdata->rrpos
  spref,    \* spdata->refcnt
  sdref,    \* sdref[j]: refcnt of server_data j
  svref,    \* svref[j]: refcnt of server j
  splive,   \* spdata is allocated
  sdlive,   \* the server_data that are allocated
  server,   \* the servers that are allocated
  ctx,      \* the sslctx that are allocated
  st,       \* st[s]: where session s is in session_get_server
  pos,      \* pos[s]: the server it was given, or NULL
  nget,     \* sessions so far
  served    \* history: served[j] sessions drew server j

vars == <<phase, cfg, gcd, rrpos, spref, sdref, svref, splive, sdlive,
          server, ctx, st, pos, nget, served>>

-----------------------------------------------------------------------------
(* int arithmetic: additions wrap, % keeps the sign of the dividend.       *)

Wrap(x) == IF x > INT_MAX THEN x - 2 * (INT_MAX + 1) ELSE x

Rem(a, b) == IF a >= 0 THEN a % b ELSE -((-a) % b)

_gcd[a \in Nat, b \in Nat] == IF a % b = 0 THEN b ELSE _gcd[b, a % b]

\* upto[n] is the loop's gcd after n servers.
_spdata_calc_gcd ==
  LET upto[n \in 0..NServer] ==
        IF n = 0 THEN 0
        ELSE IF upto[n - 1] > 0 THEN _gcd[cfg.server[n - 1].weight, upto[n - 1]]
        ELSE cfg.server[n - 1].weight
  IN  upto[NServer]


-----------------------------------------------------------------------------
(* The main thread.                                                        *)

pool == <<gcd, rrpos, spref, sdref, svref, splive, sdlive, server, ctx>>

\* policy_init_data, svrpool_alloc_data, server_alloc_data.  A failure of calloc
\* for the pool ends the program in order, and so does one of listener_alloc_data
\* after it, before there are workers; one for a server leaves NULL in servers,
\* and _spdata_calc_gcd reads through it.
svrpool_alloc_data ==
  /\ phase = "init"
  /\ \/ /\ phase' = "run" \/ (MayFail /\ phase' = "unwind")
        /\ splive' = TRUE /\ sdlive' = Server /\ ctx' \in SUBSET Server
        /\ svref' = [j \in Server |-> 1]
        /\ gcd' = IF _spdata_calc_gcd = 0 THEN 1 ELSE _spdata_calc_gcd
     \/ MayFail /\ phase' = "free" /\ UNCHANGED <<splive, sdlive, ctx, svref, gcd>>
     \/ /\ MayFail /\ phase' = "crash" /\ splive' = TRUE
        /\ sdlive' \in SUBSET Server /\ sdlive' # Server
        /\ svref' = [j \in Server |-> IF j \in sdlive' THEN 1 ELSE 0]
        /\ UNCHANGED <<gcd, ctx>>
  /\ UNCHANGED <<cfg, rrpos, spref, sdref, server, st, pos, nget, served>>

\* The stop flag is set: workers free their sessions.
Stop ==
  /\ phase = "run" /\ phase' = "stop"
  /\ UNCHANGED <<cfg, pool, st, pos, nget, served>>

\* server_free_data on the server_data in D.
server_free_data(D) ==
  LET gone == {j \in D : sdref[j] = 0}
  IN  /\ sdref' = [j \in Server |-> IF j \in D THEN sdref[j] - 1 ELSE sdref[j]]
      /\ sdlive' = sdlive \ gone
      /\ svref' = [j \in Server |-> IF j \in gone THEN svref[j] - 1 ELSE svref[j]]
      /\ server' = server \ {j \in gone : svref[j] = 0}

\* svrpool_free_data: the last reference frees the server_data too.
svrpool_free_data ==
  /\ spref' = spref - 1
  /\ IF spref = 0 THEN splive' = FALSE /\ server_free_data(Server)
     ELSE UNCHANGED <<splive, sdref, sdlive, svref, server>>

\* Variant: the data is freed when the workers are told to stop.
policy_free_data_NoJoin ==
  /\ \/ phase = "stop" /\ phase' = "free"
     \/ phase = "freed" /\ phase' = "done"
  /\ svrpool_free_data
  /\ UNCHANGED <<cfg, gcd, rrpos, ctx, st, pos, nget, served>>

\* _py_free_data after thread_join of every worker, which freed its sessions; or
\* policy_free, when there never was one.
policy_free_data ==
  /\ \/ phase = "stop" /\ phase' = "free" /\ \A s \in Session : st[s] = "none"
     \/ phase = "freed" /\ phase' = "done"
  /\ svrpool_free_data
  /\ UNCHANGED <<cfg, gcd, rrpos, ctx, st, pos, nget, served>>

\* proxy_free, policy_free: the last svrpool_free frees the servers in svrlist,
\* which policy_free calls before policy_free_data.
svrpool_free ==
  /\ \/ phase = "free" /\ phase' = "done"
     \/ phase = "unwind" /\ phase' = "freed"
  /\ svref' = [j \in Server |-> svref[j] - 1]
  /\ server' = {j \in server : svref[j] # 0}
  /\ UNCHANGED <<cfg, gcd, rrpos, spref, sdref, splive, sdlive, ctx, st, pos,
                 nget, served>>

-----------------------------------------------------------------------------
(* A worker in session_get_server.  It runs one session at a time; what it *)
(* does between two atomic additions is its own.                           *)

\* The states in which a session has counted the pool data as its own.
InGet == {"cloned", "drawn", "taken", "null"}

Move(s, from, to) == st[s] = from /\ st' = [st EXCEPT ![s] = to]

\* policy_clone_spdata reads the pointer; when there is none nothing changes.
policy_clone_spdata(s) ==
  /\ phase \in {"run", "stop"} /\ splive /\ nget < MaxGet /\ nget' = nget + 1
  /\ \A x \in Slot : st[<<s[1], x>>] \in {"none", "held"}
  /\ Move(s, "none", "read")
  /\ UNCHANGED <<phase, cfg, pool, pos, served>>

\* svrpool_clone_data counts the reference to what the pointer named.
svrpool_clone_data(s) ==
  /\ Move(s, "read", "cloned")
  /\ spref' = spref + 1
  /\ UNCHANGED <<phase, cfg, gcd, rrpos, sdref, svref, splive, sdlive, server,
                 ctx, pos, nget, served>>

\* Variant: the position starts again one too late.
svrpool_get_rp_server_Late(s) ==
  /\ cfg.reverse
  /\ Move(s, "cloned", "drawn")
  /\ LET p == Rem(rrpos, NServer)
     IN  /\ pos' = [pos EXCEPT ![s] = p]
         /\ served' = [served EXCEPT ![p] = @ + 1]
  /\ rrpos' = (rrpos + 1) % (NServer + 1)
  /\ UNCHANGED <<phase, cfg, gcd, spref, sdref, svref, splive, sdlive, server,
                 ctx, nget>>

\* svrpool_get_rp_server: the position is drawn with an atomic addition.
svrpool_get_rp_server(s) ==
  /\ cfg.reverse
  /\ Move(s, "cloned", "drawn")
  /\ LET p == Rem(rrpos, NServer)
     IN  /\ pos' = [pos EXCEPT ![s] = p]
         /\ served' = IF p \in Server THEN [served EXCEPT ![p] = @ + 1] ELSE served
  /\ rrpos' = Wrap(rrpos + 1)
  /\ UNCHANGED <<phase, cfg, gcd, spref, sdref, svref, splive, sdlive, server,
                 ctx, nget>>

\* svrpool_get_tp_server: the first server with the address, or none.
svrpool_get_tp_server(s) ==
  /\ ~cfg.reverse
  /\ \E d \in Address :
       \/ \E j \in Server :
            /\ cfg.server[j].address = d /\ \A i \in 0..(j - 1) : cfg.server[i].address # d
            /\ Move(s, "cloned", "drawn")
            /\ pos' = [pos EXCEPT ![s] = j]
            /\ served' = [served EXCEPT ![j] = @ + 1]
       \/ /\ \A j \in Server : cfg.server[j].address # d
          /\ Move(s, "cloned", "null") /\ UNCHANGED <<pos, served>>
  /\ UNCHANGED <<phase, cfg, gcd, rrpos, spref, sdref, svref, splive, sdlive,
                 server, ctx, nget>>

\* server_clone_data of servers[pos]; outside the array that is whatever lies
\* there, and the process is gone.
server_clone_data(s) ==
  /\ \/ /\ pos[s] \in Server
        /\ Move(s, "drawn", "taken")
        /\ sdref' = [sdref EXCEPT ![pos[s]] = @ + 1]
        /\ UNCHANGED phase
     \/ /\ pos[s] \notin Server /\ st[s] = "drawn"
        /\ phase' = "crash" /\ UNCHANGED <<st, sdref>>
  /\ UNCHANGED <<cfg, gcd, rrpos, spref, svref, splive, sdlive, server, ctx, pos,
                 nget, served>>

\* Variant: only a session that has a server gives the pool data back.
GiveBack_IfServer(s) ==
  /\ \/ Move(s, "taken", "held") /\ svrpool_free_data
     \/ /\ Move(s, "null", "none")
        /\ UNCHANGED <<spref, sdref, svref, splive, sdlive, server>>
  /\ UNCHANGED <<phase, cfg, gcd, rrpos, ctx, pos, nget, served>>

\* The pool data is given back.
GiveBack(s) ==
  /\ Move(s, "taken", "held") \/ Move(s, "null", "none")
  /\ svrpool_free_data
  /\ UNCHANGED <<phase, cfg, gcd, rrpos, ctx, pos, nget, served>>

\* Variant: a session that is deleted keeps its server.
session_free_Keep(s) ==
  /\ Move(s, "held", "none")
  /\ pos' = [pos EXCEPT ![s] = NULL]
  /\ UNCHANGED <<phase, cfg, pool, nget, served>>

\* session_free gives up the server of the session.
session_free(s) ==
  /\ Move(s, "held", "none")
  /\ pos' = [pos EXCEPT ![s] = NULL]
  /\ server_free_data({pos[s]})
  /\ UNCHANGED <<phase, cfg, gcd, rrpos, spref, splive, ctx, nget, served>>

\* The process is gone.
Ended == phase \in {"done", "crash"} /\ UNCHANGED vars

Init ==
  /\ phase = "init"
  /\ cfg \in Conf /\ gcd = 0
  /\ rrpos = 0 /\ spref = 0
  /\ sdref = [j \in Server |-> 0] /\ svref = [j \in Server |-> 0]
  /\ splive = FALSE /\ sdlive = {} /\ server = Server /\ ctx = {}
  /\ st = [s \in Session |-> "none"]
  /\ pos = [s \in Session |-> NULL]
  /\ nget = 0
  /\ served = [j \in Server |-> 0]

Get(s) ==
  \/ svrpool_clone_data(s)
  \/ svrpool_get_rp_server(s) \/ svrpool_get_tp_server(s) \/ server_clone_data(s)
  \/ GiveBack(s)

Main == svrpool_alloc_data \/ policy_free_data \/ svrpool_free

Next ==
  \/ Main \/ Stop \/ Ended
  \/ phase # "crash" /\ \E s \in Session :
       policy_clone_spdata(s) \/ Get(s) \/ session_free(s)

Spec == Init /\ [][Next]_vars

-----------------------------------------------------------------------------
(* Properties.                                                             *)

\* Every variable has its type; rrpos is an int.
TypeOK ==
  /\ phase \in {"init", "run", "stop", "free", "done", "unwind", "freed", "crash"}
  /\ cfg \in Conf
  /\ rrpos \in -(INT_MAX + 1)..INT_MAX
  /\ spref \in Int /\ sdref \in [Server -> Int] /\ svref \in [Server -> Int]
  /\ splive \in BOOLEAN /\ sdlive \in SUBSET Server /\ server \in SUBSET Server
  /\ ctx \in SUBSET Server
  /\ st \in [Session -> InGet \union {"none", "read", "held"}]
  /\ pos \in [Session -> Int]
  /\ nget \in 0..MaxGet /\ served \in [Server -> Nat]

Users(j) == {s \in Session : st[s] \in {"taken", "held"} /\ pos[s] = j}

\* The counters are the numbers of sessions that hold the pool data and each
\* server_data, whatever the interleaving of the additions of the workers.
RefsExact ==
  phase \in {"run", "stop"} =>
    /\ spref = Cardinality({s \in Session : st[s] \in InGet})
    /\ \A j \in Server : sdref[j] = Cardinality(Users(j)) /\ svref[j] = 1

\* What a session of any worker points to, or is about to clone, is not freed:
\* the pointers need no lock.
HeldAlive ==
  /\ (\E s \in Session : st[s] \in InGet \union {"read"}) => splive
  /\ \A s \in Session :
       st[s] \in {"taken", "held"} \/ (st[s] = "drawn" /\ pos[s] \in Server) =>
         pos[s] \in sdlive /\ pos[s] \in server

\* Nothing of the pool is left when the program ends in order: every session gave
\* the pool data and its server back, whether its destination was one of the
\* servers or not, and so did a start that failed half way.
Released == phase = "done" => ~splive /\ sdlive = {} /\ server = {}

\* Round robin: until the position wraps, the shares of two servers never differ
\* by more than one session.
Balanced ==
  cfg.reverse /\ rrpos >= 0 =>
    \A i, j \in Server : served[i] - served[j] \in -1..1

Divides(d, n) == n % d = 0

\* spdata->gcd is the greatest common divisor of the weights.
GcdExact ==
  phase = "run" =>
    /\ \A j \in Server : Divides(gcd, cfg.server[j].weight)
    /\ \A d \in 1..cfg.server[0].weight : (\A j \in Server : Divides(d, cfg.server[j].weight)) => d <= gcd

\* svrpool_get_rp_server returns one of the servers.
IndexInRange == \A s \in Session : st[s] = "drawn" => pos[s] \in Server

\* svrpool_get_rp_server never indexes past the end of servers, and before its
\* start only when more sessions have asked for a server than an int has values
\* that are not negative, however the draws of the workers interleave.
DrawnIndex ==
  \A s \in Session : st[s] = "drawn" =>
    /\ pos[s] \in (1 - NServer)..(NServer - 1)
    /\ pos[s] < 0 => nget > INT_MAX + 1

\* svrpool_alloc_data returns the pool or NULL.
AllocReturns == phase = "crash" => splive /\ sdlive = Server

\* server_free_data frees what server_alloc_data allocated.
CtxFreed == phase = "done" => ctx = {}

\* Weighted round robin: a server is not ahead of its weight by more than a turn.
WeightedShare ==
  \A i, j \in Server :
    served[i] * cfg.server[j].weight - served[j] * cfg.server[i].weight <=
      cfg.server[i].weight * cfg.server[j].weight
=============================================================================
