--------------------------- MODULE SvrPoolProofs ---------------------------
(***************************************************************************)
(* Proofs about SvrPool, for any number of servers, workers and sessions:  *)
(* the counters are exact, so nothing is freed while a session holds it    *)
(* and nothing is left in the end; the position drawn is one of the array  *)
(* until more sessions asked for a server than an int can count.           *)
(*                                                                         *)
(* The last part is about Config, the load of the file that defines pools, *)
(* listeners and policies.                                                 *)
(***************************************************************************)
EXTENDS SvrPool, Config, FiniteSetTheorems, SequenceTheorems, TLAPS

\* The sessions inside session_get_server.
Getting == {s \in Session : st[s] \in InGet}

\* What there is of the pool in each phase of the main thread.
PhaseInv ==
  /\ phase = "init" => /\ ~splive /\ sdlive = {} /\ server = Server /\ spref = 0
                       /\ \A j \in Server : sdref[j] = 0 /\ svref[j] = 0
  /\ phase \notin {"run", "stop", "crash"} => \A s \in Session : st[s] = "none"
  /\ phase \in {"run", "stop", "unwind", "freed"} =>
       splive /\ sdlive = Server /\ server = Server
  /\ phase \in {"unwind", "freed"} =>
       /\ spref = 0
       /\ \A j \in Server : sdref[j] = 0 /\ svref[j] = IF phase = "unwind" THEN 1 ELSE 0
  /\ phase \in {"free", "done"} => ~splive /\ sdlive = {}
  /\ phase = "free" => server = Server /\ \A j \in Server : svref[j] = 0
  /\ phase = "done" => server = {}
  /\ phase = "crash" => \A s \in Session : st[s] # "none" =>
       splive /\ sdlive = Server /\ server = Server

Placed == \A s \in Session : st[s] \in {"taken", "held"} => pos[s] \in Server

\* The inductive invariant.
IInv == TypeOK /\ PhaseInv /\ Placed /\ RefsExact

-----------------------------------------------------------------------------
(* Sets of sessions are finite: one more or one less counts as one.        *)

LEMMA SessionFinite == IsFiniteSet(Session)
  BY SvrPoolAssumption, FS_Product DEF Session

LEMMA CountAdd ==
  ASSUME NEW S \in SUBSET Session, NEW s \in Session, s \notin S
  PROVE  Cardinality(S \union {s}) = Cardinality(S) + 1
  BY SessionFinite, FS_Subset, FS_AddElement

LEMMA CountDel ==
  ASSUME NEW S \in SUBSET Session, NEW s \in S
  PROVE  Cardinality(S \ {s}) = Cardinality(S) - 1 /\ Cardinality(S) # 0
<1>1. IsFiniteSet(S) /\ IsFiniteSet(S \ {s})
  BY SessionFinite, FS_Subset
<1>2. Cardinality(S \ {s}) = Cardinality(S) - 1
  BY <1>1, FS_RemoveElement
<1>3. Cardinality(S) # 0
  BY <1>1, FS_EmptySet
<1> QED  BY <1>2, <1>3

LEMMA CountNat ==
  ASSUME NEW S \in SUBSET Session PROVE Cardinality(S) \in Nat
  BY SessionFinite, FS_Subset, FS_CardinalityType

LEMMA ServerNat == Server \subseteq Nat /\ NServer \in Nat /\ NServer # 0
  BY SvrPoolAssumption DEF Server

LEMMA InitInv == Init => IInv
<1> SUFFICES ASSUME Init PROVE IInv
  OBVIOUS
<1>1. TypeOK
  <2>1. rrpos \in -(INT_MAX + 1)..INT_MAX /\ nget \in 0..MaxGet
    BY SvrPoolAssumption DEF Init
  <2>2. splive \in BOOLEAN /\ sdlive \in SUBSET Server /\ server \in SUBSET Server
        /\ ctx \in SUBSET Server
    BY DEF Init
  <2>3. spref \in Int /\ sdref \in [Server -> Int] /\ svref \in [Server -> Int]
        /\ pos \in [Session -> Int] /\ served \in [Server -> Nat]
    BY DEF Init, NULL
  <2>4. st \in [Session -> InGet \union {"none", "read", "held"}]
    BY DEF Init
  <2>5. phase \in {"init", "run", "stop", "free", "done", "unwind", "freed", "crash"}
        /\ cfg \in Conf
    BY DEF Init
  <2> QED  BY <2>1, <2>2, <2>3, <2>4, <2>5 DEF TypeOK
<1>2. PhaseInv /\ Placed /\ RefsExact
  BY DEF Init, PhaseInv, Placed, RefsExact
<1> QED  BY <1>1, <1>2 DEF IInv

-----------------------------------------------------------------------------
(* The main thread.                                                        *)

LEMMA AllocInv == ASSUME IInv, svrpool_alloc_data PROVE IInv'
<1>1. \A s \in Session : st'[s] = "none" /\ st[s] = "none"
  BY DEF svrpool_alloc_data, IInv, PhaseInv
<1>2. TypeOK'
  <2>1. splive' \in BOOLEAN
    BY DEF svrpool_alloc_data, IInv, TypeOK
  <2>2. /\ sdlive' \in SUBSET Server /\ ctx' \in SUBSET Server
        /\ svref' \in [Server -> Int]
    BY DEF svrpool_alloc_data, IInv, TypeOK
  <2>3. /\ phase' \in {"run", "free", "unwind", "crash"}
        /\ UNCHANGED <<cfg, rrpos, spref, sdref, server, st, pos, nget, served>>
    BY DEF svrpool_alloc_data
  <2> QED  BY <2>1, <2>2, <2>3 DEF IInv, TypeOK
<1>3. PhaseInv'
  BY <1>1 DEF svrpool_alloc_data, IInv, PhaseInv
<1>4. Placed'
  BY <1>1 DEF Placed
<1>5. RefsExact'
  <2> SUFFICES ASSUME phase' \in {"run", "stop"} PROVE RefsExact'
    BY DEF RefsExact
  <2>1. /\ spref' = 0 /\ \A j \in Server : sdref'[j] = 0 /\ svref'[j] = 1
    BY DEF svrpool_alloc_data, IInv, PhaseInv
  <2>2. {s \in Session : st'[s] \in InGet} = {}
        /\ \A j \in Server : Users(j)' = {}
    BY <1>1 DEF InGet, Users
  <2> QED  BY <2>1, <2>2, FS_EmptySet DEF RefsExact
<1> QED  BY <1>2, <1>3, <1>4, <1>5 DEF IInv

LEMMA StopInv == ASSUME IInv, Stop PROVE IInv'
<1>1. UNCHANGED <<cfg, gcd, rrpos, spref, sdref, svref, splive, sdlive, server, ctx,
                  st, pos, nget, served>>
      /\ phase = "run" /\ phase' = "stop"
  BY DEF Stop, pool
<1>2. TypeOK'
  BY <1>1 DEF IInv, TypeOK
<1>3. PhaseInv' /\ Placed'
  BY <1>1 DEF IInv, PhaseInv, Placed
<1>4. RefsExact'
  BY <1>1 DEF IInv, RefsExact, Users
<1> QED  BY <1>2, <1>3, <1>4 DEF IInv

LEMMA StutterInv == ASSUME IInv, UNCHANGED vars PROVE IInv'
<1>1. TypeOK'
  BY DEF vars, IInv, TypeOK
<1>2. PhaseInv' /\ Placed'
  BY DEF vars, IInv, PhaseInv, Placed
<1>3. RefsExact'
  BY DEF vars, IInv, RefsExact, Users
<1> QED  BY <1>1, <1>2, <1>3 DEF IInv

LEMMA FreeDataInv == ASSUME IInv, policy_free_data PROVE IInv'
<1>1. /\ \/ phase = "stop" /\ phase' = "free"
         \/ phase = "freed" /\ phase' = "done"
      /\ \A s \in Session : st[s] = "none"
      /\ UNCHANGED <<cfg, gcd, rrpos, ctx, st, pos, nget, served>>
  BY DEF policy_free_data, IInv, PhaseInv
<1>2. {s \in Session : st[s] \in InGet} = {} /\ \A j \in Server : Users(j) = {}
  BY <1>1 DEF InGet, Users
<1>3. /\ spref = 0 /\ \A j \in Server : sdref[j] = 0
      /\ \A j \in Server : svref[j] = IF phase = "stop" THEN 1 ELSE 0
  <2>1. CASE phase = "stop"
    BY <1>2, <2>1, FS_EmptySet DEF IInv, RefsExact
  <2>2. CASE phase = "freed"
    BY <2>2 DEF IInv, PhaseInv
  <2> QED  BY <1>1, <2>1, <2>2
<1>4. /\ spref' = spref - 1 /\ splive' = FALSE /\ server_free_data(Server)
  BY <1>3 DEF policy_free_data, svrpool_free_data
<1>5. sdlive = Server /\ server = Server
  BY <1>1 DEF IInv, PhaseInv
<1>6. {j \in Server : sdref[j] = 0} = Server
  BY <1>3
<1>7. /\ sdref' = [j \in Server |-> sdref[j] - 1] /\ sdlive' = {}
      /\ svref' = [j \in Server |-> svref[j] - 1]
      /\ server' = IF phase = "stop" THEN Server ELSE {}
  <2>1. {j \in Server : svref[j] = 0} = IF phase = "stop" THEN {} ELSE Server
    BY <1>3
  <2> QED  BY <1>4, <1>5, <1>6, <2>1 DEF server_free_data
<1>8. TypeOK'
  <2>1. /\ splive' \in BOOLEAN
        /\ phase' \in {"init", "run", "stop", "free", "done", "unwind", "freed", "crash"}
    BY <1>1, <1>4
  <2>2. spref' \in Int /\ sdref' \in [Server -> Int] /\ svref' \in [Server -> Int]
        /\ sdlive' \in SUBSET Server /\ server' \in SUBSET Server
    BY <1>4, <1>7 DEF IInv, TypeOK
  <2> QED  BY <1>1, <2>1, <2>2 DEF IInv, TypeOK
<1>9. PhaseInv' /\ Placed' /\ RefsExact'
  BY <1>1, <1>3, <1>4, <1>7 DEF PhaseInv, Placed, RefsExact
<1> QED  BY <1>8, <1>9 DEF IInv

LEMMA FreeInv == ASSUME IInv, svrpool_free PROVE IInv'
<1>1. /\ \/ phase = "free" /\ phase' = "done"
         \/ phase = "unwind" /\ phase' = "freed"
      /\ UNCHANGED <<cfg, gcd, rrpos, spref, sdref, splive, sdlive, ctx, st, pos,
                     nget, served>>
  BY DEF svrpool_free
<1>2. /\ svref' = [j \in Server |-> svref[j] - 1]
      /\ server' = IF phase = "free" THEN {} ELSE Server
  BY <1>1 DEF svrpool_free, IInv, PhaseInv
<1>3. TypeOK'
  BY <1>1, <1>2 DEF IInv, TypeOK
<1>4. PhaseInv' /\ Placed' /\ RefsExact'
  BY <1>1, <1>2 DEF IInv, PhaseInv, Placed, RefsExact
<1> QED  BY <1>3, <1>4 DEF IInv

-----------------------------------------------------------------------------
(* The workers.  A step of a session moves it in or out of the counted     *)
(* sets; the counters move with it.                                        *)

\* A session that has begun runs between the main thread's start and stop.
LEMMA Busy ==
  ASSUME IInv, NEW s \in Session, st[s] # "none", phase # "crash"
  PROVE  /\ phase \in {"run", "stop"} /\ splive /\ sdlive = Server /\ server = Server
         /\ spref = Cardinality(Getting)
         /\ \A j \in Server : sdref[j] = Cardinality(Users(j)) /\ svref[j] = 1
<1>1. phase \in {"run", "stop"}
  BY DEF IInv, TypeOK, PhaseInv
<1> QED  BY <1>1 DEF IInv, PhaseInv, RefsExact, Getting

LEMMA MoveGetting ==
  ASSUME TypeOK, NEW s \in Session, NEW from, NEW to, Move(s, from, to)
  PROVE  /\ st[s] = from /\ st'[s] = to
         /\ \A x \in Session : x # s => st'[x] = st[x]
         /\ from \in InGet /\ to \in InGet => Getting' = Getting
         /\ from \notin InGet /\ to \in InGet =>
              Getting' = Getting \union {s} /\ s \notin Getting
         /\ from \in InGet /\ to \notin InGet =>
              Getting' = Getting \ {s} /\ s \in Getting
         /\ from \notin InGet /\ to \notin InGet => Getting' = Getting
<1>1. /\ st[s] = from /\ st'[s] = to /\ \A x \in Session : x # s => st'[x] = st[x]
  BY DEF Move, TypeOK
<1> QED  BY <1>1 DEF Getting

\* A session that holds no server is in no Users set; one that holds j leaves
\* Users(j) when it moves to another state.
LEMMA MoveUsers ==
  ASSUME TypeOK, NEW s \in Session, NEW from, NEW to, Move(s, from, to),
         \A x \in Session : x # s => pos'[x] = pos[x], NEW j \in Server
  PROVE  /\ from \notin {"taken", "held"} /\ to \notin {"taken", "held"} =>
              Users(j)' = Users(j)
         /\ from \in {"taken", "held"} /\ to \in {"taken", "held"} /\ pos'[s] = pos[s] =>
              Users(j)' = Users(j)
         /\ from \notin {"taken", "held"} /\ to \in {"taken", "held"} =>
              /\ s \notin Users(j)
              /\ Users(j)' = IF pos'[s] = j THEN Users(j) \union {s} ELSE Users(j)
         /\ from \in {"taken", "held"} /\ to \notin {"taken", "held"} =>
              IF pos[s] = j THEN s \in Users(j) /\ Users(j)' = Users(j) \ {s}
              ELSE Users(j)' = Users(j)
<1>1. /\ st[s] = from /\ st'[s] = to /\ \A x \in Session : x # s => st'[x] = st[x]
  BY DEF Move, TypeOK
<1> QED  BY <1>1 DEF Users

LEMMA ReadInv ==
  ASSUME IInv, NEW s \in Session, phase # "crash", policy_clone_spdata(s) PROVE IInv'
<1>1. /\ splive /\ nget < MaxGet /\ nget' = nget + 1 /\ Move(s, "none", "read")
      /\ UNCHANGED <<phase, cfg, gcd, rrpos, spref, sdref, svref, splive, sdlive,
                     server, ctx, pos, served>>
  BY DEF policy_clone_spdata, pool
<1>2. phase \in {"run", "stop"}
  BY DEF policy_clone_spdata
<1>3. TypeOK'
  BY <1>1, SvrPoolAssumption DEF IInv, TypeOK, Move
<1>4. PhaseInv'
  BY <1>1, <1>2 DEF IInv, PhaseInv
<1>5. Placed'
  BY <1>1 DEF IInv, Placed, Move, TypeOK
<1>6. Getting' = Getting
  BY <1>1, MoveGetting DEF IInv, InGet
<1>7. \A j \in Server : Users(j)' = Users(j)
  BY <1>1, MoveUsers DEF IInv
<1>8. RefsExact'
  BY <1>1, <1>6, <1>7 DEF IInv, RefsExact, Getting
<1> QED  BY <1>3, <1>4, <1>5, <1>8 DEF IInv

LEMMA CloneInv ==
  ASSUME IInv, NEW s \in Session, phase # "crash", svrpool_clone_data(s) PROVE IInv'
<1>1. /\ Move(s, "read", "cloned") /\ spref' = spref + 1
      /\ UNCHANGED <<phase, cfg, gcd, rrpos, sdref, svref, splive, sdlive, server, ctx,
                     pos, nget, served>>
  BY DEF svrpool_clone_data
<1>2. phase \in {"run", "stop"}
  BY <1>1, Busy DEF Move
<1>3. TypeOK'
  BY <1>1 DEF IInv, TypeOK, Move, InGet
<1>4. PhaseInv'
  BY <1>1, <1>2 DEF IInv, PhaseInv
<1>5. Placed'
  BY <1>1 DEF IInv, Placed, Move, TypeOK
<1>6. Getting' = Getting \union {s} /\ s \notin Getting
  BY <1>1, MoveGetting DEF IInv, InGet
<1>7. \A j \in Server : Users(j)' = Users(j)
  BY <1>1, MoveUsers DEF IInv
<1>8. Cardinality(Getting') = spref'
  <2>1. Cardinality(Getting') = Cardinality(Getting) + 1
    BY <1>6, CountAdd DEF Getting
  <2> QED  BY <1>1, <1>2, <2>1 DEF IInv, RefsExact, Getting
<1>9. RefsExact'
  BY <1>1, <1>7, <1>8 DEF IInv, RefsExact, Getting
<1> QED  BY <1>3, <1>4, <1>5, <1>9 DEF IInv

LEMMA RemInt ==
  ASSUME NEW a \in Int, NEW n \in Nat, n # 0
  PROVE  Rem(a, n) \in Int /\ (a >= 0 => Rem(a, n) \in 0..(n - 1))
  BY DEF Rem

\* What the two ways to choose a server have in common.
LEMMA DrawInv ==
  ASSUME IInv, NEW s \in Session, phase # "crash", NEW to \in {"drawn", "null"},
         Move(s, "cloned", to), pos' \in [Session -> Int],
         \A x \in Session : x # s => pos'[x] = pos[x],
         served' \in [Server -> Nat], rrpos' \in -(INT_MAX + 1)..INT_MAX,
         UNCHANGED <<phase, cfg, gcd, spref, sdref, svref, splive, sdlive, server,
                     ctx, nget>>
  PROVE  IInv'
<1>1. st[s] = "cloned" /\ TypeOK
  BY DEF Move, IInv
<1>2. TypeOK'
  BY DEF IInv, TypeOK, Move, InGet
<1>3. PhaseInv'
  BY <1>1, Busy DEF PhaseInv
<1>4. Placed'
  BY DEF IInv, Placed, Move, TypeOK
<1>5. Getting' = Getting
  BY <1>1, MoveGetting DEF InGet
<1>6. \A j \in Server : Users(j)' = Users(j)
  BY <1>1, MoveUsers
<1>7. RefsExact'
  BY <1>5, <1>6 DEF IInv, RefsExact, Getting
<1> QED  BY <1>2, <1>3, <1>4, <1>7 DEF IInv

LEMMA RpInv ==
  ASSUME IInv, NEW s \in Session, phase # "crash", svrpool_get_rp_server(s) PROVE IInv'
<1>1. /\ Move(s, "cloned", "drawn") /\ rrpos' = Wrap(rrpos + 1)
      /\ pos' = [pos EXCEPT ![s] = Rem(rrpos, NServer)]
      /\ served' = IF Rem(rrpos, NServer) \in Server
                   THEN [served EXCEPT ![Rem(rrpos, NServer)] = @ + 1] ELSE served
      /\ UNCHANGED <<phase, cfg, gcd, spref, sdref, svref, splive, sdlive, server,
                     ctx, nget>>
  BY DEF svrpool_get_rp_server
<1>2. rrpos \in -(INT_MAX + 1)..INT_MAX /\ pos \in [Session -> Int]
      /\ served \in [Server -> Nat]
  BY DEF IInv, TypeOK
<1>3. rrpos' \in -(INT_MAX + 1)..INT_MAX
  BY <1>1, <1>2, SvrPoolAssumption DEF Wrap
<1>4. Rem(rrpos, NServer) \in Int
  BY <1>2, ServerNat, RemInt, SvrPoolAssumption
<1>5. pos' \in [Session -> Int] /\ \A x \in Session : x # s => pos'[x] = pos[x]
  BY <1>1, <1>2, <1>4
<1>6. served' \in [Server -> Nat]
  BY <1>1, <1>2
<1> QED  BY <1>1, <1>3, <1>5, <1>6, DrawInv

LEMMA TpInv ==
  ASSUME IInv, NEW s \in Session, phase # "crash", svrpool_get_tp_server(s) PROVE IInv'
<1>1. UNCHANGED <<phase, cfg, gcd, rrpos, spref, sdref, svref, splive, sdlive,
                  server, ctx, nget>>
  BY DEF svrpool_get_tp_server
<1>2. rrpos \in -(INT_MAX + 1)..INT_MAX /\ pos \in [Session -> Int]
      /\ served \in [Server -> Nat]
  BY DEF IInv, TypeOK
<1>3. CASE Move(s, "cloned", "null") /\ UNCHANGED <<pos, served>>
  BY <1>1, <1>2, <1>3, DrawInv
<1>4. ASSUME NEW j \in Server, Move(s, "cloned", "drawn"),
             pos' = [pos EXCEPT ![s] = j], served' = [served EXCEPT ![j] = @ + 1]
      PROVE  IInv'
  <2>1. pos' \in [Session -> Int] /\ \A x \in Session : x # s => pos'[x] = pos[x]
    BY <1>2, <1>4, ServerNat
  <2>2. served' \in [Server -> Nat]
    BY <1>2, <1>4
  <2> QED  BY <1>1, <1>2, <1>4, <2>1, <2>2, DrawInv
<1> QED  BY <1>3, <1>4 DEF svrpool_get_tp_server

LEMMA TakeInv ==
  ASSUME IInv, NEW s \in Session, phase # "crash", server_clone_data(s) PROVE IInv'
<1>1. /\ st[s] = "drawn"
      /\ UNCHANGED <<cfg, gcd, rrpos, spref, svref, splive, sdlive, server, ctx, pos,
                     nget, served>>
  BY DEF server_clone_data, Move
<1>2. CASE phase' = "crash" /\ UNCHANGED <<st, sdref>>
  <2>1. TypeOK'
    BY <1>1, <1>2 DEF IInv, TypeOK
  <2>2. splive /\ sdlive = Server /\ server = Server
    BY <1>1, Busy
  <2>3. PhaseInv'
    BY <1>1, <1>2, <2>2 DEF PhaseInv
  <2>4. Placed' /\ RefsExact'
    BY <1>1, <1>2 DEF IInv, Placed, RefsExact
  <2> QED  BY <2>1, <2>3, <2>4 DEF IInv
<1>3. CASE /\ pos[s] \in Server /\ Move(s, "drawn", "taken")
           /\ sdref' = [sdref EXCEPT ![pos[s]] = @ + 1] /\ UNCHANGED phase
  <2>1. TypeOK
    BY DEF IInv
  <2>2. TypeOK'
    BY <1>1, <1>3, <2>1 DEF TypeOK, Move, InGet
  <2>3. PhaseInv'
    BY <1>1, <1>3, Busy DEF PhaseInv
  <2>4. Placed'
    BY <1>1, <1>3, <2>1 DEF IInv, Placed, Move, TypeOK
  <2>5. Getting' = Getting
    BY <1>3, <2>1, MoveGetting DEF InGet
  <2>6. ASSUME NEW j \in Server
        PROVE  sdref'[j] = Cardinality(Users(j)') /\ svref'[j] = 1
    <3>1. s \notin Users(j)
          /\ Users(j)' = IF pos[s] = j THEN Users(j) \union {s} ELSE Users(j)
      BY <1>1, <1>3, <2>1, MoveUsers
    <3>2. sdref[j] = Cardinality(Users(j)) /\ svref[j] = 1
      BY <1>1, Busy
    <3>3. Cardinality(Users(j) \union {s}) = Cardinality(Users(j)) + 1
      BY <3>1, CountAdd DEF Users
    <3>4. sdref'[j] = IF pos[s] = j THEN sdref[j] + 1 ELSE sdref[j]
      BY <1>3, <2>1 DEF TypeOK
    <3> QED  BY <1>1, <3>1, <3>2, <3>3, <3>4
  <2>7. spref' = Cardinality(Getting')
    BY <1>1, <2>5, Busy
  <2>8. RefsExact'
    BY <2>6, <2>7 DEF RefsExact, Getting
  <2> QED  BY <2>2, <2>3, <2>4, <2>8 DEF IInv
<1> QED  BY <1>2, <1>3 DEF server_clone_data

LEMMA GiveBackInv ==
  ASSUME IInv, NEW s \in Session, phase # "crash", GiveBack(s) PROVE IInv'
<1>1. PICK from \in {"taken", "null"}, to \in {"held", "none"} :
        Move(s, from, to) /\ (from = "taken" <=> to = "held")
  BY DEF GiveBack
<1>2. st[s] = from /\ st[s] # "none" /\ TypeOK
  BY <1>1 DEF Move, IInv
<1>3. /\ phase \in {"run", "stop"} /\ spref = Cardinality(Getting)
      /\ \A j \in Server : sdref[j] = Cardinality(Users(j)) /\ svref[j] = 1
  BY <1>2, Busy
<1>4. Getting' = Getting \ {s} /\ s \in Getting
  BY <1>1, <1>2, MoveGetting DEF InGet
<1>5. Cardinality(Getting') = Cardinality(Getting) - 1 /\ Cardinality(Getting) # 0
  BY <1>4, CountDel DEF Getting
<1>6. /\ spref' = spref - 1
      /\ UNCHANGED <<splive, sdref, sdlive, svref, server>>
      /\ UNCHANGED <<phase, cfg, gcd, rrpos, ctx, pos, nget, served>>
  BY <1>3, <1>5 DEF GiveBack, svrpool_free_data
<1>7. TypeOK'
  BY <1>1, <1>2, <1>6 DEF TypeOK, Move
<1>8. PhaseInv'
  BY <1>3, <1>6 DEF IInv, PhaseInv
<1>9. Placed'
  BY <1>1, <1>2, <1>6 DEF IInv, Placed, Move, TypeOK
<1>10. \A j \in Server : Users(j)' = Users(j)
  BY <1>1, <1>2, <1>6, MoveUsers
<1>11. RefsExact'
  BY <1>3, <1>5, <1>6, <1>10 DEF RefsExact, Getting
<1> QED  BY <1>7, <1>8, <1>9, <1>11 DEF IInv

LEMMA SessionFreeInv ==
  ASSUME IInv, NEW s \in Session, phase # "crash", session_free(s) PROVE IInv'
<1>1. /\ Move(s, "held", "none") /\ pos' = [pos EXCEPT ![s] = NULL]
      /\ server_free_data({pos[s]})
      /\ UNCHANGED <<phase, cfg, gcd, rrpos, spref, splive, ctx, nget, served>>
  BY DEF session_free
<1>2. st[s] = "held" /\ TypeOK /\ pos[s] \in Server
  BY <1>1 DEF Move, IInv, Placed
<1>3. /\ phase \in {"run", "stop"} /\ spref = Cardinality(Getting)
      /\ \A j \in Server : sdref[j] = Cardinality(Users(j)) /\ svref[j] = 1
  BY <1>2, Busy
<1>4. \A x \in Session : x # s => pos'[x] = pos[x]
  BY <1>1, <1>2 DEF TypeOK
<1>5. ASSUME NEW j \in Server
      PROVE  IF pos[s] = j
             THEN Cardinality(Users(j)') = sdref[j] - 1 /\ sdref[j] # 0
             ELSE Users(j)' = Users(j)
  <2>1. IF pos[s] = j THEN s \in Users(j) /\ Users(j)' = Users(j) \ {s}
        ELSE Users(j)' = Users(j)
    BY <1>1, <1>2, <1>4, MoveUsers
  <2>2. s \in Users(j) => Cardinality(Users(j) \ {s}) = Cardinality(Users(j)) - 1
                          /\ Cardinality(Users(j)) # 0
    BY CountDel DEF Users
  <2> QED  BY <1>3, <2>1, <2>2
<1>6. {j \in {pos[s]} : sdref[j] = 0} = {}
  BY <1>2, <1>5
<1>7. /\ sdref' = [j \in Server |-> IF j = pos[s] THEN sdref[j] - 1 ELSE sdref[j]]
      /\ sdlive' = sdlive /\ server' = server
      /\ svref' = [j \in Server |-> svref[j]]
  BY <1>1, <1>6 DEF server_free_data
<1>8. TypeOK'
  <2>1. sdref' \in [Server -> Int] /\ svref' \in [Server -> Int]
    BY <1>2, <1>7 DEF TypeOK
  <2>2. pos' \in [Session -> Int]
    BY <1>1, <1>2 DEF TypeOK, NULL
  <2>3. st' \in [Session -> InGet \union {"none", "read", "held"}]
    BY <1>1, <1>2 DEF TypeOK, Move
  <2> QED  BY <1>1, <1>2, <1>7, <2>1, <2>2, <2>3 DEF TypeOK
<1>9. PhaseInv'
  BY <1>1, <1>3, <1>7 DEF IInv, PhaseInv
<1>10. Placed'
  BY <1>1, <1>2, <1>4 DEF IInv, Placed, Move, TypeOK
<1>11. Getting' = Getting
  BY <1>1, <1>2, MoveGetting DEF InGet
<1>12. \A j \in Server : sdref'[j] = Cardinality(Users(j)') /\ svref'[j] = 1
  BY <1>3, <1>5, <1>7
<1>13. RefsExact'
  BY <1>1, <1>3, <1>11, <1>12 DEF RefsExact, Getting
<1> QED  BY <1>8, <1>9, <1>10, <1>13 DEF IInv

LEMMA NextInv == IInv /\ [Next]_vars => IInv'
<1> SUFFICES ASSUME IInv, [Next]_vars PROVE IInv'
  OBVIOUS
<1>1. CASE Main
  BY <1>1, AllocInv, FreeDataInv, FreeInv DEF Main
<1>2. CASE Stop \/ Ended \/ UNCHANGED vars
  BY <1>2, StopInv, StutterInv DEF Ended
<1>3. ASSUME phase # "crash", NEW s \in Session,
             policy_clone_spdata(s) \/ Get(s) \/ session_free(s)
      PROVE  IInv'
  BY <1>3, ReadInv, CloneInv, RpInv, TpInv, TakeInv, GiveBackInv, SessionFreeInv DEF Get
<1> QED  BY <1>1, <1>2, <1>3 DEF Next

-----------------------------------------------------------------------------

\* The inductive invariant holds of every pool, number of workers and sessions.
THEOREM PoolInv == Spec => []IInv
  BY InitInv, NextInv, PTL DEF Spec

\* The counters of the pool data and of every server_data are exact.
THEOREM RefsCorrect == Spec => []RefsExact
<1>1. IInv => RefsExact
  BY DEF IInv
<1> QED  BY PoolInv, <1>1, PTL

\* When the program has ended in order, nothing of the pool is left.
THEOREM ReleasedCorrect == Spec => []Released
<1>1. IInv => Released
  BY DEF IInv, PhaseInv, Released
<1> QED  BY PoolInv, <1>1, PTL

\* What a session points to or is about to clone is not freed, whatever the
\* number of sessions before it.
THEOREM HeldCorrect == Spec => []HeldAlive
<1>1. IInv => HeldAlive
  <2> SUFFICES ASSUME IInv PROVE HeldAlive
    OBVIOUS
  <2>1. ASSUME NEW s \in Session, st[s] # "none"
        PROVE  splive /\ sdlive = Server /\ server = Server
    <3>1. CASE phase = "crash"
      BY <2>1, <3>1 DEF IInv, PhaseInv
    <3>2. CASE phase # "crash"
      BY <2>1, <3>2, Busy
    <3> QED  BY <3>1, <3>2
  <2>2. (\E s \in Session : st[s] \in InGet \union {"read"}) => splive
    BY <2>1 DEF InGet
  <2>3. ASSUME NEW s \in Session,
               st[s] \in {"taken", "held"} \/ (st[s] = "drawn" /\ pos[s] \in Server)
        PROVE  pos[s] \in sdlive /\ pos[s] \in server
    BY <2>1, <2>3 DEF IInv, Placed
  <2> QED  BY <2>2, <2>3 DEF HeldAlive
<1> QED  BY PoolInv, <1>1, PTL

-----------------------------------------------------------------------------
(* The position drawn.  Each session draws once, so rrpos does not pass    *)
(* the number of sessions before it wraps.                                 *)

\* The sessions that have yet to draw.
Cloned == {s \in Session : st[s] \in {"read", "cloned"}}

Drawn(s) ==
  st[s] = "drawn" => /\ pos[s] \in (1 - NServer)..(NServer - 1)
                     /\ pos[s] < 0 => nget > INT_MAX + 1

\* The sessions that have drawn are as many as the position says, or it wrapped.
Unwrapped == rrpos >= 0 /\ rrpos + Cardinality(Cloned) <= nget
Wrapped   == INT_MAX + 1 + Cardinality(Cloned) <= nget

IndexInv ==
  /\ IInv
  /\ Unwrapped \/ Wrapped
  /\ \A s \in Session : Drawn(s)

LEMMA IndexType ==
  ASSUME IndexInv
  PROVE  /\ rrpos \in Int /\ rrpos <= INT_MAX /\ INT_MAX \in Nat
         /\ nget \in Nat /\ nget <= MaxGet
         /\ Cardinality(Cloned) \in Nat /\ Cloned \in SUBSET Session
         /\ st \in [Session -> InGet \union {"none", "read", "held"}]
         /\ pos \in [Session -> Int]
<1>1. Cloned \in SUBSET Session
  BY DEF Cloned
<1>2. /\ st \in [Session -> InGet \union {"none", "read", "held"}] /\ pos \in [Session -> Int]
      /\ rrpos \in -(INT_MAX + 1)..INT_MAX /\ nget \in 0..MaxGet
  BY DEF IndexInv, IInv, TypeOK
<1> QED  BY <1>1, <1>2, CountNat, SvrPoolAssumption

\* A step of one session that draws nothing new.
LEMMA IndexKeep ==
  ASSUME IndexInv, IInv', NEW s \in Session, NEW from, NEW to, Move(s, from, to),
         from \notin {"read", "cloned"}, to \notin {"read", "cloned", "drawn"},
         \A x \in Session : x # s => pos'[x] = pos[x], UNCHANGED <<rrpos, nget>>
  PROVE  IndexInv'
<1>1. /\ st[s] = from /\ st'[s] = to /\ \A x \in Session : x # s => st'[x] = st[x]
  BY IndexType DEF Move
<1>2. Cloned' = Cloned
  BY <1>1 DEF Cloned
<1>3. \A x \in Session : Drawn(x)'
  BY <1>1 DEF IndexInv, Drawn
<1> QED  BY <1>2, <1>3 DEF IndexInv, Unwrapped, Wrapped

\* A session that draws leaves Cloned.
LEMMA DrawCount ==
  ASSUME IndexInv, NEW s \in Session, NEW to \in {"drawn", "null"}, Move(s, "cloned", to)
  PROVE  /\ st'[s] = to /\ \A x \in Session : x # s => st'[x] = st[x]
         /\ Cardinality(Cloned') = Cardinality(Cloned) - 1 /\ Cardinality(Cloned) # 0
<1>1. st[s] = "cloned" /\ st'[s] = to /\ \A x \in Session : x # s => st'[x] = st[x]
  BY IndexType DEF Move
<1>2. Cloned' = Cloned \ {s} /\ s \in Cloned
  BY <1>1 DEF Cloned
<1> QED  BY <1>1, <1>2, CountDel DEF Cloned

LEMMA RemRange ==
  ASSUME NEW a \in Int, NEW n \in Nat, n # 0
  PROVE  /\ Rem(a, n) \in (1 - n)..(n - 1)
         /\ Rem(a, n) < 0 => a < 0
<1>1. CASE a >= 0
  <2>1. a % n \in 0..(n - 1)
    BY <1>1
  <2> QED  BY <1>1, <2>1 DEF Rem
<1>2. CASE a < 0
  <2>1. (-a) % n \in 0..(n - 1)
    BY <1>2
  <2> QED  BY <1>2, <2>1 DEF Rem
<1> QED  BY <1>1, <1>2

LEMMA IndexRp ==
  ASSUME IndexInv, IInv', NEW s \in Session, svrpool_get_rp_server(s)
  PROVE  IndexInv'
<1>1. /\ Move(s, "cloned", "drawn") /\ rrpos' = Wrap(rrpos + 1)
      /\ pos' = [pos EXCEPT ![s] = Rem(rrpos, NServer)] /\ nget' = nget
  BY DEF svrpool_get_rp_server
<1>2. /\ st'[s] = "drawn"
      /\ \A x \in Session : x # s => st'[x] = st[x] /\ pos'[x] = pos[x]
      /\ Cardinality(Cloned') = Cardinality(Cloned) - 1 /\ Cardinality(Cloned) # 0
  BY <1>1, DrawCount, IndexType
<1>3. Unwrapped' \/ Wrapped'
  <2>1. CASE Wrapped
    BY <1>1, <1>2, <2>1, IndexType DEF Wrapped
  <2>2. CASE Unwrapped /\ rrpos < INT_MAX
    <3>1. rrpos' = rrpos + 1
      BY <1>1, <2>2, IndexType DEF Wrap
    <3> QED  BY <1>1, <1>2, <2>2, <3>1, IndexType DEF Unwrapped
  <2>3. CASE Unwrapped /\ rrpos = INT_MAX
    BY <1>1, <1>2, <2>3, IndexType DEF Unwrapped, Wrapped
  <2> QED  BY <2>1, <2>2, <2>3, IndexType DEF IndexInv
<1>4. /\ pos'[s] \in (1 - NServer)..(NServer - 1)
      /\ pos'[s] < 0 => nget' > INT_MAX + 1
  <2>1. pos'[s] = Rem(rrpos, NServer)
    BY <1>1, IndexType
  <2>2. Rem(rrpos, NServer) \in (1 - NServer)..(NServer - 1)
        /\ (Rem(rrpos, NServer) < 0 => rrpos < 0)
    BY RemRange, IndexType, ServerNat
  <2>3. rrpos < 0 => nget > INT_MAX + 1
    BY <1>2, IndexType DEF IndexInv, Unwrapped, Wrapped
  <2> QED  BY <1>1, <2>1, <2>2, <2>3
<1>5. \A x \in Session : Drawn(x)'
  BY <1>1, <1>2, <1>4 DEF IndexInv, Drawn
<1> QED  BY <1>3, <1>5 DEF IndexInv

LEMMA IndexTp ==
  ASSUME IndexInv, IInv', NEW s \in Session, svrpool_get_tp_server(s)
  PROVE  IndexInv'
<1>1. UNCHANGED <<rrpos, nget>>
  BY DEF svrpool_get_tp_server
<1>2. PICK to \in {"drawn", "null"} : Move(s, "cloned", to)
  BY DEF svrpool_get_tp_server
<1>3. (\A x \in Session : x # s => pos'[x] = pos[x]) /\ (st'[s] = "drawn" => pos'[s] \in Server)
  <2>1. CASE st'[s] = "drawn"
    BY <2>1, IndexType DEF svrpool_get_tp_server, Move
  <2>2. CASE st'[s] # "drawn"
    BY <2>2, IndexType DEF svrpool_get_tp_server, Move
  <2> QED  BY <2>1, <2>2
<1>4. /\ st'[s] = to /\ \A x \in Session : x # s => st'[x] = st[x]
      /\ Cardinality(Cloned') = Cardinality(Cloned) - 1
  BY <1>2, DrawCount
<1>5. Unwrapped' \/ Wrapped'
  BY <1>1, <1>4, IndexType DEF IndexInv, Unwrapped, Wrapped
<1>6. st'[s] = "drawn" =>
        pos'[s] \in (1 - NServer)..(NServer - 1) /\ ~(pos'[s] < 0)
  BY <1>3, ServerNat DEF Server
<1>7. \A x \in Session : Drawn(x)'
  BY <1>1, <1>3, <1>4, <1>6 DEF IndexInv, Drawn
<1> QED  BY <1>5, <1>7 DEF IndexInv

LEMMA IndexRead ==
  ASSUME IndexInv, IInv', NEW s \in Session, policy_clone_spdata(s)
  PROVE  IndexInv'
<1>1. /\ Move(s, "none", "read") /\ nget' = nget + 1
      /\ rrpos' = rrpos /\ pos' = pos
  BY DEF policy_clone_spdata, pool
<1>2. /\ st[s] = "none" /\ st'[s] = "read"
      /\ \A x \in Session : x # s => st'[x] = st[x]
  BY <1>1, IndexType DEF Move
<1>3. Cloned' = Cloned \union {s} /\ s \notin Cloned
  BY <1>2 DEF Cloned
<1>4. Cardinality(Cloned') = Cardinality(Cloned) + 1
  BY <1>3, IndexType, CountAdd
<1>5. Unwrapped' \/ Wrapped'
  BY <1>1, <1>4, IndexType DEF IndexInv, Unwrapped, Wrapped
<1>6. \A x \in Session : Drawn(x)'
  BY <1>1, <1>2, IndexType DEF IndexInv, Drawn
<1> QED  BY <1>5, <1>6 DEF IndexInv

LEMMA IndexClone ==
  ASSUME IndexInv, IInv', NEW s \in Session, svrpool_clone_data(s)
  PROVE  IndexInv'
<1>1. /\ Move(s, "read", "cloned") /\ UNCHANGED <<rrpos, nget, pos>>
  BY DEF svrpool_clone_data
<1>2. /\ st[s] = "read" /\ st'[s] = "cloned"
      /\ \A x \in Session : x # s => st'[x] = st[x]
  BY <1>1, IndexType DEF Move
<1>3. Cloned' = Cloned
  BY <1>2 DEF Cloned
<1>4. \A x \in Session : Drawn(x)'
  BY <1>1, <1>2 DEF IndexInv, Drawn
<1> QED  BY <1>1, <1>3, <1>4 DEF IndexInv, Unwrapped, Wrapped

LEMMA IndexStutter ==
  ASSUME IndexInv, IInv', UNCHANGED <<st, pos, rrpos, nget>>
  PROVE  IndexInv'
<1>1. Cloned' = Cloned /\ \A s \in Session : Drawn(s)'
  BY DEF Cloned, IndexInv, Drawn
<1> QED  BY <1>1 DEF IndexInv, Unwrapped, Wrapped

LEMMA IndexSession ==
  ASSUME IndexInv, IInv', NEW s \in Session,
         policy_clone_spdata(s) \/ Get(s) \/ session_free(s)
  PROVE  IndexInv'
<1>1. CASE server_clone_data(s)
  <2>1. UNCHANGED <<rrpos, nget, pos>> /\ (UNCHANGED st \/ Move(s, "drawn", "taken"))
    BY <1>1 DEF server_clone_data
  <2> QED  BY <2>1, IndexKeep, IndexStutter
<1>2. CASE GiveBack(s)
  <2>1. UNCHANGED <<rrpos, nget, pos>>
    BY <1>2 DEF GiveBack
  <2>2. PICK from \in {"taken", "null"}, to \in {"held", "none"} : Move(s, from, to)
    BY <1>2 DEF GiveBack
  <2> QED  BY <2>1, <2>2, IndexKeep
<1>3. CASE session_free(s)
  <2>1. /\ UNCHANGED <<rrpos, nget>> /\ Move(s, "held", "none")
        /\ pos' = [pos EXCEPT ![s] = NULL]
    BY <1>3 DEF session_free
  <2>2. \A x \in Session : x # s => pos'[x] = pos[x]
    BY <2>1, IndexType
  <2> QED  BY <2>1, <2>2, IndexKeep
<1> QED  BY <1>1, <1>2, <1>3, IndexRead, IndexClone, IndexRp, IndexTp DEF Get

LEMMA IndexInit == Init => IndexInv
<1> SUFFICES ASSUME Init PROVE IndexInv
  OBVIOUS
<1>1. rrpos = 0 /\ nget = 0 /\ \A s \in Session : st[s] = "none"
  BY DEF Init
<1>2. Cloned = {}
  BY <1>1 DEF Cloned
<1>3. \A s \in Session : Drawn(s)
  BY <1>1 DEF Drawn
<1> QED  BY <1>1, <1>2, <1>3, InitInv, FS_EmptySet DEF IndexInv, Unwrapped

LEMMA IndexNext ==
  ASSUME IndexInv, [Next]_vars PROVE IndexInv'
<1>1. IInv'
  BY NextInv DEF IndexInv
<1>2. CASE Main \/ Stop \/ Ended \/ UNCHANGED vars
  <2>1. UNCHANGED <<st, pos, rrpos, nget>>
    BY <1>2 DEF Main, svrpool_alloc_data, policy_free_data, svrpool_free, Stop, pool,
           Ended, vars
  <2> QED  BY <1>1, <2>1, IndexStutter
<1> QED  BY <1>1, <1>2, IndexSession DEF Next

\* Whatever the interleaving of the workers and however often rrpos wraps,
\* svrpool_get_rp_server never indexes past the end of the array of servers, and
\* before its start only after more than INT_MAX + 1 sessions.
THEOREM IndexCorrect == Spec => []DrawnIndex
<1>1. IndexInv /\ [Next]_vars => IndexInv'
  BY IndexNext
<1>2. IndexInv => DrawnIndex
  BY DEF IndexInv, Drawn, DrawnIndex
<1> QED  BY IndexInit, <1>1, <1>2, PTL DEF Spec

-----------------------------------------------------------------------------
(* The shares of round robin.                                              *)

\* q full turns were drawn, and p servers of the next one.
Turns(q, p) ==
  /\ rrpos = q * NServer + p
  /\ \A j \in Server : served[j] = q + (IF j < p THEN 1 ELSE 0)

ShareInv ==
  /\ IndexInv
  /\ cfg.reverse => \E q \in Nat, p \in Server : Turns(q, p)

\* A position that did not wrap is not negative.
LEMMA NotWrapped ==
  ASSUME MaxGet <= INT_MAX, IndexInv
  PROVE  rrpos \in Nat
<1>1. MaxGet \in Nat
  BY SvrPoolAssumption
<1>2. ~Wrapped
  BY <1>1, IndexType DEF Wrapped
<1> QED  BY <1>2, IndexType DEF IndexInv, Unwrapped

LEMMA ModTurns ==
  ASSUME NEW N \in Nat \ {0}, NEW q \in Nat, NEW p \in 0..(N - 1)
  PROVE  (q * N + p) % N = p
<1> DEFINE x == q * N + p
           m == x % N
           d == x \div N
<1>1. x \in Nat
  OBVIOUS
<1>2. /\ m \in 0..(N - 1) /\ d \in Int /\ x = N * d + m
  BY <1>1
<1>3. q * N + p = N * d + m
  BY <1>2
<1> HIDE DEF x, m, d
<1>4. ~(d >= q + 1)
  <2> SUFFICES ASSUME d >= q + 1 PROVE FALSE
    OBVIOUS
  <2>1. N * d >= N * (q + 1)
    BY <1>2
  <2> QED  BY <1>2, <1>3, <2>1
<1>5. ~(d <= q - 1)
  <2> SUFFICES ASSUME d <= q - 1 PROVE FALSE
    OBVIOUS
  <2>1. N * d <= N * (q - 1)
    BY <1>2
  <2> QED  BY <1>2, <1>3, <2>1
<1>6. d = q
  BY <1>2, <1>4, <1>5
<1>7. m = p
  BY <1>2, <1>3, <1>6
<1> QED  BY <1>7 DEF m, x

LEMMA ShareRp ==
  ASSUME MaxGet <= INT_MAX, ShareInv, IndexInv', NEW s \in Session,
         svrpool_get_rp_server(s)
  PROVE  ShareInv'
<1>1. /\ cfg.reverse /\ cfg' = cfg /\ rrpos' = Wrap(rrpos + 1)
      /\ served' = IF Rem(rrpos, NServer) \in Server
                   THEN [served EXCEPT ![Rem(rrpos, NServer)] = @ + 1] ELSE served
  BY DEF svrpool_get_rp_server
<1>2. PICK q \in Nat, p \in Server : Turns(q, p)
  BY <1>1 DEF ShareInv
<1>3. /\ rrpos \in Nat /\ rrpos = q * NServer + p /\ p \in 0..(NServer - 1)
      /\ NServer \in Nat \ {0} /\ served \in [Server -> Nat]
  BY <1>2, NotWrapped, ServerNat DEF Turns, Server, ShareInv, IndexInv, IInv, TypeOK
<1>4. Rem(rrpos, NServer) = p
  <2>1. rrpos % NServer = p
    BY <1>3, ModTurns
  <2> QED  BY <1>3, <2>1 DEF Rem
<1>5. served' = [served EXCEPT ![p] = @ + 1]
  BY <1>1, <1>4
<1>6. rrpos' = rrpos + 1
  <2>1. rrpos + 1 \in Int /\ INT_MAX \in Nat
    BY <1>3, SvrPoolAssumption
  <2>2. rrpos' >= 0
    <3>1. MaxGet \in Nat /\ INT_MAX \in Nat
      BY SvrPoolAssumption
    <3>2. rrpos' \in Int /\ nget' \in Nat /\ nget' <= MaxGet /\ Cardinality(Cloned') \in Nat
      BY CountNat, <3>1 DEF IndexInv, IInv, TypeOK, Cloned
    <3> QED  BY <3>1, <3>2 DEF IndexInv, Unwrapped, Wrapped
  <2>3. rrpos <= INT_MAX
    BY DEF ShareInv, IndexInv, IInv, TypeOK
  <2> QED  BY <1>1, <1>3, <2>1, <2>2, <2>3 DEF Wrap
<1>7. \A j \in Server : served'[j] = q + (IF j < p + 1 THEN 1 ELSE 0)
  <2> TAKE j \in Server
  <2>1. served[j] = q + (IF j < p THEN 1 ELSE 0)
    BY <1>2 DEF Turns
  <2>2. served'[j] = IF j = p THEN served[j] + 1 ELSE served[j]
    BY <1>3, <1>5
  <2>3. j \in Int /\ p \in Int
    BY ServerNat
  <2> QED  BY <2>1, <2>2, <2>3
<1>8. CASE p + 1 < NServer
  <2>1. p + 1 \in Server
    BY <1>3, <1>8 DEF Server
  <2>2. rrpos' = q * NServer + (p + 1)
    BY <1>3, <1>6
  <2>3. Turns(q, p + 1)'
    BY <1>7, <2>2 DEF Turns
  <2> QED  BY <2>1, <2>3 DEF ShareInv
<1>9. CASE p + 1 = NServer
  <2>1. 0 \in Server /\ q + 1 \in Nat
    BY <1>3 DEF Server
  <2>2. (q + 1) * NServer = q * NServer + NServer
    BY <1>3
  <2>3. rrpos' = (q + 1) * NServer + 0
    BY <1>3, <1>6, <1>9, <2>2
  <2>4. \A j \in Server : served'[j] = (q + 1) + (IF j < 0 THEN 1 ELSE 0)
    BY <1>3, <1>7, <1>9 DEF Server
  <2>5. Turns(q + 1, 0)'
    BY <2>3, <2>4 DEF Turns
  <2> QED  BY <2>1, <2>5 DEF ShareInv
<1> QED  BY <1>3, <1>8, <1>9

\* Until an int has counted as many sessions, the shares of two servers differ by
\* at most one, whatever the interleaving of the workers.
THEOREM BalancedCorrect == ASSUME MaxGet <= INT_MAX PROVE Spec => []Balanced
<1>1. Init => ShareInv
  <2> SUFFICES ASSUME Init PROVE ShareInv
    OBVIOUS
  <2>1. 0 \in Server /\ 0 \in Nat /\ 0 * NServer = 0
    BY ServerNat DEF Server
  <2>2. \A j \in Server : served[j] = 0 + (IF j < 0 THEN 1 ELSE 0)
    BY ServerNat DEF Init
  <2>3. Turns(0, 0)
    BY <2>1, <2>2 DEF Init, Turns
  <2> QED  BY <2>1, <2>3, IndexInit DEF ShareInv
<1>2. ShareInv /\ [Next]_vars => ShareInv'
  <2> SUFFICES ASSUME ShareInv, [Next]_vars PROVE ShareInv'
    OBVIOUS
  <2>1. IndexInv'
    BY IndexNext DEF ShareInv
  <2>2. CASE \E s \in Session : svrpool_get_rp_server(s)
    BY <2>1, <2>2, ShareRp
  <2>3. CASE \E s \in Session : svrpool_get_tp_server(s)
    <3>1. ~cfg.reverse /\ cfg' = cfg
      BY <2>3 DEF svrpool_get_tp_server
    <3> QED  BY <2>1, <3>1 DEF ShareInv
  <2>4. CASE /\ \A s \in Session : ~svrpool_get_rp_server(s)
             /\ \A s \in Session : ~svrpool_get_tp_server(s)
    <3>1. \/ Main \/ Stop \/ Ended \/ UNCHANGED vars
          \/ \E s \in Session : \/ policy_clone_spdata(s) \/ svrpool_clone_data(s)
                                \/ server_clone_data(s) \/ GiveBack(s)
                                \/ session_free(s)
      BY <2>4 DEF Next, Get
    <3>2. UNCHANGED <<cfg, rrpos, served>>
      BY <3>1 DEF Main, svrpool_alloc_data, policy_free_data, svrpool_free, Stop,
            pool, Ended, vars, policy_clone_spdata, svrpool_clone_data,
            server_clone_data, GiveBack, session_free
    <3> QED  BY <2>1, <3>2 DEF ShareInv, Turns
  <2> QED  BY <2>2, <2>3, <2>4
<1>3. ShareInv => Balanced
  <2> SUFFICES ASSUME ShareInv, cfg.reverse, NEW i \in Server, NEW j \in Server
               PROVE  served[i] - served[j] \in -1..1
    BY DEF Balanced
  <2>1. PICK q \in Nat, p \in Server : Turns(q, p)
    BY DEF ShareInv
  <2>2. served[i] \in {q, q + 1} /\ served[j] \in {q, q + 1}
    BY <2>1 DEF Turns
  <2> QED  BY <2>2
<1> QED  BY <1>1, <1>2, <1>3, PTL DEF Spec

\* Every step keeps the types; rrpos stays an int.
THEOREM TypeCorrect == Spec => []TypeOK
<1>1. IInv => TypeOK
  BY DEF IInv
<1> QED  BY <1>1, PoolInv, PTL

----------------------------------------------------------------------------
(***************************************************************************)
(* The configuration that main loads, which makes the pools: module        *)
(* Config, for any names, numbers and list sizes.                          *)
(*                                                                         *)
(* Accepted is about the end of the load.  What is known during it is      *)
(* Checked: only the object of the section that is open may be unfinished. *)
(* It can be kept because a keyword changes the last object of the list of *)
(* the open section and, in other lists, only a refcnt.                    *)
(***************************************************************************)

ObjName == Name \cup {NoName}
CertObj == [name : ObjName, type : {"X509"}, file : {"", "cert", "pkcs12"},
            pkey : BOOLEAN, refcnt : Nat]
LtnObj  == [name : ObjName, address : BOOLEAN, ssl : BOOLEAN, cert : Nat, refcnt : Nat]
SpObj   == [name : ObjName, nserver : Nat, refcnt : Nat]
PlObj   == [name : ObjName, listener : Nat, svrpool : Nat]

(* The lists, and that the list of the open section has an object to fill in. *)
CfgLists ==
  /\ cert \in Seq(CertObj) /\ ltn \in Seq(LtnObj)
  /\ sp \in Seq(SpObj) /\ pl \in Seq(PlObj)
  /\ section \in {"PROXY", "CERTSET", "LISTENER", "SVRPOOL", "POLICY"}
  /\ section = "CERTSET" => cert # <<>>
  /\ section = "LISTENER" => ltn # <<>>
  /\ section = "SVRPOOL" => sp # <<>>
  /\ section = "POLICY" => pl # <<>>

(* Every object passed its check, except the one that is being filled in. *)
Checked ==
  /\ \A k \in DOMAIN cert : CertDone(cert[k]) \/ (section = "CERTSET" /\ k = Len(cert))
  /\ \A k \in DOMAIN ltn : LtnDone(ltn[k]) \/ (section = "LISTENER" /\ k = Len(ltn))
  /\ \A k \in DOMAIN sp : SpDone(sp[k]) \/ (section = "SVRPOOL" /\ k = Len(sp))
  /\ \A k \in DOMAIN pl : PolicyDone(pl[k]) \/ (section = "POLICY" /\ k = Len(pl))
  /\ status = "ok" => _cfg_check_section

LtnUsers(k) == {p \in DOMAIN pl : pl[p].listener = k}
SpUsers(k)  == {p \in DOMAIN pl : pl[p].svrpool = k}

(* A policy refers to objects that are there, and each reference was counted. *)
ObjCloned ==
  /\ \A p \in DOMAIN pl : pl[p].listener <= Len(ltn) /\ pl[p].svrpool <= Len(sp)
  /\ \A k \in DOMAIN ltn : Cardinality(LtnUsers(k)) <= ltn[k].refcnt
  /\ \A k \in DOMAIN sp : Cardinality(SpUsers(k)) <= sp[k].refcnt

LoadInv == CfgLists /\ Checked /\ ObjCloned /\ UniqueNames /\ Exclusive

(* The last object of a list is replaced. *)
LEMMA SetLastIs ==
  ASSUME NEW S, NEW s \in Seq(S), s # <<>>, NEW o \in S
  PROVE  /\ SetLast(s, o) \in Seq(S)
         /\ SetLast(s, o) # <<>>
         /\ Len(SetLast(s, o)) = Len(s)
         /\ DOMAIN SetLast(s, o) = 1 .. Len(s)
         /\ DOMAIN s = 1 .. Len(s)
         /\ Len(s) \in Nat \ {0}
         /\ \A k \in 1 .. Len(s) : SetLast(s, o)[k] = IF k = Len(s) THEN o ELSE s[k]
         /\ Last(s) \in S
         /\ Last(s) = s[Len(s)]
  BY DEF SetLast, Last

(* A new object is added to a list. *)
LEMMA AppendIs ==
  ASSUME NEW S, NEW s \in Seq(S), NEW o \in S
  PROVE  /\ Append(s, o) \in Seq(S)
         /\ Append(s, o) # <<>>
         /\ Len(Append(s, o)) = Len(s) + 1
         /\ DOMAIN Append(s, o) = 1 .. Len(s) + 1
         /\ DOMAIN s = 1 .. Len(s)
         /\ Len(s) \in Nat
         /\ \A k \in 1 .. Len(s) + 1 : Append(s, o)[k] = IF k = Len(s) + 1 THEN o ELSE s[k]
  OBVIOUS

(* One object of a list is replaced. *)
LEMMA SetOneIs ==
  ASSUME NEW S, NEW s \in Seq(S), NEW n \in DOMAIN s, NEW o \in S
  PROVE  /\ [s EXCEPT ![n] = o] \in Seq(S)
         /\ Len([s EXCEPT ![n] = o]) = Len(s)
         /\ DOMAIN [s EXCEPT ![n] = o] = 1 .. Len(s)
         /\ DOMAIN s = 1 .. Len(s)
         /\ Len(s) \in Nat
         /\ \A k \in 1 .. Len(s) : [s EXCEPT ![n] = o][k] = IF k = n THEN o ELSE s[k]
  OBVIOUS

(* New objects have no name, refer to nothing and have the type of their list. *)
LEMMA NewIs ==
  /\ NewCert \in CertObj /\ NewLtn \in LtnObj /\ NewSp \in SpObj /\ NewPolicy \in PlObj
  /\ NewCert.name = NoName /\ NewLtn.name = NoName
  /\ NewSp.name = NoName /\ NewPolicy.name = NoName
  /\ NewPolicy.listener = 0 /\ NewPolicy.svrpool = 0
  BY DEF NewCert, NewLtn, NewSp, NewPolicy, CertObj, LtnObj, SpObj, PlObj, ObjName

(* One element more in a finite set. *)
LEMMA OneMore ==
  ASSUME NEW A, NEW B, NEW e, IsFiniteSet(A), B \subseteq A \cup {e}
  PROVE  Cardinality(B) <= Cardinality(A) + 1
<1>1. Cardinality(A) \in Nat
  BY FS_CardinalityType
<1>2. /\ IsFiniteSet(A \cup {e})
      /\ Cardinality(A \cup {e}) = IF e \in A THEN Cardinality(A) ELSE Cardinality(A) + 1
  BY FS_AddElement, Zenon
<1>3. Cardinality(B) <= Cardinality(A \cup {e}) /\ IsFiniteSet(B)
  BY <1>2, FS_Subset
<1>4. Cardinality(B) \in Nat
  BY <1>3, FS_CardinalityType
<1>. QED BY <1>1, <1>2, <1>3, <1>4

(* What keeps the names of a list apart: an object without a name is added, ... *)
LEMMA DistinctAppend ==
  ASSUME NEW S, NEW s \in Seq(S), NEW o \in S, Distinct(s), o.name = NoName
  PROVE  Distinct(Append(s, o))
  BY AppendIs DEF Distinct

(* ... the last object gets a name that is not taken, ... *)
LEMMA DistinctName ==
  ASSUME NEW S, NEW s \in Seq(S), s # <<>>, NEW o \in S, Distinct(s), CanName(s, o.name)
  PROVE  Distinct(SetLast(s, o))
<1> DEFINE t == SetLast(s, o)
<1>1. /\ DOMAIN t = 1 .. Len(s) /\ DOMAIN s = 1 .. Len(s) /\ Len(s) \in Nat \ {0}
      /\ \A k \in 1 .. Len(s) : t[k] = IF k = Len(s) THEN o ELSE s[k]
  BY SetLastIs
<1>2. \A k \in 1 .. Len(s) : s[k].name # o.name
  BY <1>1 DEF CanName, Named
<1> HIDE DEF t
<1>3. Distinct(t)
  BY <1>1, <1>2 DEF Distinct
<1>. QED BY <1>3 DEF t

(* ... or the names are left alone. *)
LEMMA DistinctKeep ==
  ASSUME NEW s, NEW t, Distinct(s), DOMAIN t = DOMAIN s,
         \A k \in DOMAIN s : t[k].name = s[k].name
  PROVE  Distinct(t)
  BY DEF Distinct

(* The users of a listener or pool are finitely many policies. *)
LEMMA UsersFinite ==
  ASSUME CfgLists, NEW k
  PROVE  IsFiniteSet(LtnUsers(k)) /\ IsFiniteSet(SpUsers(k))
<1>1. DOMAIN pl = 1 .. Len(pl) /\ Len(pl) \in Nat
  BY DEF CfgLists
<1>2. IsFiniteSet(DOMAIN pl)
  BY <1>1, FS_Interval
<1>. QED BY <1>2, FS_Subset DEF LtnUsers, SpUsers

(* Steps that leave the policies and the counts alone keep ObjCloned. *)
LEMMA ClonedKeep ==
  ASSUME CfgLists, ObjCloned, DOMAIN pl' = DOMAIN pl,
         \A p \in DOMAIN pl : pl'[p].listener = pl[p].listener /\ pl'[p].svrpool = pl[p].svrpool,
         Len(ltn') = Len(ltn), DOMAIN ltn' = DOMAIN ltn, Len(sp') = Len(sp), DOMAIN sp' = DOMAIN sp,
         \A k \in DOMAIN ltn : ltn'[k].refcnt = ltn[k].refcnt,
         \A k \in DOMAIN sp : sp'[k].refcnt = sp[k].refcnt
  PROVE  ObjCloned'
<1>1. \A k : LtnUsers(k)' = LtnUsers(k)
  BY DEF LtnUsers
<1>2. \A k : SpUsers(k)' = SpUsers(k)
  BY DEF SpUsers
<1>. QED BY <1>1, <1>2 DEF ObjCloned

(* The lists are empty when the load starts. *)
LEMMA InitLoad == LoadInit => LoadInv
<1> SUFFICES ASSUME LoadInit PROVE LoadInv
  OBVIOUS
<1>1. cert = <<>> /\ ltn = <<>> /\ sp = <<>> /\ pl = <<>> /\ section = "PROXY" /\ status = "load"
  BY DEF LoadInit
<1>. QED BY <1>1 DEF LoadInv, CfgLists, Checked, ObjCloned, UniqueNames, Distinct, Exclusive

(* A line that is refused, the end of the file and proxy_free leave the lists alone. *)
LEMMA ListsAlone ==
  ASSUME LoadInv, UNCHANGED <<section, cert, ltn, sp, pl>>,
         status' = "ok" => status = "ok" \/ _cfg_check_section
  PROVE  LoadInv'
<1>1. CfgLists'
  BY DEF LoadInv, CfgLists
<1>2. Checked'
  BY DEF LoadInv, Checked, _cfg_check_section
<1>3. ObjCloned'
  BY ClonedKeep DEF LoadInv
<1>4. UniqueNames' /\ Exclusive'
  BY DEF LoadInv, UniqueNames, Exclusive
<1>. QED BY <1>1, <1>2, <1>3, <1>4 DEF LoadInv

(* A header opens a section once the one before it is finished. *)
LEMMA HeaderLoad ==
  ASSUME LoadInv, Header
  PROVE  LoadInv'
<1>1. CfgLists /\ Checked /\ ObjCloned /\ UniqueNames /\ Exclusive
  BY DEF LoadInv
<1>2. status = "load" /\ status' = "load" /\ _cfg_check_section
  BY DEF Header
<1>3. /\ \A k \in DOMAIN cert : CertDone(cert[k])
      /\ \A k \in DOMAIN ltn : LtnDone(ltn[k])
      /\ \A k \in DOMAIN sp : SpDone(sp[k])
      /\ \A k \in DOMAIN pl : PolicyDone(pl[k])
  BY <1>1, <1>2 DEF CfgLists, Checked, _cfg_check_section, Last
<1>4. Distinct(cert) /\ Distinct(ltn) /\ Distinct(sp) /\ Distinct(pl)
  BY <1>1 DEF UniqueNames
<1>5. CASE section' = "PROXY" /\ UNCHANGED <<cert, ltn, sp, pl>>
  <2>1. CfgLists'
    BY <1>1, <1>5 DEF CfgLists
  <2>2. Checked'
    BY <1>2, <1>3, <1>5 DEF Checked
  <2>3. ObjCloned'
    BY <1>1, <1>5, ClonedKeep
  <2>. QED BY <1>1, <1>5, <2>1, <2>2, <2>3 DEF LoadInv, UniqueNames, Exclusive
<1>6. CASE section' = "CERTSET" /\ cert' = Append(cert, NewCert) /\ UNCHANGED <<ltn, sp, pl>>
  <2>1. /\ cert' \in Seq(CertObj) /\ cert' # <<>> /\ Len(cert') = Len(cert) + 1
        /\ DOMAIN cert' = 1 .. Len(cert) + 1 /\ DOMAIN cert = 1 .. Len(cert) /\ Len(cert) \in Nat
        /\ \A k \in 1 .. Len(cert) + 1 :
             cert'[k] = IF k = Len(cert) + 1 THEN NewCert ELSE cert[k]
    BY <1>1, <1>6, AppendIs, NewIs DEF CfgLists
  <2>2. CfgLists'
    BY <1>1, <1>6, <2>1 DEF CfgLists
  <2>3. Checked'
    BY <1>2, <1>3, <1>6, <2>1 DEF Checked
  <2>4. ObjCloned'
    BY <1>1, <1>6, ClonedKeep
  <2>5. Distinct(cert')
    BY <1>1, <1>4, <1>6, DistinctAppend, NewIs DEF CfgLists
  <2>6. UniqueNames'
    BY <1>4, <1>6, <2>5 DEF UniqueNames
  <2>. QED BY <1>1, <1>6, <2>2, <2>3, <2>4, <2>6 DEF LoadInv, Exclusive
<1>7. CASE section' = "LISTENER" /\ ltn' = Append(ltn, NewLtn) /\ UNCHANGED <<cert, sp, pl>>
  <2>1. /\ ltn' \in Seq(LtnObj) /\ ltn' # <<>> /\ Len(ltn') = Len(ltn) + 1
        /\ DOMAIN ltn' = 1 .. Len(ltn) + 1 /\ DOMAIN ltn = 1 .. Len(ltn) /\ Len(ltn) \in Nat
        /\ \A k \in 1 .. Len(ltn) + 1 :
             ltn'[k] = IF k = Len(ltn) + 1 THEN NewLtn ELSE ltn[k]
    BY <1>1, <1>7, AppendIs, NewIs DEF CfgLists
  <2>2. CfgLists'
    BY <1>1, <1>7, <2>1 DEF CfgLists
  <2>3. Checked'
    BY <1>2, <1>3, <1>7, <2>1 DEF Checked
  <2>4. ObjCloned'
    <3>1. \A k : LtnUsers(k)' = LtnUsers(k)
      BY <1>7 DEF LtnUsers
    <3>2. \A k : SpUsers(k)' = SpUsers(k)
      BY <1>7 DEF SpUsers
    <3>3. LtnUsers(Len(ltn) + 1) = {}
      BY <1>1, <2>1 DEF LtnUsers, ObjCloned, CfgLists, PlObj
    <3>4. Cardinality(LtnUsers(Len(ltn) + 1)) = 0
      BY <3>3, FS_EmptySet
    <3>5. NewLtn.refcnt \in Nat
      BY NewIs DEF LtnObj
    <3>6. ASSUME NEW k \in DOMAIN ltn' PROVE Cardinality(LtnUsers(k)) <= ltn'[k].refcnt
      <4>1. CASE k = Len(ltn) + 1
        BY <2>1, <3>4, <3>5, <4>1
      <4>2. CASE k # Len(ltn) + 1
        BY <1>1, <2>1, <4>2 DEF ObjCloned
      <4>. QED BY <4>1, <4>2
    <3>7. ASSUME NEW p \in DOMAIN pl PROVE pl[p].listener <= Len(ltn) + 1
      <4>1. pl[p] \in PlObj
        BY <1>1 DEF CfgLists
      <4>2. pl[p].listener \in Nat
        BY <4>1 DEF PlObj
      <4>3. pl[p].listener <= Len(ltn)
        BY <1>1 DEF ObjCloned
      <4>. QED BY <2>1, <4>2, <4>3
    <3>. QED BY <1>1, <1>7, <2>1, <3>1, <3>2, <3>6, <3>7 DEF ObjCloned
  <2>5. Distinct(ltn')
    BY <1>1, <1>4, <1>7, DistinctAppend, NewIs DEF CfgLists
  <2>6. UniqueNames'
    BY <1>4, <1>7, <2>5 DEF UniqueNames
  <2>. QED BY <1>1, <1>7, <2>2, <2>3, <2>4, <2>6 DEF LoadInv, Exclusive
<1>8. CASE section' = "SVRPOOL" /\ sp' = Append(sp, NewSp) /\ UNCHANGED <<cert, ltn, pl>>
  <2>1. /\ sp' \in Seq(SpObj) /\ sp' # <<>> /\ Len(sp') = Len(sp) + 1
        /\ DOMAIN sp' = 1 .. Len(sp) + 1 /\ DOMAIN sp = 1 .. Len(sp) /\ Len(sp) \in Nat
        /\ \A k \in 1 .. Len(sp) + 1 :
             sp'[k] = IF k = Len(sp) + 1 THEN NewSp ELSE sp[k]
    BY <1>1, <1>8, AppendIs, NewIs DEF CfgLists
  <2>2. CfgLists'
    BY <1>1, <1>8, <2>1 DEF CfgLists
  <2>3. Checked'
    BY <1>2, <1>3, <1>8, <2>1 DEF Checked
  <2>4. ObjCloned'
    <3>1. \A k : LtnUsers(k)' = LtnUsers(k)
      BY <1>8 DEF LtnUsers
    <3>2. \A k : SpUsers(k)' = SpUsers(k)
      BY <1>8 DEF SpUsers
    <3>3. SpUsers(Len(sp) + 1) = {}
      BY <1>1, <2>1 DEF SpUsers, ObjCloned, CfgLists, PlObj
    <3>4. Cardinality(SpUsers(Len(sp) + 1)) = 0
      BY <3>3, FS_EmptySet
    <3>5. NewSp.refcnt \in Nat
      BY NewIs DEF SpObj
    <3>6. ASSUME NEW k \in DOMAIN sp' PROVE Cardinality(SpUsers(k)) <= sp'[k].refcnt
      <4>1. CASE k = Len(sp) + 1
        BY <2>1, <3>4, <3>5, <4>1
      <4>2. CASE k # Len(sp) + 1
        BY <1>1, <2>1, <4>2 DEF ObjCloned
      <4>. QED BY <4>1, <4>2
    <3>7. ASSUME NEW p \in DOMAIN pl PROVE pl[p].svrpool <= Len(sp) + 1
      <4>1. pl[p] \in PlObj
        BY <1>1 DEF CfgLists
      <4>2. pl[p].svrpool \in Nat
        BY <4>1 DEF PlObj
      <4>3. pl[p].svrpool <= Len(sp)
        BY <1>1 DEF ObjCloned
      <4>. QED BY <2>1, <4>2, <4>3
    <3>. QED BY <1>1, <1>8, <2>1, <3>1, <3>2, <3>6, <3>7 DEF ObjCloned
  <2>5. Distinct(sp')
    BY <1>1, <1>4, <1>8, DistinctAppend, NewIs DEF CfgLists
  <2>6. UniqueNames'
    BY <1>4, <1>8, <2>5 DEF UniqueNames
  <2>. QED BY <1>1, <1>8, <2>2, <2>3, <2>4, <2>6 DEF LoadInv, Exclusive
<1>9. CASE section' = "POLICY" /\ pl' = Append(pl, NewPolicy) /\ UNCHANGED <<cert, ltn, sp>>
  <2>1. /\ pl' \in Seq(PlObj) /\ pl' # <<>> /\ Len(pl') = Len(pl) + 1
        /\ DOMAIN pl' = 1 .. Len(pl) + 1 /\ DOMAIN pl = 1 .. Len(pl) /\ Len(pl) \in Nat
        /\ \A k \in 1 .. Len(pl) + 1 :
             pl'[k] = IF k = Len(pl) + 1 THEN NewPolicy ELSE pl[k]
    <3>1. pl \in Seq(PlObj) /\ NewPolicy \in PlObj
      BY <1>1, NewIs DEF CfgLists
    <3>. QED BY <1>9, <3>1, AppendIs
  <2>2. CfgLists'
    BY <1>1, <1>9, <2>1 DEF CfgLists
  <2>3. Checked'
    BY <1>2, <1>3, <1>9, <2>1 DEF Checked
  <2>4. ObjCloned'
    <3>1. \A k \in Nat \ {0} : LtnUsers(k)' = LtnUsers(k)
      BY <2>1, NewIs DEF LtnUsers
    <3>2. \A k \in Nat \ {0} : SpUsers(k)' = SpUsers(k)
      BY <2>1, NewIs DEF SpUsers
    <3>3. /\ DOMAIN ltn = 1 .. Len(ltn) /\ DOMAIN sp = 1 .. Len(sp)
          /\ Len(ltn) \in Nat /\ Len(sp) \in Nat
      BY <1>1 DEF CfgLists
    <3>4. \A p \in DOMAIN pl' : pl'[p].listener <= Len(ltn) /\ pl'[p].svrpool <= Len(sp)
      BY <1>1, <2>1, <3>3, NewIs DEF ObjCloned
    <3>. QED BY <1>1, <1>9, <3>1, <3>2, <3>3, <3>4 DEF ObjCloned
  <2>5. Distinct(pl')
    BY <1>1, <1>4, <1>9, DistinctAppend, NewIs DEF CfgLists
  <2>6. UniqueNames'
    BY <1>4, <1>9, <2>5 DEF UniqueNames
  <2>7. Exclusive'
    BY <1>1, <2>1, NewIs DEF Exclusive
  <2>. QED BY <2>2, <2>3, <2>4, <2>6, <2>7 DEF LoadInv
<1>. QED BY <1>5, <1>6, <1>7, <1>8, <1>9 DEF Header, objects

(* A keyword changes the last certset. *)
LEMMA CertLast ==
  ASSUME LoadInv, In("CERTSET"), NEW o \in CertObj, cert' = SetLast(cert, o),
         o.name = Last(cert).name \/ CanName(cert, o.name),
         UNCHANGED <<section, ltn, sp, pl, status>>
  PROVE  LoadInv'
<1>1. CfgLists /\ Checked /\ ObjCloned /\ UniqueNames /\ Exclusive /\ section = "CERTSET" /\ status = "load"
  BY DEF LoadInv, In
<1>2. cert \in Seq(CertObj) /\ cert # <<>>
  BY <1>1 DEF CfgLists
<1>3. /\ cert' \in Seq(CertObj) /\ cert' # <<>> /\ Len(cert') = Len(cert)
      /\ DOMAIN cert' = 1 .. Len(cert) /\ DOMAIN cert = 1 .. Len(cert)
      /\ Len(cert) \in Nat \ {0}
      /\ \A k \in 1 .. Len(cert) : cert'[k] = IF k = Len(cert) THEN o ELSE cert[k]
      /\ Last(cert) = cert[Len(cert)]
  <2>1. cert' = [cert EXCEPT ![Len(cert)] = o]
    BY DEF SetLast
  <2>. QED BY <1>2, <2>1 DEF Last
<1>4. CfgLists'
  BY <1>1, <1>3 DEF CfgLists
<1>5. Checked'
  BY <1>1, <1>3 DEF Checked
<1>6. ObjCloned'
  BY <1>1, ClonedKeep
<1>7. Distinct(cert)
  BY <1>1 DEF UniqueNames
<1>8. Distinct(cert')
  <2>1. CASE o.name = Last(cert).name
    BY <1>3, <1>7, <2>1, DistinctKeep
  <2>2. CASE CanName(cert, o.name)
    BY <1>2, <1>7, <2>2, DistinctName
  <2>. QED BY <2>1, <2>2
<1>9. UniqueNames' /\ Exclusive'
  BY <1>1, <1>8 DEF UniqueNames, Exclusive
<1>. QED BY <1>4, <1>5, <1>6, <1>9 DEF LoadInv

(* A keyword of a certset section fills in the last certset. *)
LEMMA CertsetLoad ==
  ASSUME LoadInv, _cfg_parse_certset
  PROVE  LoadInv'
<1> DEFINE c == Last(cert)
<1>1. In("CERTSET") /\ UNCHANGED <<section, ltn, sp, pl, status>>
  BY DEF _cfg_parse_certset
<1>2. c \in CertObj
  <2>1. cert \in Seq(CertObj) /\ cert # <<>>
    BY <1>1 DEF LoadInv, CfgLists, In
  <2>. QED BY <2>1, SetLastIs
<1> HIDE DEF c
<1>3. CASE UNCHANGED cert
  BY <1>1, <1>3, ListsAlone
<1>4. ASSUME NEW n \in Name, CanName(cert, n), cert' = SetLast(cert, [c EXCEPT !.name = n])
      PROVE  LoadInv'
  <2>1. [c EXCEPT !.name = n] \in CertObj /\ [c EXCEPT !.name = n].name = n
    BY <1>2 DEF CertObj, ObjName
  <2>. QED BY <1>1, <1>4, <2>1, CertLast
<1>5. ASSUME NEW o \in CertObj, o.name = c.name, cert' = SetLast(cert, o)
      PROVE  LoadInv'
  BY <1>1, <1>5, CertLast DEF c
<1>6. CASE cert' = SetLast(cert, [c EXCEPT !.file = "cert"])
  <2>1. [c EXCEPT !.file = "cert"] \in CertObj /\ [c EXCEPT !.file = "cert"].name = c.name
    BY <1>2 DEF CertObj
  <2>. QED BY <1>5, <1>6, <2>1
<1>7. CASE cert' = SetLast(cert, [c EXCEPT !.pkey = TRUE])
  <2>1. [c EXCEPT !.pkey = TRUE] \in CertObj /\ [c EXCEPT !.pkey = TRUE].name = c.name
    BY <1>2 DEF CertObj
  <2>. QED BY <1>5, <1>7, <2>1
<1>8. CASE cert' = SetLast(cert, [c EXCEPT !.file = "pkcs12"])
  <2>1. [c EXCEPT !.file = "pkcs12"] \in CertObj /\ [c EXCEPT !.file = "pkcs12"].name = c.name
    BY <1>2 DEF CertObj
  <2>. QED BY <1>5, <1>8, <2>1
<1>. QED BY <1>3, <1>4, <1>6, <1>7, <1>8 DEF _cfg_parse_certset, c

(* A keyword changes the last listener and, for ssl, the refcnt of a certset. *)
LEMMA LtnLast ==
  ASSUME LoadInv, In("LISTENER"), NEW o \in LtnObj, ltn' = SetLast(ltn, o),
         o.name = Last(ltn).name \/ CanName(ltn, o.name),
         o.refcnt = Last(ltn).refcnt,
         cert' \in Seq(CertObj), Len(cert') = Len(cert), DOMAIN cert' = DOMAIN cert,
         \A k \in DOMAIN cert : CertDone(cert'[k]) = CertDone(cert[k])
                                /\ cert'[k].name = cert[k].name,
         UNCHANGED <<section, sp, pl, status>>
  PROVE  LoadInv'
<1>1. CfgLists /\ Checked /\ ObjCloned /\ UniqueNames /\ Exclusive /\ section = "LISTENER" /\ status = "load"
  BY DEF LoadInv, In
<1>2. ltn \in Seq(LtnObj) /\ ltn # <<>>
  BY <1>1 DEF CfgLists
<1>3. /\ ltn' \in Seq(LtnObj) /\ ltn' # <<>> /\ Len(ltn') = Len(ltn)
      /\ DOMAIN ltn' = 1 .. Len(ltn) /\ DOMAIN ltn = 1 .. Len(ltn)
      /\ Len(ltn) \in Nat \ {0}
      /\ \A k \in 1 .. Len(ltn) : ltn'[k] = IF k = Len(ltn) THEN o ELSE ltn[k]
      /\ Last(ltn) = ltn[Len(ltn)]
  <2>1. ltn' = [ltn EXCEPT ![Len(ltn)] = o]
    BY DEF SetLast
  <2>. QED BY <1>2, <2>1 DEF Last
<1>4. CfgLists'
  BY <1>1, <1>3 DEF CfgLists
<1>5. Checked'
  BY <1>1, <1>3 DEF Checked
<1>6. ObjCloned'
  BY <1>1, <1>3, ClonedKeep
<1>7. Distinct(ltn) /\ Distinct(cert)
  BY <1>1 DEF UniqueNames
<1>8. Distinct(ltn')
  <2>1. CASE o.name = Last(ltn).name
    BY <1>3, <1>7, <2>1, DistinctKeep
  <2>2. CASE CanName(ltn, o.name)
    BY <1>2, <1>7, <2>2, DistinctName
  <2>. QED BY <2>1, <2>2
<1>9. Distinct(cert')
  BY <1>7, DistinctKeep
<1>10. UniqueNames' /\ Exclusive'
  BY <1>1, <1>8, <1>9 DEF UniqueNames, Exclusive
<1>. QED BY <1>4, <1>5, <1>6, <1>10 DEF LoadInv

(* Counting a reference to a certset leaves the rest of it alone. *)
LEMMA CertRef ==
  ASSUME NEW c \in CertObj
  PROVE  LET d == [c EXCEPT !.refcnt = @ + 1]
         IN  d \in CertObj /\ CertDone(d) = CertDone(c) /\ d.name = c.name
<1> DEFINE d == [c EXCEPT !.refcnt = @ + 1]
<1>1. c.refcnt \in Nat
  BY DEF CertObj
<1>2. d \in CertObj
  <2>1. \A r \in Nat : [c EXCEPT !.refcnt = r] \in CertObj
    BY DEF CertObj
  <2>2. c.refcnt + 1 \in Nat
    BY <1>1
  <2>. QED BY <2>1, <2>2
<1>3. d.name = c.name /\ d.type = c.type /\ d.file = c.file /\ d.pkey = c.pkey
  BY DEF CertObj
<1>4. CertDone(d) = CertDone(c)
  BY <1>3, Zenon DEF CertDone
<1>. QED BY <1>2, <1>3, <1>4

(* A keyword of a listener section fills in the last listener, and may clone a certset. *)
LEMMA ListenerLoad ==
  ASSUME LoadInv, _cfg_parse_listener
  PROVE  LoadInv'
<1> DEFINE l == Last(ltn)
<1>1. In("LISTENER") /\ UNCHANGED <<section, sp, pl, status>>
  BY DEF _cfg_parse_listener
<1>2. l \in LtnObj
  <2>1. ltn \in Seq(LtnObj) /\ ltn # <<>>
    BY <1>1 DEF LoadInv, CfgLists, In
  <2>. QED BY <2>1, SetLastIs
<1>3. cert \in Seq(CertObj)
  BY DEF LoadInv, CfgLists
<1> HIDE DEF l
<1>4. ASSUME NEW o \in LtnObj, o.name = l.name \/ CanName(ltn, o.name), o.refcnt = l.refcnt,
             ltn' = SetLast(ltn, o), UNCHANGED cert
      PROVE  LoadInv'
  BY <1>1, <1>3, <1>4, LtnLast DEF l
<1>5. ASSUME NEW n \in Name, CanName(ltn, n), ltn' = SetLast(ltn, [l EXCEPT !.name = n]),
             UNCHANGED cert
      PROVE  LoadInv'
  <2>1. /\ [l EXCEPT !.name = n] \in LtnObj /\ [l EXCEPT !.name = n].name = n
        /\ [l EXCEPT !.name = n].refcnt = l.refcnt
    BY <1>2 DEF LtnObj, ObjName
  <2>. QED BY <1>4, <1>5, <2>1
<1>6. CASE ltn' = SetLast(ltn, [l EXCEPT !.address = TRUE]) /\ UNCHANGED cert
  <2>1. /\ [l EXCEPT !.address = TRUE] \in LtnObj /\ [l EXCEPT !.address = TRUE].name = l.name
        /\ [l EXCEPT !.address = TRUE].refcnt = l.refcnt
    BY <1>2 DEF LtnObj
  <2>. QED BY <1>4, <1>6, <2>1
<1>7. ASSUME NEW b \in BOOLEAN, ltn' = SetLast(ltn, [l EXCEPT !.ssl = b]), UNCHANGED cert
      PROVE  LoadInv'
  <2>1. /\ [l EXCEPT !.ssl = b] \in LtnObj /\ [l EXCEPT !.ssl = b].name = l.name
        /\ [l EXCEPT !.ssl = b].refcnt = l.refcnt
    BY <1>2 DEF LtnObj
  <2>. QED BY <1>4, <1>7, <2>1
<1>8. ASSUME NEW n \in Name, NEW j \in Named(cert, n),
             cert' = [cert EXCEPT ![j].refcnt = @ + 1],
             ltn' = SetLast(ltn, [l EXCEPT !.cert = j])
      PROVE  LoadInv'
  <2> DEFINE d == [cert[j] EXCEPT !.refcnt = @ + 1]
  <2>1. j \in DOMAIN cert /\ j \in Nat /\ cert[j] \in CertObj
    BY <1>3 DEF Named
  <2>2. d \in CertObj /\ CertDone(d) = CertDone(cert[j]) /\ d.name = cert[j].name
    BY <2>1, CertRef
  <2>3. cert' = [cert EXCEPT ![j] = d]
    BY <1>8
  <2> HIDE DEF d
  <2>4. /\ cert' \in Seq(CertObj) /\ Len(cert') = Len(cert)
        /\ DOMAIN cert' = 1 .. Len(cert) /\ DOMAIN cert = 1 .. Len(cert)
        /\ \A k \in 1 .. Len(cert) : cert'[k] = IF k = j THEN d ELSE cert[k]
    BY <1>3, <2>1, <2>2, <2>3, SetOneIs
  <2>5. \A k \in DOMAIN cert : CertDone(cert'[k]) = CertDone(cert[k])
                                /\ cert'[k].name = cert[k].name
    BY <2>2, <2>4
  <2>6. /\ [l EXCEPT !.cert = j] \in LtnObj /\ [l EXCEPT !.cert = j].name = l.name
        /\ [l EXCEPT !.cert = j].refcnt = l.refcnt
    BY <1>2, <2>1 DEF LtnObj
  <2>. QED BY <1>1, <1>8, <2>4, <2>5, <2>6, LtnLast DEF l
<1>. QED BY <1>5, <1>6, <1>7, <1>8 DEF _cfg_parse_listener, l

(* A keyword changes the last pool. *)
LEMMA SpLast ==
  ASSUME LoadInv, In("SVRPOOL"), NEW o \in SpObj, sp' = SetLast(sp, o),
         o.name = Last(sp).name \/ CanName(sp, o.name),
         o.refcnt = Last(sp).refcnt,
         UNCHANGED <<section, cert, ltn, pl, status>>
  PROVE  LoadInv'
<1>1. CfgLists /\ Checked /\ ObjCloned /\ UniqueNames /\ Exclusive /\ section = "SVRPOOL" /\ status = "load"
  BY DEF LoadInv, In
<1>2. sp \in Seq(SpObj) /\ sp # <<>>
  BY <1>1 DEF CfgLists
<1>3. /\ sp' \in Seq(SpObj) /\ sp' # <<>> /\ Len(sp') = Len(sp)
      /\ DOMAIN sp' = 1 .. Len(sp) /\ DOMAIN sp = 1 .. Len(sp)
      /\ Len(sp) \in Nat \ {0}
      /\ \A k \in 1 .. Len(sp) : sp'[k] = IF k = Len(sp) THEN o ELSE sp[k]
      /\ Last(sp) = sp[Len(sp)]
  <2>1. sp' = [sp EXCEPT ![Len(sp)] = o]
    BY DEF SetLast
  <2>. QED BY <1>2, <2>1 DEF Last
<1>4. CfgLists'
  BY <1>1, <1>3 DEF CfgLists
<1>5. Checked'
  BY <1>1, <1>3 DEF Checked
<1>6. ObjCloned'
  BY <1>1, <1>3, ClonedKeep
<1>7. Distinct(sp)
  BY <1>1 DEF UniqueNames
<1>8. Distinct(sp')
  <2>1. CASE o.name = Last(sp).name
    BY <1>3, <1>7, <2>1, DistinctKeep
  <2>2. CASE CanName(sp, o.name)
    BY <1>2, <1>7, <2>2, DistinctName
  <2>. QED BY <2>1, <2>2
<1>9. UniqueNames' /\ Exclusive'
  BY <1>1, <1>8 DEF UniqueNames, Exclusive
<1>. QED BY <1>4, <1>5, <1>6, <1>9 DEF LoadInv

(* A keyword of a pool section fills in the last pool. *)
LEMMA SvrpoolLoad ==
  ASSUME LoadInv, _cfg_parse_svrpool
  PROVE  LoadInv'
<1> DEFINE s == Last(sp)
<1>1. In("SVRPOOL") /\ UNCHANGED <<section, cert, ltn, pl, status>>
  BY DEF _cfg_parse_svrpool
<1>2. s \in SpObj
  <2>1. sp \in Seq(SpObj) /\ sp # <<>>
    BY <1>1 DEF LoadInv, CfgLists, In
  <2>. QED BY <2>1, SetLastIs
<1> HIDE DEF s
<1>3. CASE UNCHANGED sp
  BY <1>1, <1>3, ListsAlone
<1>4. ASSUME NEW n \in Name, CanName(sp, n), sp' = SetLast(sp, [s EXCEPT !.name = n])
      PROVE  LoadInv'
  <2>1. /\ [s EXCEPT !.name = n] \in SpObj /\ [s EXCEPT !.name = n].name = n
        /\ [s EXCEPT !.name = n].refcnt = s.refcnt
    BY <1>2 DEF SpObj, ObjName
  <2>. QED BY <1>1, <1>4, <2>1, SpLast DEF s
<1>5. CASE sp' = SetLast(sp, [s EXCEPT !.nserver = @ + 1])
  <2>1. \A r \in Nat : /\ [s EXCEPT !.nserver = r] \in SpObj
                       /\ [s EXCEPT !.nserver = r].name = s.name
                       /\ [s EXCEPT !.nserver = r].refcnt = s.refcnt
    BY <1>2 DEF SpObj
  <2>2. s.nserver + 1 \in Nat
    BY <1>2 DEF SpObj
  <2>. QED BY <1>1, <1>5, <2>1, <2>2, SpLast DEF s
<1>. QED BY <1>3, <1>4, <1>5 DEF _cfg_parse_svrpool, s

(* What the last policy is changed to, and the counts with it. *)
LEMMA PlLast ==
  ASSUME LoadInv, In("POLICY"), NEW o \in PlObj, pl' = SetLast(pl, o),
         o.name = Last(pl).name \/ CanName(pl, o.name),
         ltn' \in Seq(LtnObj), Len(ltn') = Len(ltn), DOMAIN ltn' = DOMAIN ltn,
         \A k \in DOMAIN ltn : LtnDone(ltn'[k]) = LtnDone(ltn[k])
                               /\ ltn'[k].name = ltn[k].name,
         sp' \in Seq(SpObj), Len(sp') = Len(sp), DOMAIN sp' = DOMAIN sp,
         \A k \in DOMAIN sp : SpDone(sp'[k]) = SpDone(sp[k])
                              /\ sp'[k].name = sp[k].name,
         UNCHANGED <<section, cert, status>>
  PROVE  CfgLists' /\ Checked' /\ UniqueNames'
<1>1. CfgLists /\ Checked /\ UniqueNames /\ section = "POLICY" /\ status = "load"
  BY DEF LoadInv, In
<1>2. pl \in Seq(PlObj) /\ pl # <<>>
  BY <1>1 DEF CfgLists
<1>3. /\ pl' \in Seq(PlObj) /\ pl' # <<>> /\ Len(pl') = Len(pl)
      /\ DOMAIN pl' = 1 .. Len(pl) /\ DOMAIN pl = 1 .. Len(pl)
      /\ Len(pl) \in Nat \ {0}
      /\ \A k \in 1 .. Len(pl) : pl'[k] = IF k = Len(pl) THEN o ELSE pl[k]
      /\ Last(pl) = pl[Len(pl)]
  <2>1. pl' = [pl EXCEPT ![Len(pl)] = o]
    BY DEF SetLast
  <2>. QED BY <1>2, <2>1 DEF Last
<1>4. CfgLists'
  BY <1>1, <1>3 DEF CfgLists
<1>5. Checked'
  BY <1>1, <1>3 DEF Checked
<1>6. Distinct(pl) /\ Distinct(ltn) /\ Distinct(sp) /\ Distinct(cert)
  BY <1>1 DEF UniqueNames
<1>7. Distinct(pl')
  <2>1. CASE o.name = Last(pl).name
    <3>1. DOMAIN pl' = DOMAIN pl /\ \A k \in DOMAIN pl : pl'[k].name = pl[k].name
      BY <1>3, <2>1
    <3>. QED BY <1>6, <3>1, DistinctKeep
  <2>2. CASE CanName(pl, o.name)
    <3>1. Distinct(SetLast(pl, o))
      BY <1>2, <1>6, <2>2, DistinctName
    <3>. QED BY <3>1
  <2>. QED BY <2>1, <2>2
<1>8. Distinct(ltn') /\ Distinct(sp')
  BY <1>6, DistinctKeep
<1>9. UniqueNames'
  BY <1>6, <1>7, <1>8 DEF UniqueNames
<1>. QED BY <1>4, <1>5, <1>9

(* The policies after the last one was changed. *)
LEMMA PlIs ==
  ASSUME LoadInv, In("POLICY"), NEW o \in PlObj, pl' = SetLast(pl, o)
  PROVE  /\ DOMAIN pl' = 1 .. Len(pl) /\ DOMAIN pl = 1 .. Len(pl) /\ Len(pl) \in Nat \ {0}
         /\ \A k \in 1 .. Len(pl) : pl'[k] = IF k = Len(pl) THEN o ELSE pl[k]
         /\ Last(pl) = pl[Len(pl)]
         /\ Last(pl) \in PlObj
<1>1. pl \in Seq(PlObj) /\ pl # <<>>
  BY DEF LoadInv, CfgLists, In
<1>2. pl' = [pl EXCEPT ![Len(pl)] = o]
  BY DEF SetLast
<1>. QED BY <1>1, <1>2 DEF Last

(* Counting a reference leaves the rest of an object alone. *)
LEMMA LtnRef ==
  ASSUME NEW c \in LtnObj
  PROVE  LET d == [c EXCEPT !.refcnt = @ + 1]
         IN  /\ d \in LtnObj /\ LtnDone(d) = LtnDone(c) /\ d.name = c.name
             /\ d.refcnt = c.refcnt + 1
<1> DEFINE d == [c EXCEPT !.refcnt = @ + 1]
<1>1. c.refcnt + 1 \in Nat
  BY DEF LtnObj
<1>2. \A r \in Nat : [c EXCEPT !.refcnt = r] \in LtnObj
  BY DEF LtnObj
<1>3. d.name = c.name /\ d.address = c.address /\ d.ssl = c.ssl /\ d.cert = c.cert
  BY DEF LtnObj
<1>4. LtnDone(d) = LtnDone(c)
  BY <1>3, Zenon DEF LtnDone
<1>5. d.refcnt = c.refcnt + 1
  BY DEF LtnObj
<1>. QED BY <1>1, <1>2, <1>3, <1>4, <1>5

(* One more reference to a pool. *)
LEMMA SpRef ==
  ASSUME NEW c \in SpObj
  PROVE  LET d == [c EXCEPT !.refcnt = @ + 1]
         IN  /\ d \in SpObj /\ SpDone(d) = SpDone(c) /\ d.name = c.name
             /\ d.refcnt = c.refcnt + 1
<1> DEFINE d == [c EXCEPT !.refcnt = @ + 1]
<1>1. c.refcnt + 1 \in Nat
  BY DEF SpObj
<1>2. \A r \in Nat : [c EXCEPT !.refcnt = r] \in SpObj
  BY DEF SpObj
<1>3. d.name = c.name /\ d.nserver = c.nserver
  BY DEF SpObj
<1>4. SpDone(d) = SpDone(c)
  BY <1>3, Zenon DEF SpDone
<1>5. d.refcnt = c.refcnt + 1
  BY DEF SpObj
<1>. QED BY <1>1, <1>2, <1>3, <1>4, <1>5

(* A policy takes a listener that no other has. *)
LEMMA PolicyListenerLoad ==
  ASSUME LoadInv, In("POLICY"), NEW j \in DOMAIN ltn, PolicyListener(j),
         UNCHANGED <<section, cert, sp, status>>
  PROVE  LoadInv'
<1> DEFINE o == [Last(pl) EXCEPT !.listener = j]
           d == [ltn[j] EXCEPT !.refcnt = @ + 1]
<1>1. /\ ltn \in Seq(LtnObj) /\ pl \in Seq(PlObj) /\ pl # <<>> /\ ltn[j] \in LtnObj
      /\ j \in Nat \ {0} /\ j <= Len(ltn) /\ sp \in Seq(SpObj) /\ Len(ltn) \in Nat
      /\ DOMAIN ltn = 1 .. Len(ltn) /\ DOMAIN sp = 1 .. Len(sp) /\ Len(sp) \in Nat
      /\ CfgLists /\ ObjCloned
  BY DEF LoadInv, CfgLists, In
<1>2. Last(pl) \in PlObj
  BY <1>1, SetLastIs
<1>3. o \in PlObj /\ o.name = Last(pl).name /\ o.listener = j /\ o.svrpool = Last(pl).svrpool
  BY <1>1, <1>2 DEF PlObj
<1>4. d \in LtnObj /\ LtnDone(d) = LtnDone(ltn[j]) /\ d.name = ltn[j].name
      /\ d.refcnt = ltn[j].refcnt + 1
  BY <1>1, LtnRef
<1>5. ltn' = [ltn EXCEPT ![j] = d] /\ pl' = SetLast(pl, o)
      /\ \A p \in DOMAIN pl : pl[p].listener # j
  BY DEF PolicyListener
<1> HIDE DEF o, d
<1>6. /\ ltn' \in Seq(LtnObj) /\ Len(ltn') = Len(ltn) /\ DOMAIN ltn' = DOMAIN ltn
      /\ \A k \in DOMAIN ltn : ltn'[k] = IF k = j THEN d ELSE ltn[k]
  BY <1>1, <1>4, <1>5, SetOneIs
<1>7. \A k \in DOMAIN ltn : LtnDone(ltn'[k]) = LtnDone(ltn[k]) /\ ltn'[k].name = ltn[k].name
  BY <1>4, <1>6
<1>8. CfgLists' /\ Checked' /\ UniqueNames'
  BY <1>1, <1>3, <1>5, <1>6, <1>7, PlLast
<1>9. /\ DOMAIN pl' = 1 .. Len(pl) /\ DOMAIN pl = 1 .. Len(pl) /\ Len(pl) \in Nat \ {0}
      /\ \A k \in 1 .. Len(pl) : pl'[k] = IF k = Len(pl) THEN o ELSE pl[k]
      /\ Last(pl) = pl[Len(pl)]
  BY <1>3, <1>5, PlIs
<1>10. Exclusive'
  BY <1>3, <1>5, <1>9 DEF LoadInv, Exclusive
<1>11. ObjCloned'
  <2>1. \A k : SpUsers(k)' = SpUsers(k)
    BY <1>3, <1>9 DEF SpUsers
  <2>2. ASSUME NEW k \in DOMAIN ltn PROVE Cardinality(LtnUsers(k)') <= ltn'[k].refcnt
    <3>1. IsFiniteSet(LtnUsers(k))
      BY <1>1, UsersFinite, Zenon
    <3>2. Cardinality(LtnUsers(k)) <= ltn[k].refcnt /\ ltn[k].refcnt \in Nat
      <4>1. ltn[k] \in LtnObj
        BY <1>1
      <4>2. ltn[k].refcnt \in Nat
        BY <4>1 DEF LtnObj
      <4>. QED BY <1>1, <4>2 DEF ObjCloned
    <3>3. CASE k = j
      <4>1. LtnUsers(k)' \subseteq LtnUsers(k) \cup {Len(pl)}
        BY <1>9 DEF LtnUsers
      <4>2. Cardinality(LtnUsers(k)') <= Cardinality(LtnUsers(k)) + 1
        BY <3>1, <4>1, OneMore
      <4>3. IsFiniteSet(LtnUsers(k)')
        <5>1. IsFiniteSet(LtnUsers(k) \cup {Len(pl)})
          BY <3>1, FS_AddElement
        <5>. QED BY <4>1, <5>1, FS_Subset
      <4>4. Cardinality(LtnUsers(k)') \in Nat /\ Cardinality(LtnUsers(k)) \in Nat
        BY <3>1, <4>3, FS_CardinalityType
      <4>5. ltn'[k].refcnt = ltn[k].refcnt + 1
        BY <1>4, <1>6, <3>3
      <4>. QED BY <3>2, <4>2, <4>4, <4>5
    <3>4. CASE k # j
      <4>1. LtnUsers(k)' \subseteq LtnUsers(k)
        BY <1>3, <1>9, <3>4 DEF LtnUsers
      <4>2. Cardinality(LtnUsers(k)') <= Cardinality(LtnUsers(k)) /\ IsFiniteSet(LtnUsers(k)')
        BY <3>1, <4>1, FS_Subset
      <4>3. Cardinality(LtnUsers(k)') \in Nat /\ Cardinality(LtnUsers(k)) \in Nat
        BY <3>1, <4>2, FS_CardinalityType
      <4>4. ltn'[k].refcnt = ltn[k].refcnt
        BY <1>6, <3>4
      <4>. QED BY <3>2, <4>2, <4>3, <4>4
    <3>. QED BY <3>3, <3>4
  <2>3. \A p \in DOMAIN pl' : pl'[p].listener <= Len(ltn) /\ pl'[p].svrpool <= Len(sp)
    BY <1>1, <1>3, <1>9 DEF ObjCloned
  <2>4. \A k \in DOMAIN sp : Cardinality(SpUsers(k)') <= sp'[k].refcnt
    BY <1>1, <2>1 DEF ObjCloned
  <2>. QED BY <1>6, <2>2, <2>3, <2>4 DEF ObjCloned
<1>. QED BY <1>8, <1>10, <1>11 DEF LoadInv

(* A policy takes a pool, which may serve others too. *)
LEMMA PolicySvrpoolLoad ==
  ASSUME LoadInv, In("POLICY"), NEW j \in DOMAIN sp, PolicySvrpool(j),
         UNCHANGED <<section, cert, ltn, status>>
  PROVE  LoadInv'
<1> DEFINE o == [Last(pl) EXCEPT !.svrpool = j]
           d == [sp[j] EXCEPT !.refcnt = @ + 1]
<1>1. /\ sp \in Seq(SpObj) /\ pl \in Seq(PlObj) /\ pl # <<>> /\ sp[j] \in SpObj
      /\ j \in Nat \ {0} /\ j <= Len(sp) /\ ltn \in Seq(LtnObj) /\ Len(sp) \in Nat
      /\ DOMAIN sp = 1 .. Len(sp) /\ DOMAIN ltn = 1 .. Len(ltn) /\ Len(ltn) \in Nat
      /\ CfgLists /\ ObjCloned
  BY DEF LoadInv, CfgLists, In
<1>2. Last(pl) \in PlObj
  BY <1>1, SetLastIs
<1>3. o \in PlObj /\ o.name = Last(pl).name /\ o.svrpool = j /\ o.listener = Last(pl).listener
  BY <1>1, <1>2 DEF PlObj
<1>4. d \in SpObj /\ SpDone(d) = SpDone(sp[j]) /\ d.name = sp[j].name
      /\ d.refcnt = sp[j].refcnt + 1
  BY <1>1, SpRef
<1>5. sp' = [sp EXCEPT ![j] = d] /\ pl' = SetLast(pl, o)
  BY DEF PolicySvrpool
<1> HIDE DEF o, d
<1>6. /\ sp' \in Seq(SpObj) /\ Len(sp') = Len(sp) /\ DOMAIN sp' = DOMAIN sp
      /\ \A k \in DOMAIN sp : sp'[k] = IF k = j THEN d ELSE sp[k]
  BY <1>1, <1>4, <1>5, SetOneIs
<1>7. \A k \in DOMAIN sp : SpDone(sp'[k]) = SpDone(sp[k]) /\ sp'[k].name = sp[k].name
  BY <1>4, <1>6
<1>8. CfgLists' /\ Checked' /\ UniqueNames'
  BY <1>1, <1>3, <1>5, <1>6, <1>7, PlLast
<1>9. /\ DOMAIN pl' = 1 .. Len(pl) /\ DOMAIN pl = 1 .. Len(pl) /\ Len(pl) \in Nat \ {0}
      /\ \A k \in 1 .. Len(pl) : pl'[k] = IF k = Len(pl) THEN o ELSE pl[k]
      /\ Last(pl) = pl[Len(pl)]
  BY <1>3, <1>5, PlIs
<1>10. Exclusive'
  BY <1>3, <1>5, <1>9 DEF LoadInv, Exclusive
<1>11. ObjCloned'
  <2>1. \A k : LtnUsers(k)' = LtnUsers(k)
    BY <1>3, <1>9 DEF LtnUsers
  <2>2. ASSUME NEW k \in DOMAIN sp PROVE Cardinality(SpUsers(k)') <= sp'[k].refcnt
    <3>1. IsFiniteSet(SpUsers(k))
      BY <1>1, UsersFinite, Zenon
    <3>2. Cardinality(SpUsers(k)) <= sp[k].refcnt /\ sp[k].refcnt \in Nat
      <4>1. sp[k] \in SpObj
        BY <1>1
      <4>2. sp[k].refcnt \in Nat
        BY <4>1 DEF SpObj
      <4>. QED BY <1>1, <4>2 DEF ObjCloned
    <3>3. CASE k = j
      <4>1. SpUsers(k)' \subseteq SpUsers(k) \cup {Len(pl)}
        BY <1>9 DEF SpUsers
      <4>2. Cardinality(SpUsers(k)') <= Cardinality(SpUsers(k)) + 1
        BY <3>1, <4>1, OneMore
      <4>3. IsFiniteSet(SpUsers(k)')
        <5>1. IsFiniteSet(SpUsers(k) \cup {Len(pl)})
          BY <3>1, FS_AddElement
        <5>. QED BY <4>1, <5>1, FS_Subset
      <4>4. Cardinality(SpUsers(k)') \in Nat /\ Cardinality(SpUsers(k)) \in Nat
        BY <3>1, <4>3, FS_CardinalityType
      <4>5. sp'[k].refcnt = sp[k].refcnt + 1
        BY <1>4, <1>6, <3>3
      <4>. QED BY <3>2, <4>2, <4>4, <4>5
    <3>4. CASE k # j
      <4>1. SpUsers(k)' \subseteq SpUsers(k)
        BY <1>3, <1>9, <3>4 DEF SpUsers
      <4>2. Cardinality(SpUsers(k)') <= Cardinality(SpUsers(k)) /\ IsFiniteSet(SpUsers(k)')
        BY <3>1, <4>1, FS_Subset
      <4>3. Cardinality(SpUsers(k)') \in Nat /\ Cardinality(SpUsers(k)) \in Nat
        BY <3>1, <4>2, FS_CardinalityType
      <4>4. sp'[k].refcnt = sp[k].refcnt
        BY <1>6, <3>4
      <4>. QED BY <3>2, <4>2, <4>3, <4>4
    <3>. QED BY <3>3, <3>4
  <2>3. \A p \in DOMAIN pl' : pl'[p].svrpool <= Len(sp) /\ pl'[p].listener <= Len(ltn)
    BY <1>1, <1>3, <1>9 DEF ObjCloned
  <2>4. \A k \in DOMAIN ltn : Cardinality(LtnUsers(k)') <= ltn'[k].refcnt
    BY <1>1, <2>1 DEF ObjCloned
  <2>. QED BY <1>6, <2>2, <2>3, <2>4 DEF ObjCloned
<1>. QED BY <1>8, <1>10, <1>11 DEF LoadInv

(* A keyword of a policy section fills in the last policy. *)
LEMMA PolicyLoad ==
  ASSUME LoadInv, _cfg_parse_policy
  PROVE  LoadInv'
<1>1. In("POLICY") /\ UNCHANGED <<section, cert, status>>
  BY DEF _cfg_parse_policy
<1>2. Last(pl) \in PlObj
  <2>1. pl \in Seq(PlObj) /\ pl # <<>>
    BY <1>1 DEF LoadInv, CfgLists, In
  <2>. QED BY <2>1, SetLastIs
<1>3. ltn \in Seq(LtnObj) /\ sp \in Seq(SpObj) /\ CfgLists /\ ObjCloned /\ Exclusive
  BY DEF LoadInv, CfgLists
<1>4. ASSUME NEW n \in Name, CanName(pl, n),
             pl' = SetLast(pl, [Last(pl) EXCEPT !.name = n]), UNCHANGED <<ltn, sp>>
      PROVE  LoadInv'
  <2> DEFINE o == [Last(pl) EXCEPT !.name = n]
  <2>1. o \in PlObj /\ o.name = n
    BY <1>2 DEF PlObj, ObjName
  <2>2. o.listener = Last(pl).listener /\ o.svrpool = Last(pl).svrpool
    BY <1>2 DEF PlObj
  <2>3. pl' = SetLast(pl, o)
    BY <1>4
  <2> HIDE DEF o
  <2>4. CanName(pl, o.name)
    BY <1>4, <2>1
  <2>5. CfgLists' /\ Checked' /\ UniqueNames'
    BY <1>1, <1>3, <1>4, <2>1, <2>3, <2>4, PlLast
  <2>6. /\ DOMAIN pl' = 1 .. Len(pl) /\ DOMAIN pl = 1 .. Len(pl) /\ Len(pl) \in Nat \ {0}
        /\ \A k \in 1 .. Len(pl) : pl'[k] = IF k = Len(pl) THEN o ELSE pl[k]
        /\ Last(pl) = pl[Len(pl)]
    BY <1>1, <2>1, <2>3, PlIs
  <2>7. \A p \in DOMAIN pl : pl'[p].listener = pl[p].listener /\ pl'[p].svrpool = pl[p].svrpool
    BY <2>2, <2>6
  <2>8. ObjCloned'
    BY <1>3, <1>4, <2>6, <2>7, ClonedKeep
  <2>9. Exclusive'
    BY <1>3, <2>6, <2>7 DEF Exclusive
  <2>. QED BY <2>5, <2>8, <2>9 DEF LoadInv
<1>5. CASE UNCHANGED <<ltn, sp, pl>>
  BY <1>1, <1>5, ListsAlone
<1>6. ASSUME NEW n \in Name, NEW j \in Named(ltn, n), PolicyListener(j), UNCHANGED sp
      PROVE  LoadInv'
  <2>1. j \in DOMAIN ltn
    BY DEF Named
  <2>. QED BY <1>1, <1>6, <2>1, PolicyListenerLoad
<1>7. ASSUME NEW n \in Name, NEW j \in Named(sp, n), PolicySvrpool(j), UNCHANGED ltn
      PROVE  LoadInv'
  <2>1. j \in DOMAIN sp
    BY DEF Named
  <2>. QED BY <1>1, <1>7, <2>1, PolicySvrpoolLoad
<1>. QED BY <1>4, <1>5, <1>6, <1>7 DEF _cfg_parse_policy

(* Every line that is parsed keeps the invariant. *)
LEMMA NextLoad == LoadInv /\ [LoadNext]_cfgvars => LoadInv'
<1> SUFFICES ASSUME LoadInv, [LoadNext]_cfgvars PROVE LoadInv'
  OBVIOUS
<1>1. CASE _cfg_parse_proxy
  BY <1>1, ListsAlone DEF _cfg_parse_proxy, objects
<1>2. CASE Reject
  BY <1>2, ListsAlone DEF Reject, objects
<1>3. CASE cfg_load_file
  BY <1>3, ListsAlone DEF cfg_load_file, objects
<1>4. CASE proxy_free
  BY <1>4, ListsAlone DEF proxy_free, objects
<1>5. CASE LoadEnded \/ UNCHANGED cfgvars
  BY <1>5, ListsAlone DEF LoadEnded, cfgvars, objects
<1>. QED BY <1>1, <1>2, <1>3, <1>4, <1>5, HeaderLoad, CertsetLoad, ListenerLoad, SvrpoolLoad,
            PolicyLoad DEF LoadNext

(* The invariant of the load, for any file, any number of objects and any failure. *)
THEOREM LoadCorrect == LoadSpec => []LoadInv
  BY InitLoad, NextLoad, PTL DEF LoadSpec

(* What cfg_load_file accepts is unambiguous and complete, and no two policies share a  *)
(* listener, for files of any length.                                                 *)
THEOREM AcceptedCorrect == LoadSpec => []Accepted
<1>1. LoadInv => Accepted
  <2> SUFFICES ASSUME LoadInv PROVE Accepted
    OBVIOUS
  <2>1. Complete
    BY DEF LoadInv, CfgLists, Checked, Complete, _cfg_check_section, Last
  <2>. QED BY <2>1 DEF LoadInv, Accepted
<1>. QED BY LoadCorrect, <1>1, PTL

(* proxy_free frees nothing twice, wherever the load ended: every reference a policy    *)
(* holds was counted.                                                                 *)
THEOREM NoOverFreeCorrect == LoadSpec => []NoOverFree
<1>1. LoadInv => NoOverFree
  <2> SUFFICES ASSUME LoadInv PROVE NoOverFree
    OBVIOUS
  <2>1. ASSUME NEW k \in DOMAIN ltn PROVE Frees(k, "listener") <= ltn[k].refcnt + 1
    <3>1. Cardinality(LtnUsers(k)) <= ltn[k].refcnt
      BY DEF LoadInv, ObjCloned
    <3>2. IsFiniteSet(LtnUsers(k))
      BY UsersFinite DEF LoadInv
    <3>3. Cardinality(LtnUsers(k)) \in Nat
      BY <3>2, FS_CardinalityType
    <3>4. ltn[k] \in LtnObj
      BY DEF LoadInv, CfgLists
    <3>5. ltn[k].refcnt \in Nat
      BY <3>4 DEF LtnObj
    <3>6. Frees(k, "listener") = 1 + Cardinality(LtnUsers(k))
      <4>1. \A p \in DOMAIN pl : pl[p]["listener"] = pl[p].listener
        OBVIOUS
      <4>2. {p \in DOMAIN pl : pl[p]["listener"] = k} = LtnUsers(k)
        BY <4>1 DEF LtnUsers
      <4>3. Frees(k, "listener") = 1 + Cardinality({p \in DOMAIN pl : pl[p]["listener"] = k})
        BY Zenon DEF Frees
      <4>. QED BY <4>2, <4>3, Zenon
    <3>. QED BY <3>1, <3>3, <3>5, <3>6
  <2>2. ASSUME NEW k \in DOMAIN sp PROVE Frees(k, "svrpool") <= sp[k].refcnt + 1
    <3>1. Cardinality(SpUsers(k)) <= sp[k].refcnt
      BY DEF LoadInv, ObjCloned
    <3>2. IsFiniteSet(SpUsers(k))
      BY UsersFinite DEF LoadInv
    <3>3. Cardinality(SpUsers(k)) \in Nat
      BY <3>2, FS_CardinalityType
    <3>4. sp[k] \in SpObj
      BY DEF LoadInv, CfgLists
    <3>5. sp[k].refcnt \in Nat
      BY <3>4 DEF SpObj
    <3>6. Frees(k, "svrpool") = 1 + Cardinality(SpUsers(k))
      <4>1. \A p \in DOMAIN pl : pl[p]["svrpool"] = pl[p].svrpool
        OBVIOUS
      <4>2. {p \in DOMAIN pl : pl[p]["svrpool"] = k} = SpUsers(k)
        BY <4>1 DEF SpUsers
      <4>3. Frees(k, "svrpool") = 1 + Cardinality({p \in DOMAIN pl : pl[p]["svrpool"] = k})
        BY Zenon DEF Frees
      <4>. QED BY <4>2, <4>3, Zenon
    <3>. QED BY <3>1, <3>3, <3>5, <3>6
  <2>. QED BY <2>1, <2>2 DEF NoOverFree
<1>. QED BY LoadCorrect, <1>1, PTL
=============================================================================
