--------------------------- MODULE ObjPoolProofs ----------------------------
(***************************************************************************)
(* Proofs about ObjPool, for any number of threads, caches and nodes of a  *)
(* cache.  The free list is described without walking along it: the        *)
(* pointers of the free nodes are inverse to each other and lead down a    *)
(* rank.  Push, Behead and Unlink preserve that, and it is enough to show  *)
(* that a list with a node in it has a head, so that objpool_get may take  *)
(* the head on the strength of a counter.                                  *)
(***************************************************************************)
EXTENDS ObjPool, FiniteSetTheorems, WellFoundedInduction, TLAPS

\* List h, nx, pp runs through the nodes of L, there and back.
Linked(L, h, nx, pp) ==
  /\ h \in L \cup {NULL}
  /\ \A n \in L : /\ nx[n] \in L \cup {NULL}
                  /\ pp[n] \in L \cup {LIST}
                  /\ pp[n] = LIST <=> h = n
                  /\ \A m \in L : nx[m] = n <=> pp[n] = m

\* It runs downwards: r bounds how far the list goes on.
Descends(L, nx, r, b) == /\ \A n \in Node : r[n] < b
                         /\ \A n \in L : nx[n] \in L => r[nx[n]] < r[n]

Ranked(L, nx) == \E b \in Nat : \E r \in [Node -> Nat] : Descends(L, nx, r, b)

-----------------------------------------------------------------------------
(* Nodes, and sets of them.                                                *)

LEMMA NodeFacts ==
  /\ \A n \in Node : n[1] \in Cache /\ n[2] \in Index /\ n = <<n[1], n[2]>>
  /\ \A c \in Cache, i \in Index : <<c, i>> \in Node /\ <<c, i>>[1] = c /\ <<c, i>>[2] = i
  /\ NULL \notin Node /\ LIST \notin Node /\ LIST # NULL
  BY PoolAssumption DEF Node

LEMMA IndexFacts == /\ Inc \in Nat /\ Inc > 0 /\ 0 \in Index /\ Inc - 1 \in Index
                    /\ \A i \in Index : i \in Nat /\ i < Inc /\ (More(i) => i + 1 \in Index)
                    /\ \A i \in Index : ~More(i) => i = Inc - 1
  BY PoolAssumption DEF Index, More

LEMMA IndexFinite == IsFiniteSet(Index) /\ Cardinality(Index) = Inc
<1>1. Inc \in Nat \ {0}
  BY PoolAssumption
<1>2. 0 \in Int /\ Inc - 1 \in Int
  BY <1>1
<1>3. IsFiniteSet(0 .. Inc - 1)
  BY <1>2, FS_Interval
<1>4. Cardinality(0 .. Inc - 1) = IF 0 > Inc - 1 THEN 0 ELSE (Inc - 1) - 0 + 1
  BY <1>2, FS_Interval
<1>5. Cardinality(0 .. Inc - 1) = Inc
  BY <1>1, <1>4
<1> QED  BY <1>3, <1>5 DEF Index

LEMMA BlockSize ==
  ASSUME NEW S \in SUBSET Cache
  PROVE  /\ IsFiniteSet(S) /\ Cardinality(S) \in Nat
         /\ IsFiniteSet(S \X Index)
         /\ Cardinality(S \X Index) = Inc * Cardinality(S)
<1>1. IsFiniteSet(S) /\ Cardinality(S) \in Nat
  BY PoolAssumption, FS_Subset, FS_CardinalityType
<1>2. IsFiniteSet(S \X Index) /\ Cardinality(S \X Index) = Cardinality(S) * Cardinality(Index)
  BY <1>1, IndexFinite, FS_Product
<1>3. Inc \in Nat
  BY PoolAssumption
<1>4. Cardinality(S) * Inc = Inc * Cardinality(S)
  BY <1>1, <1>3
<1> QED  BY <1>1, <1>2, <1>4, IndexFinite

LEMMA NodeFinite == IsFiniteSet(Node)
  BY BlockSize DEF Node

LEMMA Count ==
  ASSUME NEW S \in SUBSET Node
  PROVE  /\ IsFiniteSet(S) /\ Cardinality(S) \in Nat
         /\ \A n \in Node \ S : Cardinality(S \cup {n}) = Cardinality(S) + 1
         /\ \A n \in S : Cardinality(S \ {n}) = Cardinality(S) - 1
         /\ Cardinality(S) = 0 <=> S = {}
<1>1. IsFiniteSet(S)
  BY NodeFinite, FS_Subset
<1>2. Cardinality(S) \in Nat
  BY <1>1, FS_CardinalityType
<1>3. \A n \in Node \ S : Cardinality(S \cup {n}) = Cardinality(S) + 1
  BY <1>1, FS_AddElement
<1>4. \A n \in S : Cardinality(S \ {n}) = Cardinality(S) - 1
  BY <1>1, FS_RemoveElement
<1>5. Cardinality(S) = 0 <=> S = {}
  BY <1>1, FS_EmptySet
<1> QED  BY <1>1, <1>2, <1>3, <1>4, <1>5

-----------------------------------------------------------------------------
(* A nonempty list has a head.                                             *)

Below == {x \in Nat \X Nat : x[1] < x[2]}

LEMMA BelowWellFounded == IsWellFoundedOn(Below, Nat)
<1>1. IsWellFoundedOn(OpToRel(<, Nat), Nat)
  BY NatLessThanWellFounded
<1>2. Below \cap (Nat \X Nat) \subseteq OpToRel(<, Nat)
  BY DEF Below, OpToRel
<1> QED  BY <1>1, <1>2, IsWellFoundedOnSubrelation

LEMMA Least ==
  ASSUME NEW T, T \subseteq Nat, T # {}
  PROVE  \E x \in T : \A y \in T : x <= y
<1>1. PICK x \in T : \A y \in T : ~ (<<y, x>> \in Below)
  BY BelowWellFounded, WFMin
<1>2. ASSUME NEW y \in T, y < x PROVE FALSE
  <2>1. <<y, x>> \in Nat \X Nat /\ <<y, x>>[1] = y /\ <<y, x>>[2] = x
    OBVIOUS
  <2>2. <<y, x>> \in Below
    BY <1>2, <2>1 DEF Below
  <2> QED  BY <1>1, <2>2
<1>3. x \in Nat /\ \A y \in T : y \in Nat
  OBVIOUS
<1> QED  BY <1>2, <1>3

\* A node of the greatest rank has no predecessor, so the list starts there.
LEMMA HasHead ==
  ASSUME NEW L \in SUBSET Node, NEW h, NEW nx, NEW pp,
         Linked(L, h, nx, pp), Ranked(L, nx), L # {}
  PROVE  h # NULL /\ h \in L
<1>1. PICK b \in Nat : \E r \in [Node -> Nat] : Descends(L, nx, r, b)
  BY DEF Ranked
<1>2. PICK r \in [Node -> Nat] : Descends(L, nx, r, b)
  BY <1>1
<1> DEFINE T == {b - r[n] : n \in L}
<1>3. \A n \in L : r[n] \in Nat /\ r[n] < b
  BY <1>2 DEF Descends
<1>4. T \subseteq Nat /\ T # {}
  BY <1>3
<1> HIDE DEF T
<1>5. PICK x \in T : \A y \in T : x <= y
  BY <1>4, Least
<1>6. PICK n \in L : x = b - r[n]
  BY <1>5 DEF T
<1>7. \A m \in L : b - r[n] <= b - r[m]
  BY <1>5, <1>6 DEF T
<1>8. \A m \in L : r[m] <= r[n]
  BY <1>3, <1>7
<1>9. pp[n] = LIST
  <2>1. SUFFICES ASSUME pp[n] # LIST PROVE FALSE
    OBVIOUS
  <2>2. PICK m \in L : pp[n] = m
    BY <2>1 DEF Linked
  <2>3. nx[m] = n
    BY <2>2 DEF Linked
  <2>4. r[n] < r[m]
    BY <1>2, <2>3 DEF Descends
  <2> QED  BY <1>3, <1>8, <2>4
<1>10. h = n
  BY <1>9 DEF Linked
<1> QED  BY <1>10, NodeFacts

-----------------------------------------------------------------------------
(* The list operations.                                                    *)

\* nx1 and pp1 are nx and pp with n before h.
Pushed(n, h, nx, pp, nx1, pp1) ==
  /\ nx1 = [nx EXCEPT ![n] = h]
  /\ pp1 = [m \in Node |-> IF m = n THEN LIST ELSE IF m = h THEN n ELSE pp[m]]

\* h1, nx1 and pp1 lead past n; what n's own pointers say no longer matters.
Unlinked(L, n, h, nx, pp, h1, nx1, pp1) ==
  /\ \A m \in L \ {n} : nx1[m] = IF m = pp[n] THEN nx[n] ELSE nx[m]
  /\ \A m \in L \ {n} : pp1[m] = IF m = nx[n] THEN pp[n] ELSE pp[m]
  /\ h1 = IF pp[n] = LIST THEN nx[n] ELSE h

LEMMA PushLinked ==
  ASSUME NEW L \in SUBSET Node, NEW n \in Node \ L,
         NEW h, NEW nx \in [Node -> Node \cup {NULL}], NEW pp \in [Node -> Node \cup {NULL, LIST}],
         Linked(L, h, nx, pp), Ranked(L, nx),
         NEW nx1, NEW pp1, Pushed(n, h, nx, pp, nx1, pp1)
  PROVE  Linked(L \cup {n}, n, nx1, pp1) /\ Ranked(L \cup {n}, nx1)
<1> USE DEF Pushed
<1>1. /\ n \in Node /\ n \notin L /\ n # NULL /\ n # LIST /\ h \in L \cup {NULL} /\ h # n
      /\ nx1[n] = h /\ pp1[n] = LIST
      /\ \A m \in L : m # n /\ m # NULL /\ m # LIST /\ nx1[m] = nx[m]
      /\ \A m \in L : pp1[m] = IF m = h THEN n ELSE pp[m]
  BY NodeFacts DEF Linked
<1>2. \A m \in L : /\ nx[m] \in L \cup {NULL} /\ pp[m] \in L \cup {LIST}
                   /\ pp[m] = LIST <=> h = m
                   /\ \A k \in L : nx[k] = m <=> pp[m] = k
  BY DEF Linked
<1>3. Linked(L \cup {n}, n, nx1, pp1)
  <2>1. n \in (L \cup {n}) \cup {NULL}
    OBVIOUS
  <2>2. ASSUME NEW m \in L
        PROVE  /\ nx1[m] \in (L \cup {n}) \cup {NULL} /\ pp1[m] \in (L \cup {n}) \cup {LIST}
               /\ pp1[m] = LIST <=> n = m
               /\ \A k \in L \cup {n} : nx1[k] = m <=> pp1[m] = k
    <3>1. nx1[m] \in (L \cup {n}) \cup {NULL} /\ pp1[m] \in (L \cup {n}) \cup {LIST}
      BY <1>1, <1>2
    <3>2. pp1[m] = LIST <=> n = m
      BY <1>1, <1>2
    <3>3. nx1[n] = m <=> pp1[m] = n
      BY <1>1, <1>2
    <3>4. \A k \in L : nx1[k] = m <=> pp1[m] = k
      BY <1>1, <1>2
    <3> QED  BY <3>1, <3>2, <3>3, <3>4
  <2>3. /\ nx1[n] \in (L \cup {n}) \cup {NULL} /\ pp1[n] \in (L \cup {n}) \cup {LIST}
        /\ pp1[n] = LIST <=> n = n
        /\ \A k \in L \cup {n} : nx1[k] = n <=> pp1[n] = k
    <3>1. \A k \in L : nx1[k] # n /\ k # LIST
      BY <1>1, <1>2
    <3> QED  BY <1>1, <3>1
  <2> QED  BY <2>1, <2>2, <2>3 DEF Linked
<1>4. Ranked(L \cup {n}, nx1)
  <2>1. PICK b \in Nat : \E r \in [Node -> Nat] : Descends(L, nx, r, b)
    BY DEF Ranked
  <2>2. PICK r \in [Node -> Nat] : Descends(L, nx, r, b)
    BY <2>1
  <2> DEFINE r1 == [r EXCEPT ![n] = b]
  <2>3. r1 \in [Node -> Nat] /\ r1[n] = b /\ \A m \in Node : m # n => r1[m] = r[m]
    BY <1>1
  <2> HIDE DEF r1
  <2>4. ASSUME NEW m \in Node PROVE r1[m] < b + 1
    <3>1. r[m] \in Nat /\ r[m] < b
      BY <2>2 DEF Descends
    <3>2. r1[m] = b \/ r1[m] = r[m]
      BY <2>3
    <3> QED  BY <3>1, <3>2
  <2>5. ASSUME NEW m \in L \cup {n}, nx1[m] \in L \cup {n} PROVE r1[nx1[m]] < r1[m]
    <3>1. CASE m = n
      <4>1. nx1[m] = h /\ h \in L /\ r1[h] = r[h] /\ r[h] < b
        BY <1>1, <2>2, <2>3, <2>5, <3>1 DEF Descends
      <4> QED  BY <2>3, <3>1, <4>1
    <3>2. CASE m \in L
      <4>1. nx1[m] = nx[m] /\ nx[m] \in L /\ m # n /\ nx[m] # n
        BY <1>1, <1>2, <2>5, <3>2
      <4>2. r[nx[m]] < r[m] /\ m \in Node /\ nx[m] \in Node
        BY <2>2, <3>2, <4>1 DEF Descends
      <4> QED  BY <2>3, <4>1, <4>2
    <3> QED  BY <2>5, <3>1, <3>2
  <2>6. Descends(L \cup {n}, nx1, r1, b + 1)
    BY <2>4, <2>5 DEF Descends
  <2>7. b + 1 \in Nat
    OBVIOUS
  <2> QED  BY <2>3, <2>6, <2>7 DEF Ranked
<1> QED  BY <1>3, <1>4

LEMMA RemoveLinked ==
  ASSUME NEW L \in SUBSET Node, NEW n \in L,
         NEW h, NEW nx, NEW pp,
         Linked(L, h, nx, pp), Ranked(L, nx),
         NEW h1, NEW nx1, NEW pp1, Unlinked(L, n, h, nx, pp, h1, nx1, pp1)
  PROVE  Linked(L \ {n}, h1, nx1, pp1) /\ Ranked(L \ {n}, nx1)
<1> DEFINE M == L \ {n}
<1> USE DEF Unlinked
<1>1. /\ \A m \in L : /\ nx[m] \in L \cup {NULL} /\ pp[m] \in L \cup {LIST}
                      /\ pp[m] = LIST <=> h = m
                      /\ \A k \in L : nx[k] = m <=> pp[m] = k
      /\ h \in L \cup {NULL}
      /\ \A m \in L : m # NULL /\ m # LIST
  BY NodeFacts DEF Linked
<1>2. PICK b \in Nat : \E r \in [Node -> Nat] : Descends(L, nx, r, b)
  BY DEF Ranked
<1>3. PICK r \in [Node -> Nat] : Descends(L, nx, r, b)
  BY <1>2
<1>4. \A m \in L : r[m] \in Nat /\ nx[m] # m /\ (nx[m] \in L => r[nx[m]] < r[m])
  BY <1>3 DEF Descends
<1>5. nx[n] # n /\ pp[n] # n
  BY <1>1, <1>4
<1>6. h1 \in M \cup {NULL}
  BY <1>1, <1>5
<1>7. ASSUME NEW m \in M PROVE nx1[m] \in M \cup {NULL}
  BY <1>1, <1>5
<1>8. ASSUME NEW m \in M PROVE pp1[m] \in M \cup {LIST}
  BY <1>1, <1>5
<1>9. ASSUME NEW m \in M PROVE pp1[m] = LIST <=> h1 = m
  <2>1. CASE m = nx[n]
    BY <1>1, <1>5, <2>1
  <2>2. CASE m # nx[n]
    BY <1>1, <1>5, <2>2
  <2> QED  BY <2>1, <2>2
<1>10. ASSUME NEW m \in M, NEW k \in M PROVE nx1[k] = m <=> pp1[m] = k
  <2>1. CASE k = pp[n]
    BY <1>1, <1>5, <2>1
  <2>2. CASE k # pp[n]
    BY <1>1, <1>5, <2>2
  <2> QED  BY <2>1, <2>2
<1>11. Linked(M, h1, nx1, pp1)
  BY <1>6, <1>7, <1>8, <1>9, <1>10 DEF Linked
<1>12. ASSUME NEW m \in M, nx1[m] \in M PROVE r[nx1[m]] < r[m]
  <2>1. CASE m = pp[n]
    <3>1. nx[m] = n /\ nx1[m] = nx[n] /\ nx[n] \in L /\ n \in L
      BY <1>1, <1>12, <2>1
    <3>2. r[n] < r[m] /\ r[nx[n]] < r[n] /\ r[n] \in Nat /\ r[m] \in Nat /\ r[nx[n]] \in Nat
      BY <1>4, <3>1
    <3> QED  BY <3>1, <3>2
  <2>2. CASE m # pp[n]
    BY <1>4, <1>12, <2>2
  <2> QED  BY <2>1, <2>2
<1>13. Descends(M, nx1, r, b)
  BY <1>3, <1>12 DEF Descends
<1> QED  BY <1>11, <1>13 DEF Ranked

-----------------------------------------------------------------------------
(* The inductive invariant.                                                *)

OutOf(c) == {n \in out : CacheOf(n) = c}

Dropping == {c \in Cache : \E t \in Thread : job[t].op = "drop" /\ job[t].c = c}

Spares == {c \in caches : nused[c] = 0}

Typed ==
  /\ node_list \in Node \cup {NULL}
  /\ next \in [Node -> Node \cup {NULL}]
  /\ pprev \in [Node -> Node \cup {NULL, LIST}]
  /\ is_used \in [Node -> BOOLEAN]
  /\ nused \in [Cache -> Nat]
  /\ caches \in SUBSET Cache
  /\ nalloced \in Nat /\ nfreed \in Nat
  /\ lock \in Thread \cup {NULL}
  /\ job \in [Thread -> [op : {"idle", "fill", "take", "drop", "leave"}, c : Cache \cup {NULL}, i : Index]]
  /\ out \in SUBSET Node
  /\ open \in BOOLEAN

\* What a call knows at each of its stages, and that only one is under way.
Jobs ==
  /\ \A t \in Thread :
       /\ job[t] = Idle \/ (open /\ job[t].op # "idle")
       /\ job[t].op \in {"fill", "drop"} => job[t].c \in Cache \ caches
       /\ job[t].op = "fill" => nfreed = 0
       /\ job[t].op = "take" => nfreed > 0
       /\ NeedLock /\ job[t] # Idle => lock = t
  /\ Exclusive

ListInv == open => /\ Linked(InList, node_list, next, pprev)
                   /\ Ranked(InList, next)

OutInv ==
  open => /\ \A n \in out : CacheOf(n) \in caches
          /\ \A n \in InList \cup out : is_used[n] <=> n \in out

CountInv ==
  /\ \A c \in Cache : nused[c] = Cardinality(OutOf(c))
  /\ nalloced - nfreed = Cardinality(out)
  /\ open => nalloced = Inc * Cardinality(caches \cup Dropping)

SpareInv == Cardinality(Spares) <= 2

IInv == Typed /\ Jobs /\ ListInv /\ OutInv /\ CountInv /\ SpareInv

-----------------------------------------------------------------------------
(* The list as one thread sees it while all others are outside.            *)

Listed(cs, o, j) ==
  {n \in Node : \/ n[1] \in cs /\ n \notin o
                \/ j.op = "fill" /\ j.c = n[1] /\ n[2] < j.i
                \/ j.op = "drop" /\ j.c = n[1] /\ n[2] >= j.i}

LEMMA InListAs ==
  ASSUME NEW t \in Thread, \A u \in Thread : u # t => job[u] = Idle
  PROVE  InList = Listed(caches, out, job[t])
<1>1. Idle.op = "idle"
  BY DEF Idle
<1>2. ASSUME NEW n \in Node
      PROVE  n \in InList <=> n \in Listed(caches, out, job[t])
  BY <1>1 DEF InList, Listed, CacheOf
<1> QED  BY <1>2 DEF InList, Listed

LEMMA InListAsNext ==
  ASSUME NEW t \in Thread, \A u \in Thread : u # t => job'[u] = Idle
  PROVE  InList' = Listed(caches', out', job'[t])
<1>1. Idle.op = "idle"
  BY DEF Idle
<1>2. ASSUME NEW n \in Node
      PROVE  n \in InList' <=> n \in Listed(caches', out', job'[t])
  BY <1>1 DEF InList, Listed, CacheOf
<1> QED  BY <1>2 DEF InList, Listed

LEMMA DroppingAs ==
  ASSUME Typed, NEW t \in Thread, \A u \in Thread : u # t => job[u] = Idle
  PROVE  Dropping = IF job[t].op = "drop" THEN {job[t].c} \cap Cache ELSE {}
  BY DEF Dropping, Idle

LEMMA DroppingAsNext ==
  ASSUME NEW t \in Thread, \A u \in Thread : u # t => job'[u] = Idle
  PROVE  Dropping' = IF job'[t].op = "drop" THEN {job'[t].c} \cap Cache ELSE {}
  BY DEF Dropping, Idle

LEMMA Alone ==
  ASSUME IInv, NEW t \in Thread, job[t] # Idle \/ _OP_LOCK_RET(t)
  PROVE  \A u \in Thread : u # t => job[u] = Idle
<1>1. CASE job[t] # Idle
  BY <1>1 DEF IInv, Jobs, Exclusive
<1>2. CASE _OP_LOCK_RET(t) /\ NeedLock
  <2>1. lock = NULL /\ \A u \in Thread : u # NULL
    BY <1>2, PoolAssumption DEF _OP_LOCK_RET
  <2> QED  BY <1>2, <2>1 DEF IInv, Jobs
<1>3. CASE ~NeedLock
  BY <1>3, PoolAssumption
<1> QED  BY <1>1, <1>2, <1>3

\* Objects in use lie in the caches, so there are no more than fit in.
LEMMA Fits ==
  ASSUME Typed, OutInv, open
  PROVE  /\ out \subseteq caches \X Index
         /\ Cardinality(out) <= Inc * Cardinality(caches)
         /\ Cardinality((caches \X Index) \ out) = Inc * Cardinality(caches) - Cardinality(out)
<1>1. out \subseteq caches \X Index
  <2>1. ASSUME NEW n \in out PROVE n \in caches \X Index
    <3>1. n \in Node /\ n[1] \in caches
      BY DEF Typed, OutInv, CacheOf
    <3> QED  BY <3>1, NodeFacts
  <2> QED  BY <2>1
<1>2. IsFiniteSet(caches \X Index) /\ Cardinality(caches \X Index) = Inc * Cardinality(caches)
  BY BlockSize DEF Typed
<1>3. Cardinality(out) <= Inc * Cardinality(caches)
  BY <1>1, <1>2, FS_Subset
<1>4. (caches \X Index) \cap out = out
  BY <1>1
<1>5. Cardinality((caches \X Index) \ out)
        = Cardinality(caches \X Index) - Cardinality((caches \X Index) \cap out)
  BY <1>2, FS_Difference
<1> QED  BY <1>1, <1>2, <1>3, <1>4, <1>5

LEMMA OutOfCount ==
  ASSUME NEW o \in SUBSET Node, NEW c \in Cache
  PROVE  /\ Cardinality({n \in o : CacheOf(n) = c}) \in 0 .. Inc
         /\ Cardinality({n \in o : CacheOf(n) = c}) = 0 <=> \A n \in o : CacheOf(n) # c
<1> DEFINE S == {n \in o : CacheOf(n) = c}
<1>1. S \in SUBSET Node
  OBVIOUS
<1>2. Cardinality(S) \in Nat /\ (Cardinality(S) = 0 <=> S = {})
  BY <1>1, Count
<1>3. {c} \in SUBSET Cache /\ Cardinality({c}) = 1
  BY FS_Singleton
<1>4. IsFiniteSet({c} \X Index) /\ Cardinality({c} \X Index) = Inc * 1
  BY <1>3, BlockSize
<1>5. S \subseteq {c} \X Index
  <2>1. ASSUME NEW n \in S PROVE n \in {c} \X Index
    <3>1. n \in Node /\ n[1] = c
      BY DEF CacheOf
    <3> QED  BY <3>1, NodeFacts
  <2> QED  BY <2>1
<1>6. Cardinality(S) <= Inc * 1
  BY <1>4, <1>5, FS_Subset
<1>7. Cardinality(S) \in 0 .. Inc
  BY <1>2, <1>6, IndexFacts
<1>8. S = {} <=> \A n \in o : CacheOf(n) # c
  OBVIOUS
<1> QED  BY <1>2, <1>7, <1>8

\* The caches without a used node are free from end to end.
LEMMA SparesFree ==
  ASSUME Typed, OutInv, CountInv, open
  PROVE  Inc * Cardinality(Spares) <= Inc * Cardinality(caches) - Cardinality(out)
<1>1. Spares \in SUBSET Cache /\ caches \in SUBSET Cache
  BY DEF Spares, Typed
<1>2. Cardinality(Spares \X Index) = Inc * Cardinality(Spares)
  BY <1>1, BlockSize
<1>3. IsFiniteSet((caches \X Index) \ out)
  BY <1>1, BlockSize, FS_Difference
<1>4. Spares \X Index \subseteq (caches \X Index) \ out
  <2>1. ASSUME NEW n \in Spares \X Index PROVE n \in caches \X Index /\ n \notin out
    <3>1. n[1] \in Spares /\ n \in caches \X Index
      BY <2>1 DEF Spares
    <3>2. n[1] \in Cache /\ nused[n[1]] = 0
      BY <3>1 DEF Spares, Typed
    <3>3. Cardinality({m \in out : CacheOf(m) = n[1]}) = 0
      BY <3>2 DEF CountInv, OutOf
    <3>4. \A m \in out : CacheOf(m) # n[1]
      BY <3>2, <3>3, OutOfCount DEF Typed
    <3> QED  BY <3>1, <3>4 DEF CacheOf
  <2> QED  BY <2>1
<1>5. Cardinality(Spares \X Index) <= Cardinality((caches \X Index) \ out)
  BY <1>3, <1>4, FS_Subset
<1> QED  BY <1>2, <1>5, Fits

LEMMA SparesFreeNow ==
  Typed /\ OutInv /\ CountInv /\ open
    => Inc * Cardinality(Spares) <= Inc * Cardinality(caches) - Cardinality(out)
  BY SparesFree

LEMMA SparesFreeNext ==
  (Typed /\ OutInv /\ CountInv /\ open)'
    => (Inc * Cardinality(Spares) <= Inc * Cardinality(caches) - Cardinality(out))'
  BY SparesFreeNow, PTL

-----------------------------------------------------------------------------
(* The invariant holds initially.                                          *)

LEMMA InitInv == Init => IInv
<1> SUFFICES ASSUME Init PROVE IInv
  OBVIOUS
<1>1. PICK c \in Cache :
        /\ caches = {c}
        /\ node_list = <<c, Inc - 1>>
        /\ next = [n \in Node |-> IF n[1] = c /\ n[2] > 0 THEN <<c, n[2] - 1>> ELSE NULL]
        /\ pprev = [n \in Node |-> IF n[1] # c THEN NULL
                                   ELSE IF n[2] = Inc - 1 THEN LIST ELSE <<c, n[2] + 1>>]
        /\ is_used = [n \in Node |-> FALSE] /\ nused = [d \in Cache |-> 0]
        /\ nalloced = Inc /\ nfreed = Inc /\ lock = NULL
        /\ job = [t \in Thread |-> Idle] /\ out = {} /\ open = TRUE
  BY DEF Init
<1>2. /\ \A n \in Node : n[2] \in Nat /\ n[2] < Inc
      /\ \A i \in Index : i # Inc - 1 => i + 1 \in Index
      /\ \A i \in Index : i > 0 => i - 1 \in Index
  BY NodeFacts, IndexFacts DEF Index
<1>3. Typed
  <2>1. \A n \in Node : next[n] \in Node \cup {NULL} /\ pprev[n] \in Node \cup {NULL, LIST}
    BY <1>1, <1>2, NodeFacts
  <2>2. next \in [Node -> Node \cup {NULL}] /\ pprev \in [Node -> Node \cup {NULL, LIST}]
    BY <1>1, <2>1
  <2>3. node_list \in Node
    BY <1>1, NodeFacts, IndexFacts
  <2>4. Idle \in [op : {"idle", "fill", "take", "drop", "leave"}, c : Cache \cup {NULL}, i : Index]
    BY IndexFacts DEF Idle
  <2>5. nalloced \in Nat /\ nfreed \in Nat
    BY <1>1, IndexFacts
  <2> QED  BY <1>1, <2>2, <2>3, <2>4, <2>5 DEF Typed
<1>4. Jobs
  BY <1>1 DEF Jobs, Exclusive, Idle
<1>5. InList = {n \in Node : n[1] = c}
  BY <1>1 DEF InList, Idle, CacheOf
<1>6. Linked(InList, node_list, next, pprev)
  <2>1. node_list \in InList
    BY <1>1, <1>5, NodeFacts, IndexFacts
  <2>2. ASSUME NEW n \in InList
        PROVE  /\ next[n] \in InList \cup {NULL} /\ pprev[n] \in InList \cup {LIST}
               /\ pprev[n] = LIST <=> node_list = n
    BY <1>1, <1>2, <1>5, NodeFacts, IndexFacts
  <2>3. ASSUME NEW n \in InList, NEW m \in InList PROVE next[m] = n <=> pprev[n] = m
    <3>1. /\ n \in Node /\ m \in Node /\ n = <<c, n[2]>> /\ m = <<c, m[2]>>
          /\ n[2] \in Nat /\ m[2] \in Nat /\ n[2] < Inc /\ m[2] < Inc
      BY <1>2, <1>5, NodeFacts
    <3>2. next[m] = IF m[2] > 0 THEN <<c, m[2] - 1>> ELSE NULL
      BY <1>1, <3>1
    <3>3. pprev[n] = IF n[2] = Inc - 1 THEN LIST ELSE <<c, n[2] + 1>>
      BY <1>1, <3>1
    <3>4. next[m] = n <=> m[2] = n[2] + 1
      BY <3>1, <3>2, NodeFacts
    <3>5. pprev[n] = m <=> m[2] = n[2] + 1
      BY <3>1, <3>3, NodeFacts, IndexFacts
    <3> QED  BY <3>4, <3>5
  <2> QED  BY <2>1, <2>2, <2>3 DEF Linked
<1>7. Ranked(InList, next)
  <2> DEFINE r == [n \in Node |-> n[2]]
  <2>1. r \in [Node -> Nat]
    BY <1>2
  <2>2. \A n \in Node : r[n] < Inc
    BY <1>2
  <2>3. ASSUME NEW n \in InList, next[n] \in InList PROVE r[next[n]] < r[n]
    <3>1. n \in Node /\ n[1] = c /\ n[2] \in Nat /\ next[n] \in Node
      BY <1>2, <1>5, <2>3
    <3>2. next[n] # NULL
      BY <3>1, NodeFacts
    <3>3. next[n] = <<c, n[2] - 1>>
      BY <1>1, <3>1, <3>2
    <3>4. r[next[n]] = n[2] - 1 /\ r[n] = n[2]
      BY <3>1, <3>3
    <3> QED  BY <3>1, <3>4
  <2>4. Descends(InList, next, r, Inc)
    BY <2>2, <2>3 DEF Descends
  <2> QED  BY <2>1, <2>4, IndexFacts DEF Ranked
<1>8. OutInv
  BY <1>1, <1>5 DEF OutInv
<1>9. CountInv
  <2>1. \A d \in Cache : OutOf(d) = {}
    BY <1>1 DEF OutOf
  <2>2. Cardinality({}) = 0
    BY FS_EmptySet
  <2>3. Dropping = {}
    BY <1>1 DEF Dropping, Idle
  <2>4. Cardinality(caches \cup Dropping) = 1
    BY <1>1, <2>3, FS_Singleton
  <2>5. nalloced - nfreed = 0 /\ nalloced = Inc * 1
    BY <1>1, IndexFacts
  <2> QED  BY <1>1, <2>1, <2>2, <2>4, <2>5 DEF CountInv
<1>10. SpareInv
  <2>1. Spares = {c}
    BY <1>1 DEF Spares
  <2>2. Cardinality({c}) = 1
    BY FS_Singleton
  <2> QED  BY <2>1, <2>2 DEF SpareInv
<1> QED  BY <1>3, <1>4, <1>6, <1>7, <1>8, <1>9, <1>10 DEF IInv, ListInv

-----------------------------------------------------------------------------
(* Steps that leave the list, the objects and the counters alone.          *)

LEMMA QuietInv ==
  ASSUME IInv, open' = open, NEW t \in Thread, Typed', Jobs',
         \A u \in Thread : u # t => job[u] = Idle /\ job'[u] = Idle,
         job[t].op # "fill" \/ job[t].i = 0, job[t].op # "drop",
         job'[t].op # "fill" \/ job'[t].i = 0, job'[t].op # "drop",
         UNCHANGED <<list, is_used, nused, caches, nalloced, nfreed, out>>
  PROVE  IInv'
<1>1. UNCHANGED <<node_list, next, pprev, is_used, nused, caches, nalloced, nfreed, out>>
  BY DEF list
<1>2. InList' = InList
  <2>1. \A n \in Node : n[2] \in Nat
    BY NodeFacts, IndexFacts
  <2>2. Listed(caches', out', job'[t]) = Listed(caches, out, job[t])
    BY <1>1, <2>1 DEF Listed
  <2> QED  BY <2>2, InListAs, InListAsNext
<1>3. Dropping = {} /\ Dropping' = {}
  BY DroppingAs, DroppingAsNext DEF IInv
<1>4. ListInv' /\ OutInv'
  BY <1>1, <1>2 DEF IInv, ListInv, OutInv
<1>5. CountInv'
  <2>1. \A c : OutOf(c)' = OutOf(c)
    BY <1>1 DEF OutOf
  <2> QED  BY <1>1, <1>3, <2>1 DEF IInv, CountInv
<1>6. SpareInv'
  <2>1. Spares' = Spares
    BY <1>1 DEF Spares
  <2> QED  BY <2>1 DEF IInv, SpareInv
<1> QED  BY <1>4, <1>5, <1>6 DEF IInv

LEMMA GetInv ==
  ASSUME IInv, NEW t \in Thread, objpool_get(t)
  PROVE  IInv'
<1>1. /\ open /\ open' = open /\ job[t] = Idle /\ _OP_LOCK_RET(t)
      /\ UNCHANGED <<list, is_used, nused, caches, nalloced, nfreed, out>>
  BY DEF objpool_get, objpool_get_Finds, objpool_get_Grows, objpool_get_Fails
<1>2. \A u \in Thread : u # t => job[u] = Idle
  BY <1>1, Alone
<1>3. PICK j : /\ job' = [job EXCEPT ![t] = j]
               /\ \/ nfreed # 0 /\ j = At("take", NULL, 0)
                  \/ nfreed = 0 /\ \E c \in Cache \ Taken : j = At("fill", c, 0)
                  \/ nfreed = 0 /\ j = At("leave", NULL, 0)
  BY DEF objpool_get, objpool_get_Finds, objpool_get_Grows, objpool_get_Fails
<1>4. /\ j.op \in {"take", "fill", "leave"} /\ j.c \in Cache \cup {NULL} /\ j.i = 0
      /\ j \in [op : {"idle", "fill", "take", "drop", "leave"}, c : Cache \cup {NULL}, i : Index]
      /\ j.op = "fill" => j.c \in Cache \ caches /\ nfreed = 0
      /\ j.op = "take" => nfreed # 0
      /\ j # Idle
  BY <1>3, IndexFacts DEF At, Taken, Idle
<1>5. Typed
  BY DEF IInv
<1>6. job'[t] = j /\ \A u \in Thread : u # t => job'[u] = Idle
  BY <1>2, <1>3, <1>5 DEF Typed
<1>7. lock' \in Thread \cup {NULL} /\ (NeedLock => lock' = t)
  BY <1>1, <1>5 DEF _OP_LOCK_RET, Typed
<1>8. job' \in [Thread -> [op : {"idle", "fill", "take", "drop", "leave"}, c : Cache \cup {NULL}, i : Index]]
  BY <1>3, <1>4, <1>5 DEF Typed
<1>9. Typed'
  BY <1>1, <1>5, <1>7, <1>8 DEF Typed, list
<1>10. Jobs'
  <2>1. nfreed' = nfreed /\ caches' = caches /\ nfreed \in Nat /\ Idle.op = "idle"
    BY <1>1, <1>5 DEF Typed, Idle
  <2>2. ASSUME NEW u \in Thread
        PROVE  /\ job'[u] = Idle \/ (open' /\ job'[u].op # "idle")
               /\ job'[u].op \in {"fill", "drop"} => job'[u].c \in Cache \ caches'
               /\ job'[u].op = "fill" => nfreed' = 0
               /\ job'[u].op = "take" => nfreed' > 0
               /\ NeedLock /\ job'[u] # Idle => lock' = u
    <3>1. CASE u = t
      BY <1>1, <1>4, <1>6, <1>7, <2>1, <3>1
    <3>2. CASE u # t
      BY <1>6, <2>1, <3>2
    <3> QED  BY <3>1, <3>2
  <2>3. Exclusive'
    BY <1>6 DEF Exclusive
  <2> QED  BY <2>2, <2>3 DEF Jobs
<1>11. job[t].op # "fill" /\ job[t].op # "drop"
  BY <1>1 DEF Idle
<1> QED  BY <1>1, <1>2, <1>4, <1>6, <1>9, <1>10, <1>11, QuietInv

LEMMA LeaveInv ==
  ASSUME IInv, NEW t \in Thread, Leave(t)
  PROVE  IInv'
<1>1. /\ job[t].op = "leave" /\ job' = [job EXCEPT ![t] = Idle] /\ open' = open
      /\ _OP_UNLOCK(t)
      /\ UNCHANGED <<list, is_used, nused, caches, nalloced, nfreed, out>>
  BY DEF Leave
<1>2. Typed /\ job[t] # Idle /\ Idle.op = "idle"
  BY <1>1 DEF IInv, Idle
<1>3. \A u \in Thread : u # t => job[u] = Idle
  BY <1>2, Alone
<1>4. \A u \in Thread : job'[u] = Idle
  BY <1>1, <1>2, <1>3 DEF Typed
<1>5. Idle \in [op : {"idle", "fill", "take", "drop", "leave"}, c : Cache \cup {NULL}, i : Index]
  BY IndexFacts DEF Idle
<1>6. Typed'
  BY <1>1, <1>2, <1>5 DEF Typed, list, _OP_UNLOCK
<1>7. Jobs'
  BY <1>2, <1>4 DEF Jobs, Exclusive
<1> QED  BY <1>1, <1>2, <1>3, <1>4, <1>6, <1>7, QuietInv

-----------------------------------------------------------------------------
(* A node joins the list, or leaves it.                                    *)

LEMMA JoinList ==
  ASSUME IInv, open, NEW n \in Node \ InList, Push(n), InList' = InList \cup {n}
  PROVE  /\ Linked(InList, node_list, next, pprev)' /\ Ranked(InList, next)'
         /\ node_list' \in Node \cup {NULL}
         /\ next' \in [Node -> Node \cup {NULL}]
         /\ pprev' \in [Node -> Node \cup {NULL, LIST}]
<1>1. /\ InList \in SUBSET Node
      /\ next \in [Node -> Node \cup {NULL}] /\ pprev \in [Node -> Node \cup {NULL, LIST}]
      /\ Linked(InList, node_list, next, pprev) /\ Ranked(InList, next)
      /\ node_list \in Node \cup {NULL}
  BY DEF IInv, Typed, ListInv, InList
<1>2. /\ next' = [next EXCEPT ![n] = node_list]
      /\ pprev' = [m \in Node |-> IF m = n THEN LIST ELSE IF m = node_list THEN n ELSE pprev[m]]
      /\ node_list' = n
  BY DEF Push
<1>3. Linked(InList \cup {n}, n, next', pprev') /\ Ranked(InList \cup {n}, next')
  <2>1. Pushed(n, node_list, next, pprev, next', pprev')
    BY <1>2 DEF Pushed
  <2> QED  BY <1>1, <2>1, PushLinked
<1>4. /\ next' \in [Node -> Node \cup {NULL}]
      /\ pprev' \in [Node -> Node \cup {NULL, LIST}]
  BY <1>1, <1>2
<1>5. Linked(InList', node_list', next', pprev') /\ Ranked(InList', next')
  BY <1>2, <1>3
<1> QED  BY <1>2, <1>4, <1>5 DEF Linked, Ranked, Descends

LEMMA LeaveList ==
  ASSUME IInv, open, NEW n \in InList, InList' = InList \ {n},
         Unlinked(InList, n, node_list, next, pprev, node_list', next', pprev')
  PROVE  Linked(InList, node_list, next, pprev)' /\ Ranked(InList, next)'
<1>1. /\ InList \in SUBSET Node
      /\ Linked(InList, node_list, next, pprev) /\ Ranked(InList, next)
  BY DEF IInv, ListInv, InList
<1>2. Linked(InList \ {n}, node_list', next', pprev') /\ Ranked(InList \ {n}, next')
  BY <1>1, RemoveLinked
<1>3. Linked(InList', node_list', next', pprev') /\ Ranked(InList', next')
  BY <1>2
<1> QED  BY <1>3 DEF Linked, Ranked, Descends

LEMMA FillInv ==
  ASSUME IInv, NEW t \in Thread, _op_alloc_cache(t)
  PROVE  IInv'
<1> DEFINE c == job[t].c
           i == job[t].i
           n == <<c, i>>
<1>1. /\ job[t].op = "fill" /\ Push(n) /\ is_used' = [is_used EXCEPT ![n] = FALSE]
      /\ UNCHANGED <<lock, out, open>>
  BY DEF _op_alloc_cache
<1>2. IF More(i)
      THEN /\ job' = [job EXCEPT ![t] = At("fill", c, i + 1)]
           /\ UNCHANGED <<nused, caches, nalloced, nfreed>>
      ELSE /\ nused' = [nused EXCEPT ![c] = 0]
           /\ caches' = caches \cup {c}
           /\ nalloced' = nalloced + Inc /\ nfreed' = nfreed + Inc
           /\ job' = [job EXCEPT ![t] = At("take", NULL, 0)]
  BY DEF _op_alloc_cache
<1>3. /\ Typed /\ job[t] # Idle /\ Idle.op = "idle" /\ open
      /\ c \in Cache /\ c \notin caches /\ i \in Index /\ nfreed = 0
  BY <1>1 DEF IInv, Jobs, Typed, Idle
<1>4. n \in Node /\ n[1] = c /\ n[2] = i /\ i \in Nat /\ i < Inc /\ c # NULL
  BY <1>3, NodeFacts, IndexFacts, PoolAssumption
<1> HIDE DEF c, i, n
<1>5. \A u \in Thread : u # t => job[u] = Idle
  BY <1>3, Alone
<1>6. /\ job'[t] = IF More(i) THEN At("fill", c, i + 1) ELSE At("take", NULL, 0)
      /\ \A u \in Thread : u # t => job'[u] = Idle
  BY <1>2, <1>3, <1>5 DEF Typed
<1>7. /\ InList = Listed(caches, out, job[t])
      /\ InList' = Listed(caches', out', job'[t])
  BY <1>5, <1>6, InListAs, InListAsNext
<1>8. \A m \in out : m \in Node /\ m[1] \in caches
  BY <1>3 DEF IInv, OutInv, CacheOf, Typed
<1>9. \A m \in Node : m[2] \in Nat /\ m[2] < Inc /\ m = <<m[1], m[2]>>
  BY NodeFacts, IndexFacts
<1>10. n \notin InList
  BY <1>1, <1>3, <1>4, <1>7 DEF Listed, c, i
<1>11. InList' = InList \cup {n}
  <2>1. ASSUME NEW m \in Node PROVE m \in InList' <=> m \in InList \cup {n}
    <3>1. m \in InList <=> \/ m[1] \in caches /\ m \notin out
                           \/ m[1] = c /\ m[2] < i
      BY <1>1, <1>7 DEF Listed, c, i
    <3>2. m = n <=> m[1] = c /\ m[2] = i
      BY <1>4, <1>9 DEF n
    <3>3. CASE More(i)
      <4>1. m \in InList' <=> \/ m[1] \in caches /\ m \notin out
                              \/ m[1] = c /\ m[2] < i + 1
        BY <1>1, <1>2, <1>6, <1>7, <3>3 DEF Listed, At
      <4> QED  BY <1>4, <1>9, <3>1, <3>2, <4>1
    <3>4. CASE ~More(i)
      <4>1. m \in InList' <=> m[1] \in caches \cup {c} /\ m \notin out
        BY <1>1, <1>2, <1>6, <1>7, <3>4 DEF Listed, At
      <4>2. i = Inc - 1
        BY <1>3, <3>4, IndexFacts
      <4>3. m[1] = c => m \notin out /\ (m[2] < i \/ m[2] = i)
        BY <1>3, <1>8, <1>9, <4>2, IndexFacts
      <4> QED  BY <3>1, <3>2, <4>1, <4>3
    <3> QED  BY <3>3, <3>4
  <2>2. InList' \subseteq Node /\ InList \subseteq Node
    BY <1>7 DEF Listed
  <2> QED  BY <1>4, <2>1, <2>2
<1>12. /\ Linked(InList, node_list, next, pprev)' /\ Ranked(InList, next)'
       /\ node_list' \in Node \cup {NULL}
       /\ next' \in [Node -> Node \cup {NULL}]
       /\ pprev' \in [Node -> Node \cup {NULL, LIST}]
  BY <1>1, <1>3, <1>4, <1>10, <1>11, JoinList
<1>13. ListInv'
  BY <1>12 DEF ListInv
<1>14. n \notin out
  BY <1>3, <1>4, <1>8
<1>15. OutInv'
  <2>1. caches \subseteq caches'
    BY <1>2
  <2>2. \A m \in InList \cup out : is_used[m] <=> m \in out
    BY <1>3 DEF IInv, OutInv
  <2>3. \A m \in Node : is_used'[m] = IF m = n THEN FALSE ELSE is_used[m]
    BY <1>1, <1>3 DEF Typed
  <2>4. \A m \in InList' \cup out' : is_used'[m] <=> m \in out'
    <3>1. InList \subseteq Node /\ out \subseteq Node /\ out' = out
      BY <1>1, <1>7, <1>8 DEF Listed
    <3> QED  BY <1>4, <1>11, <1>14, <2>2, <2>3, <3>1
  <2>5. \A m \in out' : CacheOf(m) \in caches'
    BY <1>1, <1>8, <2>1 DEF CacheOf
  <2> QED  BY <2>4, <2>5 DEF OutInv
<1>16. Typed'
  <2>1. job'[t] \in [op : {"idle", "fill", "take", "drop", "leave"}, c : Cache \cup {NULL}, i : Index]
    BY <1>3, <1>6, IndexFacts DEF At
  <2>2. job' \in [Thread -> [op : {"idle", "fill", "take", "drop", "leave"}, c : Cache \cup {NULL}, i : Index]]
    BY <1>2, <1>3, <2>1 DEF Typed
  <2>3. nused' \in [Cache -> Nat] /\ caches' \in SUBSET Cache /\ nalloced' \in Nat /\ nfreed' \in Nat
    BY <1>2, <1>3, IndexFacts DEF Typed
  <2>4. is_used' \in [Node -> BOOLEAN]
    BY <1>1, <1>3 DEF Typed
  <2> QED  BY <1>1, <1>3, <1>12, <2>2, <2>3, <2>4 DEF Typed
<1>17. Jobs'
  <2>1. lock' = lock /\ (NeedLock => lock = t) /\ open'
    BY <1>1, <1>3 DEF IInv, Jobs
  <2>2. ASSUME NEW u \in Thread
        PROVE  /\ job'[u] = Idle \/ (open' /\ job'[u].op # "idle")
               /\ job'[u].op \in {"fill", "drop"} => job'[u].c \in Cache \ caches'
               /\ job'[u].op = "fill" => nfreed' = 0
               /\ job'[u].op = "take" => nfreed' > 0
               /\ NeedLock /\ job'[u] # Idle => lock' = u
    <3>1. CASE u = t /\ More(i)
      BY <1>2, <1>3, <1>6, <2>1, <3>1 DEF At
    <3>2. CASE u = t /\ ~More(i)
      BY <1>2, <1>3, <1>6, <2>1, <3>2, IndexFacts DEF At
    <3>3. CASE u # t
      BY <1>3, <1>6, <3>3
    <3> QED  BY <3>1, <3>2, <3>3
  <2>3. Exclusive'
    BY <1>6 DEF Exclusive
  <2> QED  BY <2>2, <2>3 DEF Jobs
<1>18. Dropping = {} /\ Dropping' = {}
  BY <1>1, <1>3, <1>5, <1>6, DroppingAs, DroppingAsNext DEF At
<1>19. OutOf(c) = {} /\ Cardinality(OutOf(c)) = 0
  <2>1. OutOf(c) = {}
    BY <1>3, <1>8 DEF OutOf, CacheOf
  <2> QED  BY <2>1, FS_EmptySet
<1>20. CountInv'
  <2>1. \A d \in Cache : nused'[d] = Cardinality(OutOf(d)')
    <3>1. \A d \in Cache : OutOf(d)' = OutOf(d) /\ nused[d] = Cardinality(OutOf(d))
      BY <1>1 DEF OutOf, IInv, CountInv
    <3>2. \A d \in Cache : nused'[d] = IF d = c /\ ~More(i) THEN 0 ELSE nused[d]
      BY <1>2, <1>3 DEF Typed
    <3> QED  BY <1>19, <3>1, <3>2
  <2>2. nalloced' - nfreed' = Cardinality(out')
    BY <1>1, <1>2, <1>3, IndexFacts DEF IInv, CountInv, Typed
  <2>3. nalloced' = Inc * Cardinality(caches' \cup Dropping')
    <3>1. nalloced = Inc * Cardinality(caches) /\ caches \cup Dropping = caches
      BY <1>3, <1>18 DEF IInv, CountInv
    <3>2. CASE More(i)
      BY <1>2, <1>18, <3>1, <3>2
    <3>3. CASE ~More(i)
      <4>1. Cardinality(caches \cup {c}) = Cardinality(caches) + 1 /\ Cardinality(caches) \in Nat
        BY <1>3, BlockSize, FS_AddElement DEF Typed
      <4>2. caches' \cup Dropping' = caches \cup {c} /\ nalloced' = nalloced + Inc
        BY <1>2, <1>18, <3>3
      <4>3. Inc * (Cardinality(caches) + 1) = Inc * Cardinality(caches) + Inc
        BY <4>1, IndexFacts
      <4> QED  BY <3>1, <4>1, <4>2, <4>3
    <3> QED  BY <3>2, <3>3
  <2> QED  BY <2>1, <2>2, <2>3 DEF CountInv
<1>21. SpareInv'
  <2>1. CASE More(i)
    <3>1. Spares' = Spares
      BY <1>2, <2>1 DEF Spares
    <3> QED  BY <3>1 DEF IInv, SpareInv
  <2>2. CASE ~More(i)
    <3>1. Inc * Cardinality(Spares) <= Inc * Cardinality(caches) - Cardinality(out)
      BY <1>3, SparesFree DEF IInv
    <3>2. nalloced = Inc * Cardinality(caches) /\ nalloced - nfreed = Cardinality(out)
      <4>1. caches \cup Dropping = caches
        BY <1>18
      <4> QED  BY <1>3, <4>1 DEF IInv, CountInv
    <3>3. Spares \in SUBSET Cache /\ Cardinality(Spares) \in Nat /\ Cardinality(out) \in Nat /\ IsFiniteSet(Spares)
      BY <1>3, BlockSize, Count DEF Spares, Typed
    <3>4. Inc * Cardinality(Spares) <= 0
      BY <1>3, <3>1, <3>2, <3>3, IndexFacts DEF Typed
    <3>5. Cardinality(Spares) = 0
      BY <3>3, <3>4, IndexFacts
    <3>6. Spares = {}
      BY <3>3, <3>5, FS_EmptySet
    <3>7. Spares' = {c}
      <4>1. \A d \in caches : d \in Cache /\ d # c /\ nused[d] # 0
        BY <1>3, <3>6 DEF Spares, Typed
      <4>2. \A d \in Cache : nused'[d] = IF d = c THEN 0 ELSE nused[d]
        BY <1>2, <1>3, <2>2 DEF Typed
      <4>3. caches' = caches \cup {c}
        BY <1>2, <2>2
      <4> QED  BY <1>3, <4>1, <4>2, <4>3 DEF Spares
    <3>8. Cardinality({c}) = 1
      BY FS_Singleton
    <3> QED  BY <3>7, <3>8 DEF SpareInv
  <2> QED  BY <2>1, <2>2
<1> QED  BY <1>13, <1>15, <1>16, <1>17, <1>20, <1>21 DEF IInv

\* One object more or less in use.
LEMMA OutOfAdd ==
  ASSUME NEW o \in SUBSET Node, NEW n \in Node \ o, NEW d \in Cache
  PROVE  Cardinality({m \in o \cup {n} : CacheOf(m) = d})
           = Cardinality({m \in o : CacheOf(m) = d}) + IF CacheOf(n) = d THEN 1 ELSE 0
<1> DEFINE S == {m \in o : CacheOf(m) = d}
<1>1. S \in SUBSET Node /\ n \notin S /\ Cardinality(S) \in Nat
  BY Count
<1>2. CASE CacheOf(n) = d
  <2>1. {m \in o \cup {n} : CacheOf(m) = d} = S \cup {n}
    BY <1>2
  <2>2. Cardinality(S \cup {n}) = Cardinality(S) + 1
    BY <1>1, Count
  <2> QED  BY <1>2, <2>1, <2>2
<1>3. CASE CacheOf(n) # d
  <2>1. {m \in o \cup {n} : CacheOf(m) = d} = S
    BY <1>3
  <2>2. Cardinality(S) = Cardinality(S) + 0
    BY <1>1
  <2> QED  BY <1>3, <2>1, <2>2
<1> QED  BY <1>2, <1>3

LEMMA TakeInv ==
  ASSUME IInv, NEW t \in Thread, Take(t)
  PROVE  IInv'
<1> DEFINE n == node_list
           c == CacheOf(n)
<1>1. /\ job[t].op = "take" /\ n # NULL /\ Behead
      /\ is_used' = [is_used EXCEPT ![n] = TRUE]
      /\ nused' = [nused EXCEPT ![c] = @ + 1]
      /\ nfreed' = nfreed - 1
      /\ out' = out \cup {n}
      /\ job' = [job EXCEPT ![t] = Idle]
      /\ _OP_UNLOCK(t)
      /\ UNCHANGED <<caches, nalloced, open>>
  BY DEF Take
<1>2. Typed /\ job[t] # Idle /\ Idle.op = "idle" /\ open /\ nfreed > 0
  BY <1>1 DEF IInv, Jobs, Idle
<1>3. \A u \in Thread : u # t => job[u] = Idle
  BY <1>2, Alone
<1>4. \A u \in Thread : job'[u] = Idle
  BY <1>1, <1>2, <1>3 DEF Typed
<1>5. /\ InList = Listed(caches, out, job[t])
      /\ InList' = Listed(caches', out', job'[t])
  BY <1>3, <1>4, InListAs, InListAsNext
<1>6. Linked(InList, node_list, next, pprev)
  BY <1>2 DEF IInv, ListInv
<1>7. n \in InList /\ n \in Node /\ pprev[n] = LIST
  <2>1. n \in InList
    BY <1>1, <1>6 DEF Linked
  <2> QED  BY <1>6, <2>1 DEF Linked, InList
<1>8. n \notin out /\ c \in caches /\ c \in Cache /\ n[1] = c
  BY <1>1, <1>2, <1>5, <1>7 DEF Listed, Typed, CacheOf
<1>9. InList' = InList \ {n}
  BY <1>1, <1>4, <1>2, <1>5 DEF Listed
<1>10. /\ node_list' = next[n]
       /\ next' = [next EXCEPT ![n] = NULL]
       /\ pprev' = [m \in Node |-> IF m = n THEN NULL ELSE IF m = next[n] THEN LIST ELSE pprev[m]]
  BY <1>1 DEF Behead
<1> HIDE DEF n, c
<1>11. Unlinked(InList, n, node_list, next, pprev, node_list', next', pprev')
  <2>1. InList \subseteq Node /\ LIST \notin InList
    BY NodeFacts DEF InList
  <2> QED  BY <1>2, <1>7, <1>10, <2>1 DEF Unlinked, Typed
<1>12. ListInv'
  BY <1>2, <1>7, <1>9, <1>11, LeaveList DEF ListInv
<1>13. OutInv'
  <2>1. /\ \A m \in out : CacheOf(m) \in caches
        /\ \A m \in InList \cup out : is_used[m] <=> m \in out
    BY <1>2 DEF IInv, OutInv
  <2>2. \A m \in Node : is_used'[m] = IF m = n THEN TRUE ELSE is_used[m]
    BY <1>1, <1>2 DEF Typed, n
  <2>3. out' = out \cup {n} /\ caches' = caches /\ out \subseteq Node /\ InList \subseteq Node
    BY <1>1, <1>2 DEF Typed, InList, n
  <2>4. \A m \in out' : CacheOf(m) \in caches'
    BY <1>8, <2>1, <2>3 DEF c
  <2>5. \A m \in InList' \cup out' : is_used'[m] <=> m \in out'
    BY <1>7, <1>9, <2>1, <2>2, <2>3
  <2> QED  BY <2>4, <2>5 DEF OutInv
<1>14. Idle \in [op : {"idle", "fill", "take", "drop", "leave"}, c : Cache \cup {NULL}, i : Index]
  BY IndexFacts DEF Idle
<1>15. Typed'
  <2>1. /\ next' \in [Node -> Node \cup {NULL}] /\ pprev' \in [Node -> Node \cup {NULL, LIST}]
        /\ node_list' \in Node \cup {NULL}
    BY <1>2, <1>7, <1>10 DEF Typed
  <2>2. nused' \in [Cache -> Nat] /\ nfreed' \in Nat /\ nalloced' \in Nat
    <3>1. nused[c] \in Nat /\ nused' = [nused EXCEPT ![c] = nused[c] + 1]
      BY <1>1, <1>2, <1>8 DEF Typed, c, n
    <3>2. nused' \in [Cache -> Nat]
      <4>1. nused \in [Cache -> Nat] /\ nused[c] + 1 \in Nat
        BY <1>2, <3>1 DEF Typed
      <4> QED  BY <3>1, <4>1
    <3>3. nfreed' \in Nat
      <4>1. nfreed' = nfreed - 1 /\ nfreed \in Nat /\ nfreed > 0
        BY <1>1, <1>2 DEF Typed
      <4> QED  BY <4>1
    <3>4. nalloced' \in Nat
      BY <1>1, <1>2 DEF Typed
    <3> QED  BY <3>2, <3>3, <3>4
  <2>3. is_used' \in [Node -> BOOLEAN] /\ out' \in SUBSET Node
    BY <1>1, <1>2, <1>7 DEF Typed, n
  <2> QED  BY <1>1, <1>2, <1>14, <2>1, <2>2, <2>3 DEF Typed, _OP_UNLOCK
<1>16. Jobs'
  BY <1>2, <1>4 DEF Jobs, Exclusive
<1>17. Dropping = {} /\ Dropping' = {}
  BY <1>1, <1>2, <1>3, <1>4, DroppingAs, DroppingAsNext
<1>18. CountInv'
  <2>1. ASSUME NEW d \in Cache PROVE nused'[d] = Cardinality(OutOf(d)')
    <3>1. Cardinality(OutOf(d)') = Cardinality(OutOf(d)) + IF c = d THEN 1 ELSE 0
      BY <1>1, <1>2, <1>7, <1>8, OutOfAdd DEF OutOf, c, n, Typed
    <3>2. nused[d] = Cardinality(OutOf(d)) /\ nused[d] \in Nat
      BY <1>2 DEF IInv, CountInv, Typed
    <3>3. nused'[d] = nused[d] + IF c = d THEN 1 ELSE 0
      BY <1>1, <1>2, <3>2 DEF Typed, c, n
    <3> QED  BY <3>1, <3>2, <3>3
  <2>2. Cardinality(out') = Cardinality(out) + 1
    BY <1>1, <1>2, <1>7, <1>8, Count DEF Typed, n
  <2>3. nalloced' - nfreed' = Cardinality(out')
    BY <1>1, <1>2, <2>2 DEF IInv, CountInv, Typed
  <2>4. nalloced' = Inc * Cardinality(caches' \cup Dropping')
    BY <1>1, <1>2, <1>17 DEF IInv, CountInv
  <2> QED  BY <2>1, <2>3, <2>4 DEF CountInv
<1>19. SpareInv'
  <2>1. Spares' \subseteq Spares
    <3>1. \A d \in caches : d \in Cache /\ nused[d] \in Nat
      BY <1>2 DEF Typed
    <3>2. \A d \in caches : nused'[d] = IF d = c THEN nused[d] + 1 ELSE nused[d]
      BY <1>1, <1>2, <3>1 DEF Typed, c, n
    <3> QED  BY <1>1, <3>1, <3>2 DEF Spares
  <2>2. Spares \in SUBSET Cache /\ IsFiniteSet(Spares) /\ Cardinality(Spares) \in Nat
    BY <1>2, BlockSize DEF Spares, Typed
  <2>3. Cardinality(Spares') <= Cardinality(Spares) /\ Cardinality(Spares') \in Nat
    BY <2>1, <2>2, FS_Subset, FS_CardinalityType
  <2> QED  BY <2>2, <2>3 DEF IInv, SpareInv
<1> QED  BY <1>12, <1>13, <1>15, <1>16, <1>18, <1>19 DEF IInv

LEMMA PutInv ==
  ASSUME IInv, NEW t \in Thread, NEW n \in Node, objpool_put(t, n)
  PROVE  IInv'
<1> DEFINE c == CacheOf(n)
<1>1. /\ open /\ job[t] = Idle /\ n \in out /\ _OP_LOCK_RET(t) /\ Push(n)
      /\ is_used' = [is_used EXCEPT ![n] = FALSE]
      /\ nfreed' = nfreed + 1
      /\ nused' = [nused EXCEPT ![c] = @ - 1]
      /\ out' = out \ {n}
      /\ UNCHANGED <<nalloced, open>>
  BY DEF objpool_put
<1>2. IF Spare(c)
      THEN caches' = caches \ {c} /\ job' = [job EXCEPT ![t] = At("drop", c, 0)]
      ELSE caches' = caches /\ job' = [job EXCEPT ![t] = At("leave", NULL, 0)]
  BY DEF objpool_put
<1>3. Typed /\ Idle.op = "idle"
  BY DEF IInv, Idle
<1>4. \A u \in Thread : u # t => job[u] = Idle
  BY <1>1, Alone
<1>5. c \in caches /\ c \in Cache /\ n[1] = c
  BY <1>1, <1>3 DEF IInv, OutInv, Typed, CacheOf
<1> HIDE DEF c
<1>6. /\ job'[t] = IF Spare(c) THEN At("drop", c, 0) ELSE At("leave", NULL, 0)
      /\ \A u \in Thread : u # t => job'[u] = Idle
  BY <1>2, <1>3, <1>4 DEF Typed
<1>7. /\ InList = Listed(caches, out, job[t])
      /\ InList' = Listed(caches', out', job'[t])
  BY <1>4, <1>6, InListAs, InListAsNext
<1>8. Dropping = {} /\ Dropping' = IF Spare(c) THEN {c} ELSE {}
  <2>1. Dropping = {}
    BY <1>1, <1>3, <1>4, DroppingAs
  <2>2. job'[t].op = (IF Spare(c) THEN "drop" ELSE "leave") /\ (Spare(c) => job'[t].c = c)
    BY <1>6 DEF At
  <2> QED  BY <1>5, <1>6, <2>1, <2>2, DroppingAsNext
<1>9. ASSUME NEW d \in Cache
      PROVE  /\ nused'[d] = Cardinality(OutOf(d)')
             /\ nused'[d] = (IF d = c THEN nused[d] - 1 ELSE nused[d])
             /\ nused'[d] \in Nat
  <2>1. (out \ {n}) \cup {n} = out /\ out \ {n} \in SUBSET Node /\ n \in Node \ (out \ {n})
    BY <1>1, <1>3 DEF Typed
  <2>2. Cardinality({m \in (out \ {n}) \cup {n} : CacheOf(m) = d})
          = Cardinality({m \in out \ {n} : CacheOf(m) = d}) + IF CacheOf(n) = d THEN 1 ELSE 0
    BY <2>1, OutOfAdd
  <2>3. Cardinality(OutOf(d)) = Cardinality(OutOf(d)') + IF c = d THEN 1 ELSE 0
    BY <1>1, <2>1, <2>2 DEF OutOf, c
  <2>4. nused[d] = Cardinality(OutOf(d)) /\ nused[d] \in Nat
    BY <1>3 DEF IInv, CountInv, Typed
  <2>5. nused'[d] = IF d = c THEN nused[d] - 1 ELSE nused[d]
    BY <1>1, <1>3 DEF Typed, c
  <2>6. Cardinality(OutOf(d)') \in Nat
    BY <1>1, <2>1, Count DEF OutOf
  <2> QED  BY <2>3, <2>4, <2>5, <2>6
<1>10. Spare(c) => \A m \in out' : CacheOf(m) # c
  <2>1. SUFFICES ASSUME Spare(c) PROVE \A m \in out' : CacheOf(m) # c
    OBVIOUS
  <2>2. Cardinality({m \in out' : CacheOf(m) = c}) = 0
    BY <1>5, <1>9, <2>1 DEF Spare, OutOf
  <2>3. out' \in SUBSET Node
    BY <1>1, <1>3 DEF Typed
  <2> QED  BY <1>5, <2>2, <2>3, OutOfCount
<1>11. n \notin InList /\ InList' = InList \cup {n}
  <2>1. \A m \in Node : m \in InList <=> m[1] \in caches /\ m \notin out
    BY <1>1, <1>3, <1>7 DEF Listed
  <2>2. ASSUME NEW m \in Node PROVE m \in InList' <=> m[1] \in caches /\ m \notin out'
    <3>1. CASE Spare(c)
      <4>1. m[2] \in Nat
        BY NodeFacts, IndexFacts
      <4>2. m \in InList' <=> \/ m[1] \in caches \ {c} /\ m \notin out'
                              \/ m[1] = c /\ m[2] >= 0
        BY <1>2, <1>6, <1>7, <3>1 DEF Listed, At
      <4> QED  BY <1>5, <1>10, <3>1, <4>1, <4>2 DEF CacheOf
    <3>2. CASE ~Spare(c)
      BY <1>2, <1>6, <1>7, <3>2 DEF Listed, At
    <3> QED  BY <3>1, <3>2
  <2>3. InList \subseteq Node /\ InList' \subseteq Node
    BY <1>7 DEF Listed
  <2> QED  BY <1>1, <1>5, <2>1, <2>2, <2>3
<1>12. /\ Linked(InList, node_list, next, pprev)' /\ Ranked(InList, next)'
       /\ node_list' \in Node \cup {NULL}
       /\ next' \in [Node -> Node \cup {NULL}]
       /\ pprev' \in [Node -> Node \cup {NULL, LIST}]
  BY <1>1, <1>11, JoinList
<1>13. ListInv'
  BY <1>12 DEF ListInv
<1>14. OutInv'
  <2>1. /\ \A m \in out : CacheOf(m) \in caches
        /\ \A m \in InList \cup out : is_used[m] <=> m \in out
    BY <1>1 DEF IInv, OutInv
  <2>2. \A m \in Node : is_used'[m] = IF m = n THEN FALSE ELSE is_used[m]
    BY <1>1, <1>3 DEF Typed
  <2>3. \A m \in out' : CacheOf(m) \in caches'
    BY <1>1, <1>2, <1>10, <2>1
  <2>4. InList \subseteq Node /\ out \subseteq Node
    BY <1>3 DEF Typed, InList
  <2>5. \A m \in InList' \cup out' : is_used'[m] <=> m \in out'
    BY <1>1, <1>11, <2>1, <2>2, <2>4
  <2> QED  BY <2>3, <2>5 DEF OutInv
<1>15. Typed'
  <2>1. job'[t] \in [op : {"idle", "fill", "take", "drop", "leave"}, c : Cache \cup {NULL}, i : Index]
    BY <1>5, <1>6, IndexFacts DEF At
  <2>2. job' \in [Thread -> [op : {"idle", "fill", "take", "drop", "leave"}, c : Cache \cup {NULL}, i : Index]]
    BY <1>2, <1>3, <2>1 DEF Typed
  <2>3. nused' \in [Cache -> Nat]
    <3>1. DOMAIN nused' = Cache /\ nused' = [d \in Cache |-> nused'[d]]
      BY <1>1, <1>3 DEF Typed
    <3> QED  BY <1>9, <3>1
  <2>4. caches' \in SUBSET Cache /\ nalloced' \in Nat /\ nfreed' \in Nat
    BY <1>1, <1>2, <1>3 DEF Typed
  <2>5. is_used' \in [Node -> BOOLEAN] /\ out' \in SUBSET Node
    BY <1>1, <1>3 DEF Typed
  <2>6. lock' \in Thread \cup {NULL}
    BY <1>1, <1>3 DEF Typed, _OP_LOCK_RET
  <2> QED  BY <1>1, <1>3, <1>12, <2>2, <2>3, <2>4, <2>5, <2>6 DEF Typed
<1>16. Jobs'
  <2>1. open' /\ (NeedLock => lock' = t)
    BY <1>1 DEF _OP_LOCK_RET
  <2>2. /\ job'[t].op \in {"drop", "leave"} /\ job'[t] # Idle
        /\ job'[t].op = "drop" => Spare(c) /\ job'[t].c = c
    BY <1>6 DEF At, Idle
  <2>3. ASSUME NEW u \in Thread
        PROVE  /\ job'[u] = Idle \/ (open' /\ job'[u].op # "idle")
               /\ job'[u].op \in {"fill", "drop"} => job'[u].c \in Cache \ caches'
               /\ job'[u].op = "fill" => nfreed' = 0
               /\ job'[u].op = "take" => nfreed' > 0
               /\ NeedLock /\ job'[u] # Idle => lock' = u
    <3>1. CASE u = t
      BY <1>2, <1>5, <2>1, <2>2, <3>1
    <3>2. CASE u # t
      BY <1>3, <1>6, <3>2
    <3> QED  BY <3>1, <3>2
  <2>4. Exclusive'
    BY <1>6 DEF Exclusive
  <2> QED  BY <2>3, <2>4 DEF Jobs
<1>17. CountInv'
  <2>1. Cardinality(out') = Cardinality(out) - 1 /\ Cardinality(out) \in Nat
    BY <1>1, <1>3, Count DEF Typed
  <2>2. nalloced' - nfreed' = Cardinality(out')
    BY <1>1, <1>3, <2>1 DEF IInv, CountInv, Typed
  <2>3. caches' \cup Dropping' = caches \cup Dropping
    BY <1>2, <1>5, <1>8
  <2>4. nalloced' = Inc * Cardinality(caches' \cup Dropping')
    BY <1>1, <2>3 DEF IInv, CountInv
  <2> QED  BY <1>9, <2>2, <2>4 DEF CountInv
<1>18. SpareInv'
  <2>1. Spares \in SUBSET Cache /\ IsFiniteSet(Spares) /\ Cardinality(Spares) \in Nat
    BY <1>3, BlockSize DEF Spares, Typed
  <2>2. CASE Spare(c) \/ nused'[c] # 0
    <3>1. Spares' \subseteq Spares
      <4>1. \A d \in caches : d \in Cache
        BY <1>3 DEF Typed
      <4>2. \A d \in caches' : d \in caches /\ (nused'[d] = 0 => d # c)
        BY <1>2, <2>2
      <4>3. \A d \in caches' : nused'[d] = 0 => nused[d] = 0
        BY <1>9, <4>1, <4>2
      <4> QED  BY <4>2, <4>3 DEF Spares
    <3>2. Cardinality(Spares') <= Cardinality(Spares) /\ Cardinality(Spares') \in Nat
      BY <2>1, <3>1, FS_Subset, FS_CardinalityType
    <3> QED  BY <2>1, <3>2 DEF IInv, SpareInv
  <2>3. CASE ~Spare(c) /\ nused'[c] = 0
    <3>1. nfreed' <= 2 * Inc
      BY <1>15, <2>3, IndexFacts DEF Spare, Typed
    <3>2. Inc * Cardinality(Spares') <= Inc * Cardinality(caches') - Cardinality(out')
      <4>1. Typed' /\ OutInv' /\ CountInv' /\ open'
        BY <1>1, <1>14, <1>15, <1>17
      <4> QED  BY <4>1, SparesFreeNext
    <3>3. nalloced' = Inc * Cardinality(caches') /\ nalloced' - nfreed' = Cardinality(out')
      <4>1. caches' \cup Dropping' = caches'
        BY <1>8, <2>3
      <4> QED  BY <1>1, <1>17, <4>1 DEF CountInv
    <3>4. Spares' \in SUBSET Cache /\ Cardinality(Spares') \in Nat /\ Cardinality(out') \in Nat
      BY <1>15, BlockSize, Count DEF Spares, Typed
    <3>5. Inc * Cardinality(Spares') <= 2 * Inc
      BY <1>15, <3>1, <3>2, <3>3, <3>4, IndexFacts DEF Typed
    <3>6. Cardinality(Spares') <= 2
      BY <3>4, <3>5, IndexFacts
    <3> QED  BY <3>6 DEF SpareInv
  <2> QED  BY <2>2, <2>3
<1> QED  BY <1>13, <1>14, <1>15, <1>16, <1>17, <1>18 DEF IInv

LEMMA DropInv ==
  ASSUME IInv, NEW t \in Thread, _op_free_cache(t)
  PROVE  IInv'
<1> DEFINE c == job[t].c
           i == job[t].i
           n == <<c, i>>
<1>1. /\ job[t].op = "drop" /\ Unlink(n)
      /\ UNCHANGED <<is_used, nused, caches, lock, out, open>>
  BY DEF _op_free_cache
<1>2. IF More(i)
      THEN /\ job' = [job EXCEPT ![t] = At("drop", c, i + 1)]
           /\ UNCHANGED <<nalloced, nfreed>>
      ELSE /\ nalloced' = nalloced - Inc /\ nfreed' = nfreed - Inc
           /\ job' = [job EXCEPT ![t] = At("leave", NULL, 0)]
  BY DEF _op_free_cache, Discount
<1>3. /\ Typed /\ job[t] # Idle /\ Idle.op = "idle" /\ open
      /\ c \in Cache /\ c \notin caches /\ i \in Index
  BY <1>1 DEF IInv, Jobs, Typed, Idle
<1>4. n \in Node /\ n[1] = c /\ n[2] = i /\ i \in Nat /\ i < Inc
  BY <1>3, NodeFacts, IndexFacts
<1> HIDE DEF c, i, n
<1>5. \A u \in Thread : u # t => job[u] = Idle
  BY <1>3, Alone
<1>6. /\ job'[t] = IF More(i) THEN At("drop", c, i + 1) ELSE At("leave", NULL, 0)
      /\ \A u \in Thread : u # t => job'[u] = Idle
  BY <1>2, <1>3, <1>5 DEF Typed
<1>7. /\ InList = Listed(caches, out, job[t])
      /\ InList' = Listed(caches', out', job'[t])
  BY <1>5, <1>6, InListAs, InListAsNext
<1>8. \A m \in Node : m[2] \in Nat /\ m[2] < Inc /\ m = <<m[1], m[2]>>
  BY NodeFacts, IndexFacts
<1>9. ASSUME NEW m \in Node
      PROVE  m \in InList <=> (m[1] \in caches /\ m \notin out) \/ (m[1] = c /\ m[2] >= i)
  BY <1>1, <1>7 DEF Listed, c, i
<1>10. n \in InList
  BY <1>4, <1>9
<1>11. InList' = InList \ {n}
  <2>1. ASSUME NEW m \in Node PROVE m \in InList' <=> m \in InList \ {n}
    <3>1. m = n <=> m[1] = c /\ m[2] = i
      BY <1>4, <1>8 DEF n
    <3>2. CASE More(i)
      <4>1. m \in InList' <=> (m[1] \in caches /\ m \notin out) \/ (m[1] = c /\ m[2] >= i + 1)
        BY <1>1, <1>2, <1>6, <1>7, <3>2 DEF Listed, At
      <4> QED  BY <1>3, <1>4, <1>8, <1>9, <3>1, <4>1
    <3>3. CASE ~More(i)
      <4>1. m \in InList' <=> m[1] \in caches /\ m \notin out
        BY <1>1, <1>2, <1>6, <1>7, <3>3 DEF Listed, At
      <4>2. i = Inc - 1
        BY <1>3, <3>3, IndexFacts
      <4>3. m[2] >= i => m[2] = i
        BY <1>8, <4>2, IndexFacts
      <4> QED  BY <1>3, <1>4, <1>9, <3>1, <4>1, <4>3
    <3> QED  BY <3>2, <3>3
  <2>2. InList' \subseteq Node /\ InList \subseteq Node
    BY <1>7 DEF Listed
  <2> QED  BY <2>1, <2>2
<1>12. /\ pprev' = [m \in Node |-> IF m = next[n] THEN pprev[n] ELSE pprev[m]]
       /\ next' = [m \in Node |-> IF m = pprev[n] THEN next[n] ELSE next[m]]
       /\ node_list' = IF pprev[n] = LIST THEN next[n] ELSE node_list
  BY <1>1 DEF Unlink
<1>13. Unlinked(InList, n, node_list, next, pprev, node_list', next', pprev')
  <2>1. InList \subseteq Node
    BY <1>7 DEF Listed
  <2> QED  BY <1>12, <2>1 DEF Unlinked
<1>14. ListInv'
  BY <1>3, <1>10, <1>11, <1>13, LeaveList DEF ListInv
<1>15. OutInv'
  BY <1>1, <1>3, <1>11 DEF IInv, OutInv
<1>16. Dropping = {c} /\ Dropping' = IF More(i) THEN {c} ELSE {}
  <2>1. Dropping = {c}
    BY <1>1, <1>3, <1>5, DroppingAs DEF c
  <2>2. job'[t].op = (IF More(i) THEN "drop" ELSE "leave") /\ (More(i) => job'[t].c = c)
    BY <1>6 DEF At
  <2> QED  BY <1>3, <1>6, <2>1, <2>2, DroppingAsNext
<1>17. /\ nalloced = Inc * Cardinality(caches) + Inc
       /\ nalloced - nfreed = Cardinality(out)
       /\ Cardinality(out) <= Inc * Cardinality(caches)
       /\ Cardinality(caches) \in Nat /\ Cardinality(out) \in Nat
  <2>1. Cardinality(caches \cup {c}) = Cardinality(caches) + 1 /\ Cardinality(caches) \in Nat
    BY <1>3, BlockSize, FS_AddElement DEF Typed
  <2>2. nalloced = Inc * Cardinality(caches \cup {c}) /\ nalloced - nfreed = Cardinality(out)
    BY <1>3, <1>16 DEF IInv, CountInv
  <2>3. Inc * (Cardinality(caches) + 1) = Inc * Cardinality(caches) + Inc
    BY <2>1, IndexFacts
  <2>4. Cardinality(out) <= Inc * Cardinality(caches) /\ Cardinality(out) \in Nat
    BY <1>3, Fits, Count DEF IInv, Typed
  <2> QED  BY <2>1, <2>2, <2>3, <2>4
<1>18. nalloced' \in Nat /\ nfreed' \in Nat
  <2>1. nalloced \in Nat /\ nfreed \in Nat /\ Inc \in Nat
    BY <1>3, IndexFacts DEF Typed
  <2>2. Inc * Cardinality(caches) \in Nat
    BY <1>17, IndexFacts
  <2>3. nalloced - Inc \in Nat /\ nfreed - Inc \in Nat
    BY <1>17, <2>1, <2>2
  <2> QED  BY <1>2, <2>1, <2>3
<1>19. Typed'
  <2>1. job'[t] \in [op : {"idle", "fill", "take", "drop", "leave"}, c : Cache \cup {NULL}, i : Index]
    BY <1>3, <1>6, IndexFacts DEF At
  <2>2. job' \in [Thread -> [op : {"idle", "fill", "take", "drop", "leave"}, c : Cache \cup {NULL}, i : Index]]
    BY <1>2, <1>3, <2>1 DEF Typed
  <2>3. /\ next' \in [Node -> Node \cup {NULL}] /\ pprev' \in [Node -> Node \cup {NULL, LIST}]
        /\ node_list' \in Node \cup {NULL}
    BY <1>3, <1>4, <1>12 DEF Typed
  <2> QED  BY <1>1, <1>3, <1>18, <2>2, <2>3 DEF Typed
<1>20. Jobs'
  <2>1. lock' = lock /\ (NeedLock => lock = t) /\ open' /\ caches' = caches
    BY <1>1, <1>3 DEF IInv, Jobs
  <2>2. /\ job'[t].op \in {"drop", "leave"} /\ job'[t] # Idle
        /\ job'[t].op = "drop" => job'[t].c = c
    BY <1>6 DEF At, Idle
  <2>3. ASSUME NEW u \in Thread
        PROVE  /\ job'[u] = Idle \/ (open' /\ job'[u].op # "idle")
               /\ job'[u].op \in {"fill", "drop"} => job'[u].c \in Cache \ caches'
               /\ job'[u].op = "fill" => nfreed' = 0
               /\ job'[u].op = "take" => nfreed' > 0
               /\ NeedLock /\ job'[u] # Idle => lock' = u
    <3>1. CASE u = t
      BY <1>3, <2>1, <2>2, <3>1
    <3>2. CASE u # t
      BY <1>3, <1>6, <3>2
    <3> QED  BY <3>1, <3>2
  <2>4. Exclusive'
    BY <1>6 DEF Exclusive
  <2> QED  BY <2>3, <2>4 DEF Jobs
<1>21. CountInv'
  <2>1. \A d \in Cache : nused'[d] = Cardinality(OutOf(d)')
    BY <1>1 DEF IInv, CountInv, OutOf
  <2>2. nalloced' - nfreed' = Cardinality(out')
    BY <1>1, <1>2, <1>3, <1>17, IndexFacts DEF Typed
  <2>3. CASE More(i)
    <3>1. nalloced' = Inc * Cardinality(caches' \cup Dropping')
      BY <1>1, <1>2, <1>3, <1>16, <2>3 DEF IInv, CountInv
    <3> QED  BY <2>1, <2>2, <3>1 DEF CountInv
  <2>4. CASE ~More(i)
    <3>1. caches' \cup Dropping' = caches /\ nalloced' = nalloced - Inc
      BY <1>1, <1>2, <1>16, <2>4
    <3>2. Inc * Cardinality(caches) \in Nat
      BY <1>17, IndexFacts
    <3>3. nalloced' = Inc * Cardinality(caches)
      BY <1>17, <3>1, <3>2, IndexFacts
    <3> QED  BY <2>1, <2>2, <3>1, <3>3 DEF CountInv
  <2> QED  BY <2>3, <2>4
<1>22. SpareInv'
  <2>1. Spares' = Spares
    BY <1>1 DEF Spares
  <2> QED  BY <2>1 DEF IInv, SpareInv
<1> QED  BY <1>14, <1>15, <1>19, <1>20, <1>21, <1>22 DEF IInv

LEMMA FreeInv ==
  ASSUME IInv, objpool_free
  PROVE  IInv'
<1>1. /\ open' = FALSE /\ caches' = {} /\ \A t \in Thread : job[t] = Idle
      /\ UNCHANGED <<node_list, next, pprev, is_used, nused, nalloced, nfreed, lock, job, out>>
  BY DEF objpool_free, list
<1>2. Typed' /\ ListInv' /\ OutInv'
  BY <1>1 DEF IInv, Typed, ListInv, OutInv
<1>3. Jobs'
  BY <1>1 DEF Jobs, Exclusive, Idle
<1>4. CountInv'
  BY <1>1 DEF IInv, CountInv, OutOf
<1>5. SpareInv'
  <2>1. Spares' = {}
    BY <1>1 DEF Spares
  <2> QED  BY <2>1, FS_EmptySet DEF SpareInv
<1> QED  BY <1>2, <1>3, <1>4, <1>5 DEF IInv

LEMMA StutterInv ==
  ASSUME IInv, UNCHANGED vars
  PROVE  IInv'
<1>1. UNCHANGED <<node_list, next, pprev, is_used, nused, caches, nalloced, nfreed, lock, job, out, open>>
  BY DEF vars
<1>2. InList' = InList /\ Dropping' = Dropping /\ Spares' = Spares
  BY <1>1 DEF InList, Dropping, Spares
<1>3. Typed' /\ Jobs'
  BY <1>1 DEF IInv, Typed, Jobs, Exclusive
<1>4. ListInv' /\ OutInv'
  BY <1>1, <1>2 DEF IInv, ListInv, OutInv
<1>5. CountInv' /\ SpareInv'
  BY <1>1, <1>2 DEF IInv, CountInv, SpareInv, OutOf
<1> QED  BY <1>3, <1>4, <1>5 DEF IInv

LEMMA NextInv == IInv /\ [Next]_vars => IInv'
<1> SUFFICES ASSUME IInv, [Next]_vars PROVE IInv'
  OBVIOUS
<1>1. CASE UNCHANGED vars
  BY <1>1, StutterInv
<1>2. CASE Next
  <2>1. ASSUME NEW t \in Thread, objpool_get(t) PROVE IInv'
    BY <2>1, GetInv
  <2>2. ASSUME NEW t \in Thread, NEW n \in Node, objpool_put(t, n) PROVE IInv'
    BY <2>2, PutInv
  <2>3. ASSUME NEW t \in Thread, Step(t) PROVE IInv'
    BY <2>3, FillInv, TakeInv, DropInv, LeaveInv DEF Step
  <2>4. ASSUME objpool_free PROVE IInv'
    BY <2>4, FreeInv
  <2> QED  BY <1>2, <2>1, <2>2, <2>3, <2>4 DEF Next
<1> QED  BY <1>1, <1>2

\* The pool keeps its invariant whatever its threads do.
THEOREM PoolInv == Spec => []IInv
  BY InitInv, NextInv, PTL DEF Spec

-----------------------------------------------------------------------------
(* What the invariant says of the pool.                                    *)

\* With no cache on its way in or out, the counter counts the list.
LEMMA FreeCount ==
  ASSUME IInv, open, \A t \in Thread : job[t].op \notin {"fill", "drop"}
  PROVE  /\ nfreed = Cardinality(InList) /\ nalloced = Inc * Cardinality(caches)
         /\ InList \in SUBSET Node
<1>1. Typed /\ OutInv /\ CountInv
  BY DEF IInv
<1>2. Dropping = {}
  BY DEF Dropping
<1>3. caches \cup Dropping = caches
  BY <1>2
<1>4. nalloced = Inc * Cardinality(caches) /\ nalloced - nfreed = Cardinality(out)
  BY <1>1, <1>3 DEF CountInv
<1>5. ASSUME NEW n PROVE n \in InList <=> n \in (caches \X Index) \ out
  <2>1. n \in InList <=> n \in Node /\ n[1] \in caches /\ n \notin out
    BY DEF InList, CacheOf
  <2>2. n \in caches \X Index <=> n \in Node /\ n[1] \in caches
    <3>1. caches \subseteq Cache
      BY <1>1 DEF Typed
    <3>2. n \in caches \X Index => n \in Node /\ n[1] \in caches
      BY <3>1 DEF Node
    <3>3. n \in Node /\ n[1] \in caches => n \in caches \X Index
      BY NodeFacts
    <3> QED  BY <3>2, <3>3
  <2> QED  BY <2>1, <2>2
<1>6. InList = (caches \X Index) \ out
  BY <1>5
<1>7. Cardinality(InList) = Inc * Cardinality(caches) - Cardinality(out)
  BY <1>1, <1>6, Fits
<1>8. nfreed \in Nat /\ nalloced \in Nat /\ Cardinality(out) \in Nat /\ Cardinality(InList) \in Nat
  BY <1>1, Count DEF Typed, InList
<1>9. nfreed = Cardinality(InList)
  BY <1>4, <1>7, <1>8
<1> QED  BY <1>4, <1>9 DEF InList

LEMMA TypeHolds == IInv => TypeOK
<1> SUFFICES ASSUME IInv PROVE TypeOK
  OBVIOUS
<1>1. Typed
  BY DEF IInv
<1>2. ASSUME NEW c \in Cache PROVE nused[c] \in 0 .. Inc
  <2>1. nused[c] = Cardinality({n \in out : CacheOf(n) = c})
    BY DEF IInv, CountInv, OutOf
  <2> QED  BY <1>1, <2>1, OutOfCount DEF Typed
<1>3. nused \in [Cache -> 0 .. Inc]
  BY <1>1, <1>2 DEF Typed
<1> QED  BY <1>1, <1>3 DEF Typed, TypeOK

\* The state of the pool keeps its types; in particular the counters of objpool.c,
\* which are decremented without a look, never go below zero.
THEOREM PoolTypeCorrect == Spec => []TypeOK
  BY PoolInv, TypeHolds, PTL

\* At most one thread works on the pool, so that the steps of _op_alloc_cache and
\* _op_free_cache are not disturbed.
THEOREM ExclusiveCorrect == Spec => []Exclusive
<1>1. IInv => Exclusive
  BY DEF IInv, Jobs
<1> QED  BY <1>1, PoolInv, PTL

\* The free list stays well linked while caches and nodes come and go.
THEOREM WellLinkedCorrect == Spec => []WellLinked
<1>1. IInv => WellLinked
  BY DEF IInv, ListInv, Linked, WellLinked
<1> QED  BY <1>1, PoolInv, PTL

\* nused, nfreed and nalloced count the objects in use, the list and the caches.
THEOREM CountedCorrect == Spec => []Counted
<1>1. IInv => Counted
  <2> SUFFICES ASSUME IInv, open PROVE Counted
    BY DEF Counted
  <2>1. \A c \in caches : nused[c] = Cardinality({n \in out : CacheOf(n) = c})
    BY DEF IInv, Typed, CountInv, OutOf
  <2>2. ASSUME \A t \in Thread : job[t] = Idle
        PROVE  nfreed = Cardinality(InList) /\ nalloced = Inc * Cardinality(caches)
    <3>1. \A t \in Thread : job[t].op \notin {"fill", "drop"}
      BY <2>2 DEF Idle
    <3> QED  BY <3>1, FreeCount
  <2> QED  BY <2>1, <2>2 DEF Counted
<1> QED  BY <1>1, PoolInv, PTL

LEMMA HeadHolds == IInv => HeadThere
<1> SUFFICES ASSUME IInv, NEW t \in Thread, job[t].op = "take" PROVE node_list # NULL
  BY DEF HeadThere
<1>1. job[t] # Idle /\ open /\ nfreed > 0
  BY DEF IInv, Jobs, Idle
<1>2. \A u \in Thread : u # t => job[u] = Idle
  BY <1>1, Alone
<1>3. \A u \in Thread : job[u].op \notin {"fill", "drop"}
  BY <1>2 DEF Idle
<1>4. nfreed = Cardinality(InList) /\ InList \in SUBSET Node
  BY <1>1, <1>3, FreeCount
<1>5. InList # {}
  BY <1>1, <1>4, Count
<1>6. Linked(InList, node_list, next, pprev) /\ Ranked(InList, next)
  BY <1>1 DEF IInv, ListInv
<1> QED  BY <1>4, <1>5, <1>6, HasHead

\* objpool_get finds a node at the head of the list whenever nfreed told it so, or
\* a new cache was filled: it never reads through a null pointer.
THEOREM HeadThereCorrect == Spec => []HeadThere
  BY HeadHolds, PoolInv, PTL

\* While the pool is open, an object in use lies in memory the pool has not given
\* back, and is_used tells the objects in use from the free nodes.
THEOREM HeldAliveCorrect == Spec => []HeldAlive
<1>1. IInv => HeldAlive
  BY DEF IInv, OutInv, HeldAlive
<1> QED  BY <1>1, PoolInv, PTL

\* No more than two caches lie idle between calls.
THEOREM FewIdleCorrect == Spec => []FewIdle
<1>1. IInv => FewIdle
  BY DEF IInv, SpareInv, Spares, FewIdle
<1> QED  BY <1>1, PoolInv, PTL

-----------------------------------------------------------------------------
(* The pool implements its interface.                                      *)

LEMMA RefinesInit == Init => Abstract!Init
<1> SUFFICES ASSUME Init PROVE Abstract!Init
  OBVIOUS
<1>1. out = {} /\ open = TRUE /\ nalloced = Inc /\ nfreed = Inc
  BY DEF Init
<1>2. nalloced - nfreed = 0
  BY <1>1, IndexFacts
<1> QED  BY <1>1, <1>2 DEF Abstract!Init

LEMMA RefinesStep ==
  ASSUME IInv, [Next]_vars
  PROVE  [Abstract!Next]_(Abstract!vars)
<1>1. nalloced \in Nat /\ nfreed \in Nat /\ Inc \in Nat
  BY IndexFacts DEF IInv, Typed
<1>2. ASSUME UNCHANGED <<out, open>>, nalloced' - nfreed' = nalloced - nfreed
      PROVE  UNCHANGED Abstract!vars
  BY <1>2 DEF Abstract!vars
<1>3. CASE UNCHANGED vars
  BY <1>2, <1>3 DEF vars
<1>4. ASSUME NEW t \in Thread, objpool_get(t) PROVE UNCHANGED Abstract!vars
  BY <1>2, <1>4 DEF objpool_get, objpool_get_Finds, objpool_get_Grows, objpool_get_Fails
<1>5. ASSUME NEW t \in Thread, NEW n \in Node, objpool_put(t, n) PROVE Abstract!Put
  <2>1. open /\ open' = open /\ n \in out /\ out' = out \ {n} /\ nfreed' = nfreed + 1 /\ nalloced' = nalloced
    BY <1>5 DEF objpool_put
  <2>2. nalloced' - nfreed' = (nalloced - nfreed) - 1
    BY <1>1, <2>1
  <2> QED  BY <2>1, <2>2 DEF Abstract!Put
<1>6. ASSUME NEW t \in Thread, _op_alloc_cache(t) PROVE UNCHANGED Abstract!vars
  <2>1. /\ UNCHANGED <<out, open>>
        /\ \/ UNCHANGED <<nalloced, nfreed>>
           \/ nalloced' = nalloced + Inc /\ nfreed' = nfreed + Inc
    BY <1>6 DEF _op_alloc_cache
  <2>2. nalloced' - nfreed' = nalloced - nfreed
    BY <1>1, <2>1
  <2> QED  BY <1>2, <2>1, <2>2
<1>7. ASSUME NEW t \in Thread, Take(t) PROVE Abstract!Get
  <2>1. /\ open' = open /\ out' = out \cup {node_list} /\ nfreed' = nfreed - 1
        /\ nalloced' = nalloced /\ job[t].op = "take" /\ node_list # NULL
    BY <1>7 DEF Take
  <2>2. open /\ job[t] # Idle
    BY <2>1 DEF IInv, Jobs, Idle
  <2>3. InList = Listed(caches, out, job[t])
    BY <2>2, Alone, InListAs
  <2>4. node_list \in InList
    BY <2>1, <2>2 DEF IInv, ListInv, Linked
  <2>5. node_list \in Node \ out
    BY <2>1, <2>3, <2>4 DEF Listed
  <2>6. nalloced' - nfreed' = (nalloced - nfreed) + 1
    BY <1>1, <2>1
  <2> QED  BY <2>1, <2>2, <2>5, <2>6 DEF Abstract!Get
<1>8. ASSUME NEW t \in Thread, _op_free_cache(t) PROVE UNCHANGED Abstract!vars
  <2>1. /\ UNCHANGED <<out, open>>
        /\ \/ UNCHANGED <<nalloced, nfreed>>
           \/ nalloced' = nalloced - Inc /\ nfreed' = nfreed - Inc
    BY <1>8 DEF _op_free_cache, Discount
  <2>2. nalloced' - nfreed' = nalloced - nfreed
    BY <1>1, <2>1
  <2> QED  BY <1>2, <2>1, <2>2
<1>9. ASSUME NEW t \in Thread, Leave(t) PROVE UNCHANGED Abstract!vars
  BY <1>2, <1>9 DEF Leave
<1>10. ASSUME objpool_free PROVE Abstract!Free
  BY <1>10 DEF objpool_free, Abstract!Free
<1>11. CASE Next
  <2>1. ASSUME NEW t \in Thread, Step(t) PROVE [Abstract!Next]_(Abstract!vars)
    BY <1>6, <1>7, <1>8, <1>9, <2>1 DEF Step, Abstract!Next
  <2> QED  BY <1>4, <1>5, <1>10, <1>11, <2>1 DEF Next, Abstract!Next
<1> QED  BY <1>3, <1>11

\* objpool.c implements the abstract pool: what objpool_get hands out nobody holds,
\* and nalloced - nfreed is the number of objects in use.
THEOREM PoolRefines == Spec => ImplementsPool
<1>1. IInv /\ [Next]_vars => [Abstract!Next]_(Abstract!vars)
  BY RefinesStep
<1> QED  BY <1>1, RefinesInit, PoolInv, PTL DEF Spec, ImplementsPool, Abstract!Spec
=============================================================================
