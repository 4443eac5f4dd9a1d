--------------------------- MODULE DaemonProofs ----------------------------
(***************************************************************************)
(* Proofs about Daemon, for any number of policies, workers and sessions.  *)
(* A reference to a policy has a place: an entry of a command list, a      *)
(* listener, a session.  Total(p) counts the places of p over all workers. *)
(* Every step changes the places of one worker, or what the main thread    *)
(* has in its hand, and refcnt and lost with it.                           *)
(***************************************************************************)
EXTENDS Daemon, FiniteSetTheorems, FunctionTheorems, SequenceTheorems, TLAPS

\* The entries of q with policy p.
Pos(q, p) == {m \in DOMAIN q : q[m] = p}
Has(l, p) == IF p \in l THEN 1 ELSE 0

\* The places of one worker, with command lists c and d, listeners l and sessions s.
Tagged(tag, i, I) == {<<tag, i, n>> : n \in I}
Spots(i, c, d, l, s, p) ==
       Tagged("cmdlist", i, Pos(c, p)) \cup Tagged("todo", i, Pos(d, p))
  \cup Tagged("lfd", i, l \cap {p}) \cup Tagged("ssn", i, 1..s[p])
Here(c, d, l, s, p) == Cardinality(Pos(c, p)) + Cardinality(Pos(d, p)) + Has(l, p) + s[p]

\* Those of the workers of W, and how many there are in all.
AllSpots(W, C, D, L, S, p) == UNION {Spots(i, C[i], D[i], L[i], S[i], p) : i \in W}
TotalOf(C, D, L, S, p) == Cardinality(AllSpots(Index, C, D, L, S, p))
Total(p) == TotalOf(cmdlist, todo, lfds, ssn, p)

-----------------------------------------------------------------------------
(* The inductive invariant.                                                *)

Stopped(i) == wpc[i] \in {"absent", "exit"}
Adding == {"clone", "get", "assert", "lock", "append"}

\* The types; the bound on refcnt follows from what it counts.
Shape ==
  /\ g_stop \in BOOLEAN /\ sig \in BOOLEAN /\ nint \in 0..MaxInt
  /\ pc \in {"init", "create", "clone", "get", "assert", "lock", "append", "unlock",
             "sleep", "join", "free", "release", "done", "aborted"}
  /\ at \in Policy \X Index
  /\ wpc \in [Index -> {"absent", "start", "loop", "run", "free", "clear", "exit"}]
  /\ priv \in [Index -> BOOLEAN]
  /\ mem \in [Index -> {"none", "live", "freed"}]
  /\ lock \in [Index -> {"none", "main"}]
  /\ cmdlist \in [Index -> Seq(Policy)] /\ todo \in [Index -> Seq(Policy)]
  /\ lfds \in [Index -> SUBSET Policy] /\ failed \in [Index -> SUBSET Policy]
  /\ ssn \in [Index -> [Policy -> 0..MaxSsn]]
  /\ refcnt \in [Policy -> Int]
  /\ freed \in SUBSET Policy /\ data \in SUBSET Policy
  /\ lost \in [Policy -> Nat]

\* Where the main thread is tells which workers there are, and what is freed.
MainInv ==
  /\ pc = "init" => \A i \in Index : wpc[i] = "absent"
  /\ pc = "create" => \A i \in Index : i >= at[2] => wpc[i] = "absent"
  /\ pc = "init" => at = <<1, 1>>
  /\ pc = "sleep" => at = <<1, 1>>
  /\ pc = "join" => \A i \in Index : i < at[2] => Stopped(i)
  /\ pc \in {"free", "release", "done"} => \A i \in Index : Stopped(i)
  /\ pc \notin {"init", "free", "release", "done"} => data = Policy
  /\ pc # "done" => freed = {}

\* A worker runs the commands it took before it looks for more, and frees its worker_t last.
WorkInv ==
  \A i \in Index : /\ wpc[i] \in {"absent", "start", "loop"} => todo[i] = <<>>
                   /\ mem[i] = "freed" => wpc[i] = "exit"

\* The pairs of a policy and a worker that _py_loop has done.
Sent(i, p) ==
  IF pc \in {"init", "create"} THEN FALSE
  ELSE IF pc \in Adding THEN p < at[1] \/ (p = at[1] /\ i < at[2])
  ELSE IF pc = "unlock" THEN p < at[1] \/ (p = at[1] /\ i <= at[2])
  ELSE TRUE

\* A policy gets to a worker once, and has reached it when its turn is over.
Times(i, p) == Cardinality(Pos(cmdlist[i], p)) + Cardinality(Pos(todo[i], p)) + Has(lfds[i], p)
OnceInv == \A i \in Index, p \in Policy :
  /\ Times(i, p) <= 1
  /\ ~Sent(i, p) => Times(i, p) = 0
SentInv == pc \in Adding \cup {"unlock", "sleep"} =>
  \A i \in Index, p \in Policy : Sent(i, p) => Reached(i, p)

\* refcnt counts the places, the hand of the main thread and what was lost.
Own == IF pc = "done" THEN 1 ELSE 0
RefInv ==
  /\ pc # "aborted" => \A p \in Policy : refcnt[p] = Total(p) + InHand(p) + lost[p] - Own
  /\ pc = "aborted" => \A p \in Policy : refcnt[p] >= 0
  /\ \A p \in freed : Total(p) = 0

IInv == Shape /\ MainInv /\ WorkInv /\ OnceInv /\ SentInv /\ RefInv


-----------------------------------------------------------------------------
(* Counting.                                                               *)

Lists == [Index -> Seq(Policy)]
Listening == [Index -> SUBSET Policy]
Sessions == [Index -> [Policy -> Nat]]

LEMMA Constants ==
  /\ NPolicy \in Nat /\ NPolicy > 0 /\ NWorker \in Nat /\ NWorker > 0 /\ MaxSsn \in Nat
  /\ MaxInt \in Nat /\ 1 \in Policy /\ 1 \in Index /\ NPolicy \in Policy /\ NWorker \in Index
  /\ \A i \in Index : i \in Nat /\ i >= 1 /\ i <= NWorker /\ (i < NWorker => i + 1 \in Index)
  /\ \A p \in Policy : p \in Nat /\ p >= 1 /\ p <= NPolicy /\ (p < NPolicy => p + 1 \in Policy)
  BY DaemonAssumption DEF Policy, Index

LEMMA PosFinite ==
  ASSUME NEW q \in Seq(Policy), NEW p
  PROVE  IsFiniteSet(Pos(q, p)) /\ Cardinality(Pos(q, p)) \in Nat
<1>1. Len(q) \in Nat /\ DOMAIN q = 1 .. Len(q)
  OBVIOUS
<1>2. IsFiniteSet(1 .. Len(q))
  BY <1>1, FS_Interval
<1>3. Pos(q, p) \in SUBSET (1 .. Len(q))
  BY <1>1 DEF Pos
<1> QED  BY <1>2, <1>3, FS_Subset, FS_CardinalityType

LEMMA PosEmpty == ASSUME NEW p PROVE Cardinality(Pos(<<>>, p)) = 0
<1>1. Pos(<<>>, p) = {}
  BY DEF Pos
<1> QED  BY <1>1, FS_EmptySet

LEMMA PosNone ==
  ASSUME NEW q \in Seq(Policy), NEW p
  PROVE  (\E n \in DOMAIN q : q[n] = p) <=> Cardinality(Pos(q, p)) > 0
<1>1. IsFiniteSet(Pos(q, p)) /\ Cardinality(Pos(q, p)) \in Nat
  BY PosFinite
<1>2. Cardinality(Pos(q, p)) = 0 <=> Pos(q, p) = {}
  BY <1>1, FS_EmptySet
<1>3. (\E n \in DOMAIN q : q[n] = p) <=> Pos(q, p) # {}
  BY DEF Pos
<1> QED  BY <1>1, <1>2, <1>3

One(q, p) == IF q = p THEN 1 ELSE 0

LEMMA PosAppend ==
  ASSUME NEW q \in Seq(Policy), NEW r \in Policy, NEW p
  PROVE  Cardinality(Pos(Append(q, r), p)) = Cardinality(Pos(q, p)) + One(r, p)
<1> DEFINE n == Len(q) + 1
<1>1. /\ Len(q) \in Nat /\ DOMAIN q = 1 .. Len(q) /\ DOMAIN Append(q, r) = 1 .. n
      /\ \A k \in 1 .. Len(q) : Append(q, r)[k] = q[k]
      /\ Append(q, r)[n] = r
  OBVIOUS
<1>2. n \notin Pos(q, p)
  BY <1>1 DEF Pos
<1>3. CASE r = p
  <2>1. Pos(Append(q, r), p) = Pos(q, p) \cup {n}
    BY <1>1, <1>3 DEF Pos
  <2> QED  BY <1>2, <1>3, <2>1, PosFinite, FS_AddElement DEF One
<1>4. CASE r # p
  <2>1. Pos(Append(q, r), p) = Pos(q, p)
    BY <1>1, <1>4 DEF Pos
  <2> QED  BY <1>4, <2>1, PosFinite DEF One
<1> QED  BY <1>3, <1>4

LEMMA PosTail ==
  ASSUME NEW q \in Seq(Policy), q # <<>>, NEW p
  PROVE  /\ Cardinality(Pos(q, p)) = Cardinality(Pos(Tail(q), p)) + One(Head(q), p)
         /\ Head(q) \in Policy /\ Tail(q) \in Seq(Policy)
<1> DEFINE r == Tail(q)
           R == {i \in Pos(q, p) : i > 1}
           f == [i \in Pos(r, p) |-> i + 1]
<1>1. /\ Len(q) \in Nat /\ Len(q) > 0 /\ DOMAIN q = 1 .. Len(q)
      /\ r \in Seq(Policy) /\ Len(r) = Len(q) - 1 /\ DOMAIN r = 1 .. Len(q) - 1
      /\ \A i \in 1 .. Len(q) - 1 : r[i] = q[i + 1]
      /\ Head(q) = q[1] /\ q[1] \in Policy
  OBVIOUS
<1>2. f \in Bijection(Pos(r, p), R)
  <2>1. f \in [Pos(r, p) -> R]
    BY <1>1 DEF Pos
  <2>2. \A i, j \in Pos(r, p) : f[i] = f[j] => i = j
    BY <1>1 DEF Pos
  <2>3. \A k \in R : k - 1 \in Pos(r, p) /\ f[k - 1] = k
    BY <1>1 DEF Pos
  <2> HIDE DEF f
  <2> QED  BY <2>1, <2>2, <2>3 DEF Bijection, Injection, Surjection, IsInjective
<1>3. IsFiniteSet(R) /\ Cardinality(R) = Cardinality(Pos(r, p))
  BY <1>1, <1>2, PosFinite, FS_Bijection DEF ExistsBijection
<1>4. CASE Head(q) = p
  <2>1. Pos(q, p) = R \cup {1} /\ 1 \notin R
    BY <1>1, <1>4 DEF Pos
  <2> QED  BY <1>1, <1>3, <1>4, <2>1, FS_AddElement DEF One
<1>5. CASE Head(q) # p
  <2>1. Pos(q, p) = R
    BY <1>1, <1>5 DEF Pos
  <2>2. Cardinality(Pos(r, p)) \in Nat
    BY <1>1, PosFinite
  <2> HIDE DEF R
  <2>3. Cardinality(Pos(q, p)) = Cardinality(Pos(r, p)) + 0
    BY <1>3, <2>1, <2>2
  <2> QED  BY <1>1, <1>5, <2>3 DEF One
<1> QED  BY <1>4, <1>5

LEMMA DisjointUnion ==
  ASSUME NEW A, IsFiniteSet(A), NEW B, IsFiniteSet(B), A \cap B = {}
  PROVE  /\ IsFiniteSet(A \cup B)
         /\ Cardinality(A \cup B) = Cardinality(A) + Cardinality(B)
         /\ Cardinality(A) \in Nat /\ Cardinality(B) \in Nat
<1>1. Cardinality(A) \in Nat /\ Cardinality(B) \in Nat
  BY FS_CardinalityType
<1>2. Cardinality(A \cap B) = 0
  BY FS_EmptySet
<1>3. /\ IsFiniteSet(A \cup B)
      /\ Cardinality(A \cup B) = Cardinality(A) + Cardinality(B) - Cardinality(A \cap B)
  BY FS_Union
<1> QED  BY <1>1, <1>2, <1>3

LEMMA TaggedCount ==
  ASSUME NEW tag, NEW i, NEW I, IsFiniteSet(I)
  PROVE  IsFiniteSet(Tagged(tag, i, I)) /\ Cardinality(Tagged(tag, i, I)) = Cardinality(I)
<1> DEFINE f == [n \in I |-> <<tag, i, n>>]
<1>1. \A n, m \in I : f[n] = f[m] => n = m
  OBVIOUS
<1>2. f \in Bijection(I, Tagged(tag, i, I))
  BY <1>1 DEF Bijection, Injection, Surjection, IsInjective, Tagged
<1>3. ExistsBijection(I, Tagged(tag, i, I))
  BY <1>2 DEF ExistsBijection
<1> QED  BY <1>3, FS_Bijection

LEMMA HasCount ==
  ASSUME NEW l, NEW p
  PROVE  IsFiniteSet(l \cap {p}) /\ Cardinality(l \cap {p}) = Has(l, p) /\ Has(l, p) \in {0, 1}
<1>1. CASE p \in l
  <2>1. l \cap {p} = {p}
    BY <1>1
  <2> QED  BY <1>1, <2>1, FS_Singleton DEF Has
<1>2. CASE p \notin l
  <2>1. l \cap {p} = {}
    BY <1>2
  <2> QED  BY <1>2, <2>1, FS_EmptySet DEF Has
<1> QED  BY <1>1, <1>2

LEMMA SpotsCount ==
  ASSUME NEW i, NEW c \in Seq(Policy), NEW d \in Seq(Policy), NEW l, NEW s \in [Policy -> Nat],
         NEW p \in Policy
  PROVE  /\ IsFiniteSet(Spots(i, c, d, l, s, p))
         /\ Cardinality(Spots(i, c, d, l, s, p)) = Here(c, d, l, s, p)
         /\ Here(c, d, l, s, p) \in Nat
<1> DEFINE A == Tagged("cmdlist", i, Pos(c, p))
           B == Tagged("todo", i, Pos(d, p))
           C == Tagged("lfd", i, l \cap {p})
           D == Tagged("ssn", i, 1..s[p])
<1>0. s[p] \in Nat /\ IsFiniteSet(1..s[p]) /\ Cardinality(1..s[p]) = s[p]
  <2> DEFINE n == s[p]
  <2>1. n \in Nat /\ n \in Int /\ 1 \in Int
    OBVIOUS
  <2> HIDE DEF n
  <2>2. /\ IsFiniteSet(1..n)
        /\ Cardinality(1..n) = IF 1 > n THEN 0 ELSE n - 1 + 1
    BY <2>1, FS_Interval
  <2>3. Cardinality(1..n) = n
    BY <2>1, <2>2
  <2> QED  BY <2>1, <2>2, <2>3 DEF n
<1>1. /\ IsFiniteSet(A) /\ Cardinality(A) = Cardinality(Pos(c, p))
      /\ IsFiniteSet(B) /\ Cardinality(B) = Cardinality(Pos(d, p))
      /\ IsFiniteSet(C) /\ Cardinality(C) = Cardinality(l \cap {p})
      /\ IsFiniteSet(D) /\ Cardinality(D) = Cardinality(1..s[p])
  <2>1. /\ IsFiniteSet(Pos(c, p)) /\ IsFiniteSet(Pos(d, p)) /\ IsFiniteSet(l \cap {p})
        /\ IsFiniteSet(1..s[p])
    BY <1>0, PosFinite, HasCount
  <2> QED  BY <2>1, TaggedCount, Zenon
<1>2. /\ Cardinality(Pos(c, p)) \in Nat /\ Cardinality(Pos(d, p)) \in Nat
      /\ Cardinality(C) = Has(l, p) /\ Has(l, p) \in {0, 1} /\ Cardinality(D) = s[p]
  BY <1>0, <1>1, PosFinite, HasCount
<1>3. A \cap B = {} /\ (A \cup B) \cap C = {} /\ ((A \cup B) \cup C) \cap D = {}
  <2>1. /\ \A x \in A : x[1] = "cmdlist"
        /\ \A x \in B : x[1] = "todo"
        /\ \A x \in C : x[1] = "lfd"
        /\ \A x \in D : x[1] = "ssn"
    BY DEF Tagged
  <2> HIDE DEF A, B, C, D
  <2> QED  BY <2>1
<1>4. Spots(i, c, d, l, s, p) = ((A \cup B) \cup C) \cup D
  BY DEF Spots
<1> HIDE DEF A, B, C, D
<1>5. IsFiniteSet(A \cup B) /\ Cardinality(A \cup B) = Cardinality(A) + Cardinality(B)
  BY <1>1, <1>3, DisjointUnion
<1>6. /\ IsFiniteSet((A \cup B) \cup C)
      /\ Cardinality((A \cup B) \cup C) = Cardinality(A \cup B) + Cardinality(C)
  BY <1>1, <1>3, <1>5, DisjointUnion
<1>7. /\ IsFiniteSet(((A \cup B) \cup C) \cup D)
      /\ Cardinality(((A \cup B) \cup C) \cup D) = Cardinality((A \cup B) \cup C) + Cardinality(D)
  BY <1>1, <1>3, <1>6, DisjointUnion
<1>8. Cardinality(Spots(i, c, d, l, s, p))
        = Cardinality(Pos(c, p)) + Cardinality(Pos(d, p)) + Has(l, p) + s[p]
  BY <1>1, <1>2, <1>4, <1>5, <1>6, <1>7
<1>9. Cardinality(Pos(c, p)) + Cardinality(Pos(d, p)) + Has(l, p) + s[p] \in Nat
  BY <1>0, <1>2
<1> QED  BY <1>4, <1>7, <1>8, <1>9 DEF Here

LEMMA AllSpotsFinite ==
  ASSUME NEW W \in SUBSET Index, NEW C \in Lists, NEW D \in Lists, NEW L, NEW S \in Sessions,
         NEW p \in Policy
  PROVE  /\ IsFiniteSet(AllSpots(W, C, D, L, S, p))
         /\ Cardinality(AllSpots(W, C, D, L, S, p)) \in Nat
<1> DEFINE f == [i \in W |-> Spots(i, C[i], D[i], L[i], S[i], p)]
           U == {Spots(i, C[i], D[i], L[i], S[i], p) : i \in W}
<1>1. IsFiniteSet(W)
  <2>1. IsFiniteSet(Index)
    BY Constants, FS_Interval DEF Index
  <2> QED  BY <2>1, FS_Subset
<1>2. f \in Surjection(W, U)
  BY DEF Surjection
<1>3. IsFiniteSet(U)
  BY <1>1, <1>2, FS_Surjection
<1>4. \A i \in W : IsFiniteSet(Spots(i, C[i], D[i], L[i], S[i], p))
  BY SpotsCount DEF Lists, Sessions
<1>5. \A X \in U : IsFiniteSet(X)
  BY <1>4
<1> HIDE DEF U
<1>6. IsFiniteSet(UNION U)
  BY <1>3, <1>5, FS_UNION
<1> QED  BY <1>6, FS_CardinalityType DEF U, AllSpots

\* The places of worker i, and the rest.
LEMMA Split ==
  ASSUME NEW C \in Lists, NEW D \in Lists, NEW L, NEW S \in Sessions, NEW i \in Index,
         NEW p \in Policy
  PROVE  /\ TotalOf(C, D, L, S, p) = Here(C[i], D[i], L[i], S[i], p)
                                       + Cardinality(AllSpots(Index \ {i}, C, D, L, S, p))
         /\ Here(C[i], D[i], L[i], S[i], p) \in Nat
         /\ Cardinality(AllSpots(Index \ {i}, C, D, L, S, p)) \in Nat
<1> DEFINE A == Spots(i, C[i], D[i], L[i], S[i], p)
           B == AllSpots(Index \ {i}, C, D, L, S, p)
<1>1. /\ IsFiniteSet(A) /\ Cardinality(A) = Here(C[i], D[i], L[i], S[i], p)
      /\ Here(C[i], D[i], L[i], S[i], p) \in Nat
  <2>1. C[i] \in Seq(Policy) /\ D[i] \in Seq(Policy) /\ S[i] \in [Policy -> Nat]
    BY DEF Lists, Sessions
  <2>2. /\ IsFiniteSet(Spots(i, C[i], D[i], L[i], S[i], p))
        /\ Cardinality(Spots(i, C[i], D[i], L[i], S[i], p)) = Here(C[i], D[i], L[i], S[i], p)
        /\ Here(C[i], D[i], L[i], S[i], p) \in Nat
    BY <2>1, SpotsCount
  <2> QED  BY <2>2
<1>2. IsFiniteSet(B) /\ Cardinality(B) \in Nat
  BY AllSpotsFinite
<1>3. AllSpots(Index, C, D, L, S, p) = A \cup B
  BY DEF AllSpots
<1>4. A \cap B = {}
  <2>1. \A x \in A : x[2] = i
    BY DEF Spots, Tagged
  <2>2. \A x \in B : x[2] # i
    BY DEF AllSpots, Spots, Tagged
  <2> QED  BY <2>1, <2>2
<1> HIDE DEF A, B
<1>5. Cardinality(A \cup B) = Cardinality(A) + Cardinality(B)
  BY <1>1, <1>2, <1>4, DisjointUnion
<1> QED  BY <1>1, <1>2, <1>3, <1>5 DEF TotalOf, B

LEMMA SessionType == [Index -> [Policy -> 0..MaxSsn]] \subseteq Sessions
<1>1. 0..MaxSsn \subseteq Nat
  BY Constants
<1>2. ASSUME NEW f \in [Index -> [Policy -> 0..MaxSsn]], NEW x \in Index
      PROVE  f[x] \in [Policy -> Nat]
  <2> DEFINE g == f[x]
  <2>1. g \in [Policy -> 0..MaxSsn]
    OBVIOUS
  <2> HIDE DEF g
  <2>2. \A y \in Policy : g[y] \in Nat
    BY <1>1, <2>1
  <2>3. g \in [Policy -> Nat]
    BY <2>1, <2>2
  <2> QED  BY <2>3 DEF g
<1> QED  BY <1>2 DEF Sessions

\* What worker i has of p, and what there is in all.
LEMMA HereBelow ==
  ASSUME Shape, NEW i \in Index, NEW p \in Policy
  PROVE  /\ Total(p) \in Nat
         /\ Here(cmdlist[i], todo[i], lfds[i], ssn[i], p) \in Nat
         /\ Here(cmdlist[i], todo[i], lfds[i], ssn[i], p) <= Total(p)
         /\ Cardinality(Pos(cmdlist[i], p)) \in Nat /\ Cardinality(Pos(todo[i], p)) \in Nat
         /\ Has(lfds[i], p) \in {0, 1} /\ ssn[i][p] \in Nat /\ ssn[i][p] <= MaxSsn
         /\ Times(i, p) \in Nat
         /\ Here(cmdlist[i], todo[i], lfds[i], ssn[i], p) = Times(i, p) + ssn[i][p]
<1>1. /\ cmdlist \in Lists /\ todo \in Lists /\ ssn \in Sessions
      /\ cmdlist[i] \in Seq(Policy) /\ todo[i] \in Seq(Policy)
  BY SessionType DEF Shape, Lists
<1>2. /\ TotalOf(cmdlist, todo, lfds, ssn, p)
           = Here(cmdlist[i], todo[i], lfds[i], ssn[i], p)
               + Cardinality(AllSpots(Index \ {i}, cmdlist, todo, lfds, ssn, p))
      /\ Here(cmdlist[i], todo[i], lfds[i], ssn[i], p) \in Nat
      /\ Cardinality(AllSpots(Index \ {i}, cmdlist, todo, lfds, ssn, p)) \in Nat
  BY <1>1, Split
<1>3. /\ Cardinality(Pos(cmdlist[i], p)) \in Nat /\ Cardinality(Pos(todo[i], p)) \in Nat
      /\ Has(lfds[i], p) \in {0, 1}
  BY <1>1, PosFinite, HasCount
<1>4. ssn[i][p] \in Nat /\ ssn[i][p] <= MaxSsn
  BY Constants DEF Shape
<1>5. Times(i, p) \in Nat
  BY <1>3 DEF Times
<1> HIDE DEF Times
<1>6. Here(cmdlist[i], todo[i], lfds[i], ssn[i], p) = Times(i, p) + ssn[i][p]
  BY <1>3, <1>4 DEF Here, Times
<1>7. Total(p) \in Nat /\ Here(cmdlist[i], todo[i], lfds[i], ssn[i], p) <= Total(p)
  BY <1>2 DEF Total
<1> QED  BY <1>2, <1>3, <1>4, <1>5, <1>6, <1>7

\* A step that works on the places of worker i only.
LEMMA Moved ==
  ASSUME Shape, Shape', NEW i \in Index, NEW p \in Policy,
         \A x \in Index \ {i} : /\ cmdlist'[x] = cmdlist[x] /\ todo'[x] = todo[x]
                                /\ lfds'[x] = lfds[x] /\ ssn'[x] = ssn[x]
  PROVE  /\ Total(p) \in Nat /\ Total(p)' \in Nat
         /\ Here(cmdlist[i], todo[i], lfds[i], ssn[i], p) \in Nat
         /\ Here(cmdlist'[i], todo'[i], lfds'[i], ssn'[i], p) \in Nat
         /\ Here(cmdlist[i], todo[i], lfds[i], ssn[i], p) <= Total(p)
         /\ Total(p)' = Total(p) + Here(cmdlist'[i], todo'[i], lfds'[i], ssn'[i], p)
                                 - Here(cmdlist[i], todo[i], lfds[i], ssn[i], p)
<1>1. /\ cmdlist \in Lists /\ todo \in Lists /\ ssn \in Sessions
      /\ cmdlist' \in Lists /\ todo' \in Lists /\ ssn' \in Sessions
  BY SessionType DEF Shape, Lists
<1>2. /\ TotalOf(cmdlist, todo, lfds, ssn, p)
           = Here(cmdlist[i], todo[i], lfds[i], ssn[i], p)
               + Cardinality(AllSpots(Index \ {i}, cmdlist, todo, lfds, ssn, p))
      /\ Here(cmdlist[i], todo[i], lfds[i], ssn[i], p) \in Nat
      /\ Cardinality(AllSpots(Index \ {i}, cmdlist, todo, lfds, ssn, p)) \in Nat
  BY <1>1, Split
<1>3. /\ TotalOf(cmdlist', todo', lfds', ssn', p)
           = Here(cmdlist'[i], todo'[i], lfds'[i], ssn'[i], p)
               + Cardinality(AllSpots(Index \ {i}, cmdlist', todo', lfds', ssn', p))
      /\ Here(cmdlist'[i], todo'[i], lfds'[i], ssn'[i], p) \in Nat
      /\ Cardinality(AllSpots(Index \ {i}, cmdlist', todo', lfds', ssn', p)) \in Nat
  BY <1>1, Split
<1>4. AllSpots(Index \ {i}, cmdlist', todo', lfds', ssn', p)
        = AllSpots(Index \ {i}, cmdlist, todo, lfds, ssn, p)
  BY DEF AllSpots
<1> DEFINE n == Cardinality(AllSpots(Index \ {i}, cmdlist, todo, lfds, ssn, p))
           a == Here(cmdlist[i], todo[i], lfds[i], ssn[i], p)
           b == Here(cmdlist'[i], todo'[i], lfds'[i], ssn'[i], p)
<1>5. Total(p) = a + n /\ Total(p)' = b + n /\ a \in Nat /\ b \in Nat /\ n \in Nat
  BY <1>2, <1>3, <1>4 DEF Total
<1> HIDE DEF a, b, n
<1>6. Total(p) \in Nat /\ Total(p)' \in Nat /\ a <= Total(p) /\ Total(p)' = Total(p) + b - a
  BY <1>5
<1> QED  BY <1>5, <1>6 DEF a, b


-----------------------------------------------------------------------------
(* The types.                                                              *)

LEMMA FreeType ==
  ASSUME Shape, NEW p \in Policy, NEW n \in Nat, policy_free(p, n)
  PROVE  refcnt' \in [Policy -> Int] /\ freed' \in SUBSET Policy /\ data' \in SUBSET Policy
<1>1. refcnt' = [refcnt EXCEPT ![p] = refcnt[p] - n] /\ refcnt \in [Policy -> Int]
  BY DEF policy_free, Shape
<1>2. refcnt[p] - n \in Int
  BY <1>1
<1>3. refcnt' \in [Policy -> Int]
  BY <1>1, <1>2
<1>4. freed' \in SUBSET Policy /\ data' \in SUBSET Policy
  BY DEF policy_free, Shape
<1> QED  BY <1>3, <1>4

LEMMA CloneType ==
  ASSUME Shape, NEW p \in Policy, policy_clone(p)
  PROVE  refcnt' \in [Policy -> Int]
<1>1. refcnt' = [refcnt EXCEPT ![p] = refcnt[p] + 1] /\ refcnt \in [Policy -> Int]
  BY DEF policy_clone, Shape
<1>2. refcnt[p] + 1 \in Int
  BY <1>1
<1> QED  BY <1>1, <1>2

LEMMA AtType ==
  ASSUME Shape
  PROVE  at[1] \in Policy /\ at[2] \in Index /\ <<1, 1>> \in Policy \X Index
         /\ (at[2] < NWorker => <<1, at[2] + 1>> \in Policy \X Index
                                /\ <<at[1], at[2] + 1>> \in Policy \X Index)
         /\ (at[1] < NPolicy => <<at[1] + 1, 1>> \in Policy \X Index)
<1>1. at[1] \in Policy /\ at[2] \in Index
  BY DEF Shape
<1> QED  BY <1>1, Constants

LEMMA ShapeInit == Init => Shape
<1> SUFFICES ASSUME Init PROVE Shape
  OBVIOUS
<1>1. <<1, 1>> \in Policy \X Index /\ 0 \in 0..MaxInt /\ 0 \in 0..MaxSsn /\ <<>> \in Seq(Policy)
  BY Constants
<1>2. [p \in Policy |-> 0] \in [Policy -> 0..MaxSsn] /\ [p \in Policy |-> 0] \in [Policy -> Nat]
      /\ [p \in Policy |-> 0] \in [Policy -> Int]
  BY <1>1
<1>3. ssn \in [Index -> [Policy -> 0..MaxSsn]] /\ refcnt \in [Policy -> Int] /\ lost \in [Policy -> Nat]
  BY <1>2, Zenon DEF Init
<1>4. wpc \in [Index -> {"absent", "start", "loop", "run", "free", "clear", "exit"}]
      /\ mem \in [Index -> {"none", "live", "freed"}] /\ lock \in [Index -> {"none", "main"}]
      /\ priv \in [Index -> BOOLEAN]
  BY DEF Init
<1>5. cmdlist \in [Index -> Seq(Policy)] /\ todo \in [Index -> Seq(Policy)]
      /\ lfds \in [Index -> SUBSET Policy] /\ failed \in [Index -> SUBSET Policy]
  BY <1>1 DEF Init
<1> QED  BY <1>1, <1>3, <1>4, <1>5 DEF Init, Shape

LEMMA ShapeMain == ASSUME Shape, Main PROVE Shape'
<1> USE DEF main, workers, pols
<1>1. CASE _py_init_data
  <2>1. data' \in SUBSET Policy /\ pc' \in {"create", "release"}
    BY <1>1, Constants DEF _py_init_data, Goto, Policy
  <2> QED  BY <1>1, <2>1 DEF _py_init_data, Shape
<1>2. CASE thread_create
  <2>1. wpc' = [wpc EXCEPT ![at[2]] = "start"] \/ wpc' = wpc
    BY <1>2 DEF thread_create
  <2>2. at' \in Policy \X Index /\ pc' \in {"create", "clone"}
    BY <1>2, AtType DEF thread_create, Goto
  <2>3. wpc' \in [Index -> {"absent", "start", "loop", "run", "free", "clear", "exit"}]
    BY <2>1, AtType DEF Shape
  <2> QED  BY <1>2, <2>2, <2>3 DEF thread_create, Shape
<1>3. CASE _py_loop_clone
  <2>1. refcnt' \in [Policy -> Int] /\ at' \in Policy \X Index /\ pc' \in {"get", "join"}
    <3>1. CASE policy_clone(at[1]) /\ Goto("get") /\ UNCHANGED at
      BY <3>1, CloneType, AtType DEF Goto, Shape
    <3>2. CASE MayFail /\ Goto("join") /\ at' = <<1, 1>> /\ UNCHANGED refcnt
      BY <3>2, AtType DEF Goto, Shape
    <3> QED  BY <1>3, <3>1, <3>2 DEF _py_loop_clone
  <2> QED  BY <1>3, <2>1 DEF _py_loop_clone, Shape
<1>4. CASE worker_add_cmd_get
  <2>1. /\ refcnt' \in [Policy -> Int] /\ freed' \in SUBSET Policy /\ data' \in SUBSET Policy
        /\ at' \in Policy \X Index /\ pc' \in {"assert", "join"}
    <3>1. CASE priv[at[2]]
      BY <1>4, <3>1 DEF worker_add_cmd_get, Goto, Shape
    <3>2. CASE ~priv[at[2]]
      BY <1>4, <3>2, FreeType, AtType DEF worker_add_cmd_get, Goto
    <3> QED  BY <3>1, <3>2
  <2> QED  BY <1>4, <2>1 DEF worker_add_cmd_get, Shape
<1>5. CASE _worker_lock_assert
  BY <1>5 DEF _worker_lock_assert, Goto, Shape
<1>6. CASE _worker_lock
  <2>1. lock' = [lock EXCEPT ![at[2]] = "main"] \/ lock' = lock
    BY <1>6 DEF _worker_lock
  <2>2. lock' \in [Index -> {"none", "main"}]
    BY <2>1, AtType DEF Shape
  <2>3. pc' \in {"append", "aborted"}
    BY <1>6 DEF _worker_lock, Goto
  <2> QED  BY <1>6, <2>2, <2>3 DEF _worker_lock, Shape
<1>7. CASE worker_add_cmd_append
  <2>1. \/ cmdlist' = [cmdlist EXCEPT ![at[2]] = Append(cmdlist[at[2]], at[1])] /\ lost' = lost
        \/ cmdlist' = cmdlist /\ lost' = [lost EXCEPT ![at[1]] = lost[at[1]] + 1]
    BY <1>7 DEF worker_add_cmd_append
  <2>2. cmdlist[at[2]] \in Seq(Policy) /\ lost[at[1]] \in Nat
    BY AtType DEF Shape
  <2>3. Append(cmdlist[at[2]], at[1]) \in Seq(Policy) /\ lost[at[1]] + 1 \in Nat
    BY <2>2, AtType
  <2>4. cmdlist' \in [Index -> Seq(Policy)] /\ lost' \in [Policy -> Nat]
    <3>1. cmdlist \in [Index -> Seq(Policy)] /\ lost \in [Policy -> Nat]
      BY DEF Shape
    <3> DEFINE q == Append(cmdlist[at[2]], at[1])
               n == lost[at[1]] + 1
    <3> HIDE DEF q, n
    <3>2. q \in Seq(Policy) /\ n \in Nat
      BY <2>3 DEF q, n
    <3>3. cmdlist' = [cmdlist EXCEPT ![at[2]] = q] \/ cmdlist' = cmdlist
      BY <2>1 DEF q
    <3>4. lost' = [lost EXCEPT ![at[1]] = n] \/ lost' = lost
      BY <2>1 DEF n
    <3> QED  BY <3>1, <3>2, <3>3, <3>4
  <2>5. pc' \in {"unlock", "aborted"}
    BY <1>7 DEF worker_add_cmd_append, Goto
  <2> QED  BY <1>7, <2>4, <2>5 DEF worker_add_cmd_append, Shape
<1>8. CASE _worker_unlock
  <2>1. lock' = [lock EXCEPT ![at[2]] = "none"] \/ lock' = lock
    BY <1>8 DEF _worker_unlock
  <2>2. lock' \in [Index -> {"none", "main"}]
    BY <2>1, AtType DEF Shape
  <2>3. at' \in Policy \X Index /\ pc' \in {"clone", "sleep", "aborted"}
    <3>1. CASE ~priv[at[2]]
      BY <1>8, <3>1 DEF _worker_unlock, Goto, Shape
    <3>2. CASE priv[at[2]]
      BY <1>8, <3>2, AtType DEF _worker_unlock, Goto
    <3> QED  BY <3>1, <3>2
  <2> QED  BY <1>8, <2>2, <2>3 DEF _worker_unlock, Shape
<1>9. CASE _py_loop_sleep
  BY <1>9 DEF _py_loop_sleep, Goto, Shape
<1>10. CASE thread_join
  <2>1. at' \in Policy \X Index /\ pc' \in {"join", "free"}
    <3>1. CASE at[2] < NWorker
      BY <1>10, <3>1, AtType DEF thread_join
    <3>2. CASE ~(at[2] < NWorker)
      BY <1>10, <3>2 DEF thread_join, Goto, Shape
    <3> QED  BY <3>1, <3>2
  <2> QED  BY <1>10, <2>1 DEF thread_join, Shape
<1>11. CASE _py_free_data
  BY <1>11 DEF _py_free_data, Goto, Shape
<1>12. CASE proxy_free
  <2>1. /\ refcnt' = [p \in Policy |-> refcnt[p] - 1] /\ pc' = "done"
        /\ freed' = freed \union {p \in Policy : refcnt[p] = 0}
        /\ data' = data \ {p \in Policy : refcnt[p] = 0}
    BY <1>12 DEF proxy_free, Goto
  <2>2. \A p \in Policy : refcnt[p] - 1 \in Int
    BY DEF Shape
  <2>3. refcnt' \in [Policy -> Int]
    BY <2>1, <2>2
  <2> QED  BY <1>12, <2>1, <2>3 DEF proxy_free, Shape
<1> QED  BY <1>1, <1>2, <1>3, <1>4, <1>5, <1>6, <1>7, <1>8, <1>9, <1>10, <1>11, <1>12 DEF Main

LEMMA StepType ==
  ASSUME Shape, NEW i \in Index, NEW from, NEW to \in {"loop", "run", "free", "clear", "exit"},
         Step(i, from, to)
  PROVE  /\ wpc' \in [Index -> {"absent", "start", "loop", "run", "free", "clear", "exit"}]
         /\ wpc[i] = from /\ wpc'[i] = to /\ \A x \in Index \ {i} : wpc'[x] = wpc[x]
         /\ Running
  BY DEF Step, Shape

LEMMA ShapeWorker == ASSUME Shape, NEW i \in Index, Worker(i) PROVE Shape'
<1> USE DEF main, workers, pols
<1>1. CASE _worker_init(i)
  <2>1. CASE Step(i, "start", "loop") /\ priv' = [priv EXCEPT ![i] = TRUE]
             /\ mem' = [mem EXCEPT ![i] = "live"] /\ UNCHANGED sig
    BY <1>1, <2>1, StepType DEF _worker_init, Shape
  <2>2. CASE Step(i, "start", "exit") /\ sig' = TRUE /\ UNCHANGED <<priv, mem>>
    BY <1>1, <2>2, StepType DEF _worker_init, Shape
  <2> QED  BY <1>1, <2>1, <2>2 DEF _worker_init
<1>2. CASE _worker_loop(i)
  BY <1>2, StepType DEF _worker_loop, Shape
<1>10. CASE _worker_poll(i)
  BY <1>10, StepType DEF _worker_poll, Shape
<1>3. CASE _worker_get_cmd(i)
  BY <1>3, StepType DEF _worker_get_cmd, Shape
<1>4. CASE _worker_add_policy(i)
  <2>1. todo[i] \in Seq(Policy) /\ todo[i] # <<>> /\ todo' = [todo EXCEPT ![i] = Tail(todo[i])]
    BY <1>4 DEF _worker_add_policy, Shape
  <2>2. Head(todo[i]) \in Policy /\ Tail(todo[i]) \in Seq(Policy)
    BY <2>1
  <2>3. todo' \in [Index -> Seq(Policy)]
    BY <2>1, <2>2 DEF Shape
  <2> DEFINE p == Head(todo[i])
  <2>4. /\ lfds' \in [Index -> SUBSET Policy] /\ failed' \in [Index -> SUBSET Policy]
        /\ lost' \in [Policy -> Nat] /\ refcnt' \in [Policy -> Int]
        /\ freed' \in SUBSET Policy /\ data' \in SUBSET Policy
    <3>1. CASE lfds' = [lfds EXCEPT ![i] = @ \union {p}]
               /\ UNCHANGED <<failed, refcnt, freed, data, lost>>
      BY <2>2, <3>1 DEF Shape
    <3>2. CASE failed' = [failed EXCEPT ![i] = @ \union {p}]
               /\ lost' = [lost EXCEPT ![p] = @ + 1] /\ UNCHANGED <<lfds, refcnt, freed, data>>
      <4>0. lost[p] \in Nat
        BY <2>2 DEF Shape
      <4>1. lost[p] + 1 \in Nat
        BY <4>0
      <4>2. lost' \in [Policy -> Nat]
        BY <3>2, <4>1 DEF Shape
      <4> QED  BY <2>2, <3>2, <4>2 DEF Shape
    <3>3. CASE failed' = [failed EXCEPT ![i] = @ \union {p}]
               /\ policy_free(p, 1) /\ UNCHANGED <<lfds, lost>>
      <4>1. refcnt' \in [Policy -> Int] /\ freed' \in SUBSET Policy /\ data' \in SUBSET Policy
        BY <2>2, <3>3, FreeType
      <4> QED  BY <2>2, <3>3, <4>1 DEF Shape
    <3> QED  BY <1>4, <3>1, <3>2, <3>3 DEF _worker_add_policy
  <2> QED  BY <1>4, <2>3, <2>4, StepType DEF _worker_add_policy, Shape
<1>5. CASE _worker_accept(i)
  <2>1. PICK p \in lfds[i] : /\ ssn[i][p] < MaxSsn /\ policy_clone(p)
                             /\ ssn' = [ssn EXCEPT ![i][p] = @ + 1]
    BY <1>5 DEF _worker_accept
  <2>2. p \in Policy
    BY DEF Shape
  <2>3. ssn[i][p] + 1 \in 0..MaxSsn
    BY <2>1, <2>2, HereBelow, Constants
  <2>4. ssn' \in [Index -> [Policy -> 0..MaxSsn]]
    BY <2>1, <2>2, <2>3 DEF Shape
  <2>5. refcnt' \in [Policy -> Int]
    BY <2>1, <2>2, CloneType
  <2> QED  BY <1>5, <2>4, <2>5, StepType DEF _worker_accept, Shape
<1>6. CASE _worker_delete(i)
  <2>1. PICK p \in Policy : /\ ssn[i][p] > 0 /\ policy_free(p, 1)
                            /\ ssn' = [ssn EXCEPT ![i][p] = @ - 1]
    BY <1>6 DEF _worker_delete
  <2>3. ssn[i][p] - 1 \in 0..MaxSsn
    BY <2>1, HereBelow, Constants
  <2>4. ssn' \in [Index -> [Policy -> 0..MaxSsn]]
    BY <2>1, <2>3 DEF Shape
  <2>5. refcnt' \in [Policy -> Int] /\ freed' \in SUBSET Policy /\ data' \in SUBSET Policy
    BY <2>1, FreeType
  <2> QED  BY <1>6, <2>4, <2>5, StepType DEF _worker_delete, Shape
<1>7. CASE _worker_free_lfd(i)
  <2>1. PICK p \in lfds[i] : /\ lfds' = [lfds EXCEPT ![i] = @ \ {p}]
                             /\ ssn' = [ssn EXCEPT ![i][p] = 0]
                             /\ policy_free(p, ssn[i][p] + 1)
    BY <1>7 DEF _worker_free_lfd
  <2>2. p \in Policy
    BY DEF Shape
  <2>3. ssn[i][p] + 1 \in Nat /\ 0 \in 0..MaxSsn
    BY <2>2, HereBelow, Constants
  <2>4. ssn' \in [Index -> [Policy -> 0..MaxSsn]] /\ lfds' \in [Index -> SUBSET Policy]
    BY <2>1, <2>2, <2>3 DEF Shape
  <2>5. refcnt' \in [Policy -> Int] /\ freed' \in SUBSET Policy /\ data' \in SUBSET Policy
    BY <2>1, <2>2, <2>3, FreeType
  <2> QED  BY <1>7, <2>4, <2>5, StepType DEF _worker_free_lfd, Shape
<1>8. CASE _worker_free_priv(i)
  BY <1>8, StepType DEF _worker_free_priv, Shape
<1>9. CASE _worker_free_mem(i)
  <2>1. \A p \in Policy : lost[p] + Cardinality(Pos(cmdlist[i], p)) \in Nat
    BY PosFinite DEF Shape
  <2>2. lost' = [p \in Policy |-> lost[p] + Cardinality(Pos(cmdlist[i], p))]
    <3>1. \A p \in Policy : Pos(cmdlist[i], p) = {n \in DOMAIN cmdlist[i] : cmdlist[i][n] = p}
      BY DEF Pos
    <3> QED  BY <1>9, <3>1 DEF _worker_free_mem
  <2>3. lost' \in [Policy -> Nat]
    BY <2>1, <2>2
  <2>4. /\ wpc' \in [Index -> {"absent", "start", "loop", "run", "free", "clear", "exit"}]
        /\ mem' = [mem EXCEPT ![i] = "freed"] /\ cmdlist' = [cmdlist EXCEPT ![i] = <<>>]
        /\ UNCHANGED <<main, priv, lock, todo, lfds, failed, ssn, refcnt, freed, data>>
    BY <1>9, StepType DEF _worker_free_mem
  <2>5. /\ mem' \in [Index -> {"none", "live", "freed"}]
        /\ cmdlist' \in [Index -> Seq(Policy)]
    BY <2>4 DEF Shape
  <2> QED  BY <2>3, <2>4, <2>5 DEF Shape
<1> QED  BY <1>1, <1>2, <1>3, <1>4, <1>5, <1>6, <1>7, <1>8, <1>9, <1>10 DEF Worker

LEMMA ShapeNext == Shape /\ [Next]_vars => Shape'
<1> SUFFICES ASSUME Shape, [Next]_vars PROVE Shape'
  OBVIOUS
<1>1. CASE Interrupt
  <2>1. /\ g_stop' \in BOOLEAN /\ sig' \in BOOLEAN /\ UNCHANGED <<pc, at, workers, pols>>
    BY <1>1, Zenon DEF Interrupt, Shape
  <2>2. nint' \in 0..MaxInt
    BY <1>1, Constants DEF Interrupt, Shape
  <2> QED  BY <2>1, <2>2 DEF Shape, workers, pols
<1>2. CASE _sig_int
  BY <1>2 DEF _sig_int, Shape, workers, pols
<1>3. CASE Ended \/ UNCHANGED vars
  BY <1>3 DEF Ended, vars, main, workers, pols, Shape
<1> QED  BY <1>1, <1>2, <1>3, ShapeMain, ShapeWorker DEF Next


-----------------------------------------------------------------------------
(* What a step of a worker does.                                           *)

\* The references that are not with worker i.
Ledger(i, p) == refcnt[p] - lost[p] - Here(cmdlist[i], todo[i], lfds[i], ssn[i], p)

\* A worker leaves the main thread and the other workers alone, takes and gives up
\* references only with the count, and loses no policy.
WorkStep(i) ==
  /\ ~Stopped(i) /\ Running
  /\ UNCHANGED <<pc, at, freed, data>>
  /\ \A x \in Index \ {i} : /\ wpc'[x] = wpc[x] /\ mem'[x] = mem[x] /\ cmdlist'[x] = cmdlist[x]
                            /\ todo'[x] = todo[x] /\ lfds'[x] = lfds[x] /\ failed'[x] = failed[x]
                            /\ ssn'[x] = ssn[x]
  /\ wpc'[i] \in {"absent", "start", "loop"} => todo'[i] = <<>>
  /\ mem'[i] = "freed" => wpc'[i] = "exit"
  /\ \A p \in Policy : /\ Ledger(i, p)' = Ledger(i, p)
                       /\ Times(i, p)' <= Times(i, p)
                       /\ Reached(i, p) => Reached(i, p)'

LEMMA RefCount ==
  ASSUME IInv, Running, NEW p \in Policy
  PROVE  /\ refcnt[p] = Total(p) + InHand(p) + lost[p]
         /\ Total(p) \in Nat /\ InHand(p) \in {0, 1} /\ lost[p] \in Nat /\ refcnt[p] \in Int
<1>1. Total(p) \in Nat
  BY Constants, HereBelow DEF IInv
<1>2. InHand(p) \in {0, 1} /\ lost[p] \in Nat /\ Own = 0 /\ refcnt[p] \in Int
  BY DEF InHand, IInv, Shape, Own, Running
<1>3. refcnt[p] = Total(p) + InHand(p) + lost[p] - Own
  BY DEF IInv, RefInv, Running
<1> QED  BY <1>1, <1>2, <1>3

\* Giving up references that are held never frees the policy.
LEMMA Unfreed ==
  ASSUME IInv, Running, NEW p \in Policy, NEW n \in Nat, n <= Total(p) + InHand(p),
         policy_free(p, n)
  PROVE  /\ freed' = freed /\ data' = data
         /\ refcnt' = [refcnt EXCEPT ![p] = refcnt[p] - n]
<1>1. n <= refcnt[p] /\ refcnt[p] \in Int
  BY RefCount
<1>2. ~(n > refcnt[p])
  BY <1>1
<1> QED  BY <1>2 DEF policy_free

LEMMA LedgerInt ==
  ASSUME Shape, NEW i \in Index, NEW p \in Policy
  PROVE  /\ Here(cmdlist[i], todo[i], lfds[i], ssn[i], p) \in Nat
         /\ refcnt[p] \in Int /\ lost[p] \in Nat
  BY HereBelow DEF Shape

\* The step leaves references and counts alone.
LEMMA StepQuiet ==
  ASSUME IInv, NEW i \in Index, ~Stopped(i), Running,
         UNCHANGED <<pc, at, freed, data, refcnt, lost>>,
         UNCHANGED <<cmdlist, todo, lfds, failed, ssn>>,
         \A x \in Index \ {i} : wpc'[x] = wpc[x] /\ mem'[x] = mem[x],
         wpc'[i] \in {"absent", "start", "loop"} => todo'[i] = <<>>,
         mem'[i] = "freed" => wpc'[i] = "exit",
         wpc[i] \in {"free", "clear", "exit"} => wpc'[i] \in {"free", "clear", "exit"}
  PROVE  WorkStep(i)
<1>1. ASSUME NEW p \in Policy
      PROVE  /\ Ledger(i, p)' = Ledger(i, p)
             /\ Times(i, p)' <= Times(i, p)
             /\ Reached(i, p) => Reached(i, p)'
  <2>1. Ledger(i, p)' = Ledger(i, p)
    BY DEF Ledger
  <2>2. Times(i, p)' = Times(i, p) /\ Times(i, p) \in Nat
    <3>1. Times(i, p)' = Times(i, p)
      BY DEF Times
    <3> QED  BY <3>1, HereBelow DEF IInv
  <2>3. Reached(i, p) => Reached(i, p)'
    BY DEF Reached
  <2> QED  BY <2>1, <2>2, <2>3
<1> QED  BY <1>1 DEF WorkStep

LEMMA StepInit ==
  ASSUME IInv, NEW i \in Index, _worker_init(i)
  PROVE  WorkStep(i)
<1>1. /\ wpc[i] = "start" /\ wpc'[i] \in {"loop", "exit"} /\ Running
      /\ \A x \in Index \ {i} : wpc'[x] = wpc[x] /\ mem'[x] = mem[x]
      /\ mem'[i] \in {"live", mem[i]}
  BY StepType DEF _worker_init, IInv, Shape
<1>2. todo[i] = <<>> /\ mem[i] # "freed"
  BY <1>1 DEF IInv, WorkInv
<1>3. UNCHANGED <<pc, at, freed, data, refcnt, lost, cmdlist, todo, lfds, failed, ssn>>
  BY DEF _worker_init, pols
<1> QED  BY <1>1, <1>2, <1>3, StepQuiet DEF Stopped

LEMMA StepLoop ==
  ASSUME IInv, NEW i \in Index, _worker_loop(i) \/ _worker_poll(i) \/ _worker_free_priv(i)
  PROVE  WorkStep(i)
<1>1. /\ wpc[i] \in {"loop", "run", "free"} /\ wpc'[i] \in {"free", "loop", "clear"} /\ Running
      /\ \A x \in Index \ {i} : wpc'[x] = wpc[x]
      /\ wpc'[i] = "loop" => todo[i] = <<>>
      /\ wpc[i] = "free" => wpc'[i] = "clear"
      /\ UNCHANGED <<pc, at, freed, data, refcnt, lost, cmdlist, todo, lfds, failed, ssn, mem>>
  <2>1. CASE _worker_loop(i)
    BY <2>1, StepType DEF _worker_loop, pols, main, IInv
  <2>2. CASE _worker_poll(i)
    BY <2>2, StepType DEF _worker_poll, pols, main, IInv
  <2>3. CASE _worker_free_priv(i)
    BY <2>3, StepType DEF _worker_free_priv, pols, main, IInv
  <2> QED  BY <2>1, <2>2, <2>3
<1>2. mem[i] # "freed"
  BY <1>1 DEF IInv, WorkInv
<1> QED  BY <1>1, <1>2, StepQuiet DEF Stopped

LEMMA StepTake ==
  ASSUME IInv, NEW i \in Index, _worker_get_cmd(i), Shape'
  PROVE  WorkStep(i)
<1>1. /\ wpc[i] = "loop" /\ wpc'[i] = "run" /\ Running
      /\ \A x \in Index \ {i} : wpc'[x] = wpc[x]
      /\ todo' = [todo EXCEPT ![i] = cmdlist[i]] /\ cmdlist' = [cmdlist EXCEPT ![i] = <<>>]
      /\ UNCHANGED <<pc, at, freed, data, refcnt, lost, lfds, failed, ssn, mem>>
  BY StepType DEF _worker_get_cmd, pols, main, IInv
<1>2. mem[i] # "freed" /\ todo[i] = <<>>
  BY <1>1 DEF IInv, WorkInv
<1>3. /\ todo'[i] = cmdlist[i] /\ cmdlist'[i] = <<>>
      /\ \A x \in Index \ {i} : cmdlist'[x] = cmdlist[x] /\ todo'[x] = todo[x]
  BY <1>1 DEF IInv, Shape
<1>4. ASSUME NEW p \in Policy
      PROVE  /\ Ledger(i, p)' = Ledger(i, p)
             /\ Times(i, p)' <= Times(i, p)
             /\ Reached(i, p) => Reached(i, p)'
  <2>1. /\ Cardinality(Pos(todo[i], p)) = 0 /\ Cardinality(Pos(cmdlist'[i], p)) = 0
        /\ Cardinality(Pos(todo'[i], p)) = Cardinality(Pos(cmdlist[i], p))
        /\ Cardinality(Pos(cmdlist[i], p)) \in Nat /\ Has(lfds[i], p) \in {0, 1} /\ ssn[i][p] \in Nat
    BY <1>2, <1>3, PosEmpty, HereBelow DEF IInv
  <2>2. Times(i, p)' = Times(i, p) /\ Times(i, p) \in Nat
    BY <1>1, <2>1 DEF Times
  <2>3. Here(cmdlist'[i], todo'[i], lfds'[i], ssn'[i], p)
          = Here(cmdlist[i], todo[i], lfds[i], ssn[i], p)
    BY <1>1, <2>1 DEF Here
  <2>4. Ledger(i, p)' = Ledger(i, p)
    BY <1>1, <2>3 DEF Ledger
  <2>5. Reached(i, p) => Reached(i, p)'
    BY <1>1, <1>2, <1>3 DEF Reached
  <2> QED  BY <2>2, <2>4, <2>5
<1> QED  BY <1>1, <1>2, <1>3, <1>4 DEF WorkStep, Stopped


\* The command at the head is run: its reference is the listener's, lost, or given back.
LEMMA StepAdd ==
  ASSUME IInv, NEW i \in Index, _worker_add_policy(i), Shape'
  PROVE  WorkStep(i)
<1> DEFINE p == Head(todo[i])
<1>1. /\ wpc[i] = "run" /\ wpc'[i] = "run" /\ Running
      /\ \A x \in Index \ {i} : wpc'[x] = wpc[x]
      /\ todo[i] # <<>> /\ todo' = [todo EXCEPT ![i] = Tail(todo[i])]
      /\ UNCHANGED <<pc, at, cmdlist, ssn, mem>>
  BY StepType DEF _worker_add_policy, main, IInv
<1>2. mem[i] # "freed" /\ todo[i] \in Seq(Policy)
  BY <1>1 DEF IInv, WorkInv, Shape
<1>3. p \in Policy /\ Tail(todo[i]) \in Seq(Policy)
  BY <1>1, <1>2
<1>4. /\ todo'[i] = Tail(todo[i]) /\ \A x \in Index \ {i} : todo'[x] = todo[x]
  BY <1>1 DEF IInv, Shape
<1>5. ASSUME NEW q \in Policy
      PROVE  /\ Cardinality(Pos(todo[i], q)) = Cardinality(Pos(todo'[i], q)) + One(p, q)
             /\ Cardinality(Pos(todo[i], q)) \in Nat /\ Cardinality(Pos(todo'[i], q)) \in Nat
             /\ Cardinality(Pos(cmdlist[i], q)) \in Nat
             /\ Has(lfds[i], q) \in {0, 1} /\ ssn[i][q] \in Nat /\ One(p, q) \in {0, 1}
             /\ (q = p <=> One(p, q) = 1)
  <2>1. Cardinality(Pos(todo[i], q)) = Cardinality(Pos(Tail(todo[i]), q)) + One(Head(todo[i]), q)
    BY <1>1, <1>2, PosTail
  <2>2. Cardinality(Pos(Tail(todo[i]), q)) \in Nat
    BY <1>3, PosFinite
  <2>3. One(p, q) \in {0, 1} /\ (q = p <=> One(p, q) = 1)
    BY DEF One
  <2> QED  BY <1>4, <2>1, <2>2, <2>3, HereBelow DEF IInv
<1>9. ASSUME NEW q \in Policy
      PROVE  /\ Here(cmdlist[i], todo[i], lfds[i], ssn[i], q) \in Nat
             /\ Here(cmdlist[i], todo[i], lfds[i], ssn[i], q) <= Total(q)
             /\ Total(q) \in Nat /\ refcnt[q] \in Int /\ lost[q] \in Nat
  BY HereBelow DEF IInv, Shape
<1>6. \A q \in Policy : Reached(i, q) /\ q # p => Reached(i, q)'
  <2> SUFFICES ASSUME NEW q \in Policy, Reached(i, q), q # p PROVE Reached(i, q)'
    OBVIOUS
  <2>1. CASE q \in lfds[i] \union failed[i]
    <3>1. lfds[i] \subseteq lfds'[i] /\ failed[i] \subseteq failed'[i]
      <4>1. /\ lfds' = [lfds EXCEPT ![i] = lfds[i] \union {p}] \/ lfds' = lfds
            /\ failed' = [failed EXCEPT ![i] = failed[i] \union {p}] \/ failed' = failed
        BY DEF _worker_add_policy
      <4>2. lfds \in [Index -> SUBSET Policy] /\ failed \in [Index -> SUBSET Policy]
        BY DEF IInv, Shape
      <4> HIDE DEF p
      <4> QED  BY <4>1, <4>2
    <3> QED  BY <2>1, <3>1 DEF Reached
  <2>2. CASE \E n \in DOMAIN cmdlist[i] : cmdlist[i][n] = q
    BY <1>1, <2>2 DEF Reached
  <2>3. CASE \E n \in DOMAIN todo[i] : todo[i][n] = q
    <3>1. Cardinality(Pos(todo[i], q)) > 0
      BY <1>2, <2>3, PosNone
    <3>2. Cardinality(Pos(todo'[i], q)) > 0
      BY <1>5, <2>3, <3>1
    <3>3. \E n \in DOMAIN todo'[i] : todo'[i][n] = q
      BY <1>3, <1>4, <3>2, PosNone
    <3> QED  BY <3>3 DEF Reached
  <2>4. CASE wpc[i] \in {"free", "clear", "exit"}
    BY <1>1, <2>4
  <2> QED  BY <2>1, <2>2, <2>3, <2>4 DEF Reached
<1> HIDE DEF p
<1>7. CASE /\ lfds' = [lfds EXCEPT ![i] = lfds[i] \union {p}]
           /\ UNCHANGED <<failed, refcnt, freed, data, lost>>
  <2>1. /\ lfds'[i] = lfds[i] \union {p} /\ \A x \in Index \ {i} : lfds'[x] = lfds[x]
    BY <1>7 DEF IInv, Shape
  <2>2. p \notin lfds[i]
    <3>1. Times(i, p) <= 1
      BY <1>3 DEF IInv, OnceInv
    <3>2. Cardinality(Pos(todo[i], p)) >= 1
      BY <1>3, <1>5
    <3>3. Has(lfds[i], p) = 0
      BY <1>3, <1>5, <3>1, <3>2 DEF Times
    <3> QED  BY <3>3 DEF Has
  <2>3. ASSUME NEW q \in Policy
        PROVE  /\ Ledger(i, q)' = Ledger(i, q)
               /\ Times(i, q)' <= Times(i, q)
               /\ Reached(i, q) => Reached(i, q)'
    <3>1. Has(lfds'[i], q) = Has(lfds[i], q) + One(p, q)
      BY <2>1, <2>2 DEF Has, One
    <3>2. Times(i, q)' = Times(i, q) /\ Times(i, q) \in Nat
      BY <1>1, <1>5, <3>1 DEF Times
    <3>3. Here(cmdlist'[i], todo'[i], lfds'[i], ssn'[i], q)
            = Here(cmdlist[i], todo[i], lfds[i], ssn[i], q)
      BY <1>1, <1>5, <3>1 DEF Here
    <3>4. Ledger(i, q)' = Ledger(i, q)
      BY <1>7, <3>3 DEF Ledger
    <3>5. Reached(i, q) => Reached(i, q)'
      BY <1>6, <2>1 DEF Reached
    <3> QED  BY <3>2, <3>4, <3>5
  <2> QED  BY <1>1, <1>2, <1>4, <1>7, <2>1, <2>3 DEF WorkStep, Stopped
<1>8. CASE /\ failed' = [failed EXCEPT ![i] = failed[i] \union {p}] /\ UNCHANGED lfds
           /\ \/ lost' = [lost EXCEPT ![p] = lost[p] + 1] /\ UNCHANGED <<refcnt, freed, data>>
              \/ policy_free(p, 1) /\ UNCHANGED lost
  <2>1. /\ failed'[i] = failed[i] \union {p} /\ \A x \in Index \ {i} : failed'[x] = failed[x]
    BY <1>8 DEF IInv, Shape
  <2>2. /\ freed' = freed /\ data' = data
        /\ \/ lost' = [lost EXCEPT ![p] = lost[p] + 1] /\ refcnt' = refcnt
           \/ refcnt' = [refcnt EXCEPT ![p] = refcnt[p] - 1] /\ lost' = lost
    <3>1. 1 <= Total(p) + InHand(p)
      <4>1. Here(cmdlist[i], todo[i], lfds[i], ssn[i], p) >= 1
        <5>1. /\ Cardinality(Pos(todo[i], p)) = Cardinality(Pos(todo'[i], p)) + 1
              /\ Cardinality(Pos(todo'[i], p)) \in Nat /\ Cardinality(Pos(cmdlist[i], p)) \in Nat
              /\ Has(lfds[i], p) \in {0, 1} /\ ssn[i][p] \in Nat
          BY <1>3, <1>5
        <5> QED  BY <5>1 DEF Here
      <4>3. InHand(p) \in {0, 1}
        BY DEF InHand
      <4> QED  BY <1>3, <1>9, <4>1, <4>3
    <3>2. CASE policy_free(p, 1) /\ UNCHANGED lost
      BY <1>1, <1>3, <3>1, <3>2, Unfreed
    <3> QED  BY <1>8, <3>2
  <2>3. ASSUME NEW q \in Policy
        PROVE  /\ Ledger(i, q)' = Ledger(i, q)
               /\ Times(i, q)' <= Times(i, q)
               /\ Reached(i, q) => Reached(i, q)'
    <3>1. Times(i, q)' <= Times(i, q)
      BY <1>1, <1>5, <1>8 DEF Times
    <3>2. Here(cmdlist'[i], todo'[i], lfds'[i], ssn'[i], q)
            = Here(cmdlist[i], todo[i], lfds[i], ssn[i], q) - One(p, q)
      BY <1>1, <1>5, <1>8 DEF Here
    <3>3. refcnt'[q] - lost'[q] = refcnt[q] - lost[q] - One(p, q)
      <4>1. refcnt \in [Policy -> Int] /\ lost \in [Policy -> Nat]
        BY DEF IInv, Shape
      <4>2. CASE lost' = [lost EXCEPT ![p] = lost[p] + 1] /\ refcnt' = refcnt
        BY <1>3, <4>1, <4>2 DEF One
      <4>3. CASE refcnt' = [refcnt EXCEPT ![p] = refcnt[p] - 1] /\ lost' = lost
        BY <1>3, <4>1, <4>3 DEF One
      <4> QED  BY <2>2, <4>2, <4>3
    <3>4. refcnt'[q] \in Int /\ lost'[q] \in Nat
      BY DEF Shape
    <3>5. Ledger(i, q)' = Ledger(i, q)
      <4> DEFINE h == Here(cmdlist[i], todo[i], lfds[i], ssn[i], q)
                 k == Here(cmdlist'[i], todo'[i], lfds'[i], ssn'[i], q)
      <4>1. h \in Nat /\ k = h - One(p, q) /\ refcnt[q] \in Int /\ lost[q] \in Nat
            /\ One(p, q) \in {0, 1}
        BY <1>5, <1>9, <3>2
      <4> HIDE DEF h, k
      <4>2. refcnt'[q] - lost'[q] - k = refcnt[q] - lost[q] - h
        BY <3>3, <3>4, <4>1
      <4> QED  BY <4>2 DEF Ledger, h, k
    <3>6. Reached(i, q) => Reached(i, q)'
      BY <1>6, <2>1 DEF Reached
    <3> QED  BY <3>1, <3>5, <3>6
  <2> QED  BY <1>1, <1>2, <1>4, <1>8, <2>1, <2>2, <2>3 DEF WorkStep, Stopped
<1> QED  BY <1>7, <1>8 DEF _worker_add_policy, p

\* A step that changes the number of sessions and the listeners, with the count.
LEMMA StepSession ==
  ASSUME IInv, Shape', NEW i \in Index, NEW p \in Policy, NEW n \in 0..MaxSsn, NEW l \in SUBSET Policy,
         ~Stopped(i), Running,
         UNCHANGED <<pc, at, freed, data, cmdlist, todo, failed, mem, lost>>,
         \A x \in Index \ {i} : wpc'[x] = wpc[x],
         wpc'[i] \in {"absent", "start", "loop"} => todo[i] = <<>>,
         mem[i] # "freed",
         l \subseteq lfds[i], \A q \in Policy \ {p} : q \in lfds[i] => q \in l,
         p \notin lfds[i] \/ p \in l \/ wpc'[i] = "free",
         wpc[i] \in {"free", "clear", "exit"} => wpc'[i] \in {"free", "clear", "exit"},
         lfds' = [lfds EXCEPT ![i] = l],
         ssn' = [ssn EXCEPT ![i] = [ssn[i] EXCEPT ![p] = n]],
         refcnt' = [refcnt EXCEPT ![p] = refcnt[p] + n - ssn[i][p] + Has(l, p) - Has(lfds[i], p)]
  PROVE  WorkStep(i)
<1>1. /\ lfds'[i] = l /\ ssn'[i] = [ssn[i] EXCEPT ![p] = n]
      /\ \A x \in Index \ {i} : lfds'[x] = lfds[x] /\ ssn'[x] = ssn[x]
  BY DEF IInv, Shape
<1>2. ASSUME NEW q \in Policy
      PROVE  /\ Ledger(i, q)' = Ledger(i, q)
             /\ Times(i, q)' <= Times(i, q)
             /\ Reached(i, q) => Reached(i, q)'
  <2>1. /\ Cardinality(Pos(cmdlist[i], q)) \in Nat /\ Cardinality(Pos(todo[i], q)) \in Nat
        /\ Has(lfds[i], q) \in {0, 1} /\ ssn[i][q] \in Nat
        /\ Has(l, q) \in {0, 1} /\ Has(l, q) <= Has(lfds[i], q) /\ n \in Nat
    <3>0. Has(l, q) \in {0, 1}
      BY HasCount
    <3>1. n \in Nat
      BY Constants
    <3>2. Has(l, q) <= Has(lfds[i], q)
      <4>1. q \in l => q \in lfds[i]
        OBVIOUS
      <4>2. CASE q \in l
        BY <4>1, <4>2 DEF Has
      <4>3. CASE q \notin l
        BY <4>3, HasCount DEF Has
      <4> QED  BY <4>2, <4>3
    <3> QED  BY <3>0, <3>1, <3>2, HereBelow DEF IInv
  <2>2. Times(i, q)' <= Times(i, q)
    BY <1>1, <2>1 DEF Times
  <2>3. /\ q = p => ssn'[i][q] = n
        /\ q # p => ssn'[i][q] = ssn[i][q] /\ Has(l, q) = Has(lfds[i], q)
    <3>1. ssn[i] \in [Policy -> 0..MaxSsn]
      BY DEF IInv, Shape
    <3> QED  BY <1>1, <3>1 DEF Has
  <2>4. refcnt[q] \in Int /\ lost[q] \in Nat /\ refcnt \in [Policy -> Int]
    BY DEF IInv, Shape
  <2> DEFINE k == refcnt[p] + n - ssn[i][p] + Has(l, p) - Has(lfds[i], p)
  <2>5. (q = p => refcnt'[q] = k) /\ (q # p => refcnt'[q] = refcnt[q])
    <3> HIDE DEF k
    <3>1. refcnt' = [refcnt EXCEPT ![p] = k]
      BY DEF k
    <3> QED  BY <2>4, <3>1
  <2>6. CASE q = p
    <3>1. Here(cmdlist'[i], todo'[i], lfds'[i], ssn'[i], q)
            = Here(cmdlist[i], todo[i], lfds[i], ssn[i], q) + n - ssn[i][q] + Has(l, q) - Has(lfds[i], q)
      BY <1>1, <2>1, <2>3, <2>6 DEF Here
    <3>2. Here(cmdlist[i], todo[i], lfds[i], ssn[i], q) \in Nat
      BY LedgerInt DEF IInv
    <3>3. refcnt'[q] = refcnt[q] + n - ssn[i][q] + Has(l, q) - Has(lfds[i], q)
      BY <2>5, <2>6
    <3>4. refcnt'[q] - lost[q] - Here(cmdlist'[i], todo'[i], lfds'[i], ssn'[i], q)
            = refcnt[q] - lost[q] - Here(cmdlist[i], todo[i], lfds[i], ssn[i], q)
      <4> DEFINE h == Here(cmdlist[i], todo[i], lfds[i], ssn[i], q)
                 k1 == Here(cmdlist'[i], todo'[i], lfds'[i], ssn'[i], q)
                 d == n - ssn[i][q] + Has(l, q) - Has(lfds[i], q)
      <4>1. h \in Nat /\ d \in Int
        BY <2>1, <3>2
      <4>2. k1 = h + d
        BY <2>1, <3>1, <3>2
      <4>3. refcnt'[q] = refcnt[q] + d
        BY <2>1, <2>4, <3>3
      <4> HIDE DEF h, k1, d
      <4>4. refcnt'[q] - lost[q] - k1 = refcnt[q] - lost[q] - h
        BY <2>4, <4>1, <4>2, <4>3
      <4> QED  BY <4>4 DEF h, k1
    <3>5. Ledger(i, q)' = Ledger(i, q)
      BY <3>4 DEF Ledger
    <3>6. Reached(i, q) => Reached(i, q)'
      BY <1>1, <2>6 DEF Reached
    <3> QED  BY <2>2, <3>5, <3>6
  <2>7. CASE q # p
    <3>1. Here(cmdlist'[i], todo'[i], lfds'[i], ssn'[i], q)
            = Here(cmdlist[i], todo[i], lfds[i], ssn[i], q)
      BY <1>1, <2>3, <2>7 DEF Here
    <3>2. Ledger(i, q)' = Ledger(i, q)
      BY <2>5, <2>7, <3>1 DEF Ledger
    <3>3. Reached(i, q) => Reached(i, q)'
      BY <1>1, <2>7 DEF Reached
    <3> QED  BY <2>2, <3>2, <3>3
  <2> QED  BY <2>6, <2>7
<1> QED  BY <1>1, <1>2 DEF WorkStep


LEMMA StepAccept ==
  ASSUME IInv, NEW i \in Index, _worker_accept(i), Shape'
  PROVE  WorkStep(i)
<1>1. PICK p \in lfds[i] : /\ ssn[i][p] < MaxSsn /\ policy_clone(p)
                           /\ ssn' = [ssn EXCEPT ![i][p] = @ + 1]
  BY DEF _worker_accept
<1>2. p \in Policy /\ lfds[i] \in SUBSET Policy
  BY DEF IInv, Shape
<1>3. /\ wpc[i] = "run" /\ wpc'[i] = "loop" /\ Running /\ todo[i] = <<>>
      /\ \A x \in Index \ {i} : wpc'[x] = wpc[x]
      /\ UNCHANGED <<pc, at, freed, data, cmdlist, todo, lfds, failed, mem, lost>>
  BY StepType DEF _worker_accept, main, IInv
<1>4. mem[i] # "freed"
  BY <1>3 DEF IInv, WorkInv
<1> DEFINE n == ssn[i][p] + 1
<1>5. n \in 0..MaxSsn /\ ssn[i][p] \in Nat
  BY <1>1, <1>2, HereBelow, Constants DEF IInv
<1>6. refcnt[p] + 1 = refcnt[p] + n - ssn[i][p] + Has(lfds[i], p) - Has(lfds[i], p)
  <2>1. refcnt[p] \in Int /\ Has(lfds[i], p) \in {0, 1}
    BY <1>2, HasCount DEF IInv, Shape
  <2> QED  BY <1>5, <2>1
<1>7. refcnt' = [refcnt EXCEPT ![p] = refcnt[p] + n - ssn[i][p] + Has(lfds[i], p) - Has(lfds[i], p)]
  BY <1>1, <1>6, Zenon DEF policy_clone
<1>8. /\ ssn' = [ssn EXCEPT ![i] = [ssn[i] EXCEPT ![p] = n]]
      /\ lfds' = [lfds EXCEPT ![i] = lfds[i]]
  BY <1>1, <1>3 DEF IInv, Shape
<1> HIDE DEF n
<1>9. ~Stopped(i)
  BY <1>3 DEF Stopped
<1> QED  BY <1>1, <1>2, <1>3, <1>4, <1>5, <1>7, <1>8, <1>9, StepSession

LEMMA StepDelete ==
  ASSUME IInv, NEW i \in Index, _worker_delete(i), Shape'
  PROVE  WorkStep(i)
<1>1. PICK p \in Policy : /\ ssn[i][p] > 0 /\ policy_free(p, 1)
                          /\ ssn' = [ssn EXCEPT ![i][p] = @ - 1]
  BY DEF _worker_delete
<1>2. lfds[i] \in SUBSET Policy
  BY DEF IInv, Shape
<1>3. /\ wpc[i] = "run" /\ wpc'[i] = "loop" /\ Running /\ todo[i] = <<>>
      /\ \A x \in Index \ {i} : wpc'[x] = wpc[x]
      /\ UNCHANGED <<pc, at, cmdlist, todo, lfds, failed, mem, lost>>
  BY StepType DEF _worker_delete, main, IInv
<1>4. mem[i] # "freed"
  BY <1>3 DEF IInv, WorkInv
<1> DEFINE n == ssn[i][p] - 1
<1>5. n \in 0..MaxSsn /\ ssn[i][p] \in Nat
  BY <1>1, HereBelow, Constants DEF IInv
<1>6. 1 <= Total(p) + InHand(p)
  <2>1. /\ Here(cmdlist[i], todo[i], lfds[i], ssn[i], p) = Times(i, p) + ssn[i][p]
        /\ Times(i, p) \in Nat /\ Here(cmdlist[i], todo[i], lfds[i], ssn[i], p) <= Total(p)
        /\ Total(p) \in Nat
    BY HereBelow DEF IInv
  <2>2. InHand(p) \in {0, 1}
    BY DEF InHand
  <2> QED  BY <1>1, <1>5, <2>1, <2>2
<1>7. /\ freed' = freed /\ data' = data
      /\ refcnt' = [refcnt EXCEPT ![p] = refcnt[p] - 1]
  BY <1>1, <1>3, <1>6, Unfreed
<1>8. refcnt[p] - 1 = refcnt[p] + n - ssn[i][p] + Has(lfds[i], p) - Has(lfds[i], p)
  <2>1. refcnt[p] \in Int /\ Has(lfds[i], p) \in {0, 1}
    BY HasCount DEF IInv, Shape
  <2> QED  BY <1>5, <2>1
<1>9. refcnt' = [refcnt EXCEPT ![p] = refcnt[p] + n - ssn[i][p] + Has(lfds[i], p) - Has(lfds[i], p)]
  BY <1>7, <1>8, Zenon
<1>10. /\ ssn' = [ssn EXCEPT ![i] = [ssn[i] EXCEPT ![p] = n]]
       /\ lfds' = [lfds EXCEPT ![i] = lfds[i]]
  BY <1>1, <1>3 DEF IInv, Shape
<1> HIDE DEF n
<1>11. ~Stopped(i) /\ (p \notin lfds[i] \/ p \in lfds[i] \/ wpc'[i] = "free")
  BY <1>3 DEF Stopped
<1> QED  BY <1>2, <1>3, <1>4, <1>5, <1>7, <1>9, <1>10, <1>11, StepSession

LEMMA StepFreeLfd ==
  ASSUME IInv, NEW i \in Index, _worker_free_lfd(i), Shape'
  PROVE  WorkStep(i)
<1>1. PICK p \in lfds[i] : /\ lfds' = [lfds EXCEPT ![i] = @ \ {p}]
                           /\ ssn' = [ssn EXCEPT ![i][p] = 0]
                           /\ policy_free(p, ssn[i][p] + 1)
  BY DEF _worker_free_lfd
<1>2. p \in Policy /\ lfds[i] \in SUBSET Policy
  BY DEF IInv, Shape
<1>3. /\ wpc[i] = "free" /\ wpc'[i] = "free" /\ Running
      /\ \A x \in Index \ {i} : wpc'[x] = wpc[x]
      /\ UNCHANGED <<pc, at, cmdlist, todo, failed, mem, lost>>
  BY StepType DEF _worker_free_lfd, main, IInv
<1>4. mem[i] # "freed"
  BY <1>3 DEF IInv, WorkInv
<1> DEFINE l == lfds[i] \ {p}
<1>5. l \in SUBSET Policy /\ 0 \in 0..MaxSsn /\ ssn[i][p] \in Nat
  BY <1>2, HereBelow, Constants DEF IInv
<1>6. Has(l, p) = 0 /\ Has(lfds[i], p) = 1
  BY DEF Has
<1>7. ssn[i][p] + 1 <= Total(p) + InHand(p) /\ ssn[i][p] + 1 \in Nat
  <2>1. /\ Here(cmdlist[i], todo[i], lfds[i], ssn[i], p) <= Total(p)
        /\ Here(cmdlist[i], todo[i], lfds[i], ssn[i], p) \in Nat /\ Total(p) \in Nat
    BY <1>2, HereBelow DEF IInv
  <2>2. InHand(p) \in {0, 1}
    BY DEF InHand
  <2>3. Cardinality(Pos(cmdlist[i], p)) \in Nat /\ Cardinality(Pos(todo[i], p)) \in Nat
    BY <1>2, HereBelow DEF IInv
  <2> HIDE DEF l
  <2>4. Here(cmdlist[i], todo[i], lfds[i], ssn[i], p) >= ssn[i][p] + 1
    BY <1>5, <1>6, <2>3 DEF Here
  <2> QED  BY <1>5, <2>1, <2>2, <2>4
<1>8. /\ freed' = freed /\ data' = data
      /\ refcnt' = [refcnt EXCEPT ![p] = refcnt[p] - (ssn[i][p] + 1)]
  BY <1>1, <1>2, <1>3, <1>7, Unfreed
<1>9. refcnt[p] - (ssn[i][p] + 1) = refcnt[p] + 0 - ssn[i][p] + Has(l, p) - Has(lfds[i], p)
  <2>1. refcnt[p] \in Int
    BY <1>2 DEF IInv, Shape
  <2> HIDE DEF l
  <2> QED  BY <1>5, <1>6, <2>1
<1>10. refcnt' = [refcnt EXCEPT ![p] = refcnt[p] + 0 - ssn[i][p] + Has(l, p) - Has(lfds[i], p)]
  <2> HIDE DEF l
  <2> QED  BY <1>8, <1>9, Zenon
<1>11. /\ ssn' = [ssn EXCEPT ![i] = [ssn[i] EXCEPT ![p] = 0]]
       /\ lfds' = [lfds EXCEPT ![i] = l]
  BY <1>1 DEF IInv, Shape
<1>12. l \subseteq lfds[i] /\ \A q \in Policy \ {p} : q \in lfds[i] => q \in l
  OBVIOUS
<1> HIDE DEF l
<1>13. ~Stopped(i)
  BY <1>3 DEF Stopped
<1> QED  BY <1>2, <1>3, <1>4, <1>5, <1>8, <1>10, <1>11, <1>12, <1>13, StepSession

\* The commands that were never taken are lost.
LEMMA StepFreeMem ==
  ASSUME IInv, NEW i \in Index, _worker_free_mem(i), Shape'
  PROVE  WorkStep(i)
<1>1. /\ wpc[i] = "clear" /\ wpc'[i] = "exit" /\ Running
      /\ \A x \in Index \ {i} : wpc'[x] = wpc[x]
      /\ mem' = [mem EXCEPT ![i] = "freed"] /\ cmdlist' = [cmdlist EXCEPT ![i] = <<>>]
      /\ UNCHANGED <<pc, at, freed, data, todo, lfds, failed, ssn, refcnt>>
  BY StepType DEF _worker_free_mem, main, IInv
<1>2. /\ cmdlist'[i] = <<>> /\ \A x \in Index \ {i} : cmdlist'[x] = cmdlist[x] /\ mem'[x] = mem[x]
  BY <1>1 DEF IInv, Shape
<1>3. ASSUME NEW p \in Policy
      PROVE  /\ Ledger(i, p)' = Ledger(i, p)
             /\ Times(i, p)' <= Times(i, p)
             /\ Reached(i, p) => Reached(i, p)'
  <2>1. lost'[p] = lost[p] + Cardinality(Pos(cmdlist[i], p))
    BY DEF _worker_free_mem, Pos
  <2>2. /\ Cardinality(Pos(cmdlist[i], p)) \in Nat /\ Cardinality(Pos(todo[i], p)) \in Nat
        /\ Has(lfds[i], p) \in {0, 1} /\ ssn[i][p] \in Nat
    BY HereBelow DEF IInv
  <2>3. Cardinality(Pos(cmdlist'[i], p)) = 0
    BY <1>2, PosEmpty
  <2>4. Times(i, p)' <= Times(i, p)
    BY <1>1, <2>2, <2>3 DEF Times
  <2>5. refcnt[p] \in Int /\ lost[p] \in Nat
    BY DEF IInv, Shape
  <2>6. Ledger(i, p)' = Ledger(i, p)
    BY <1>1, <2>1, <2>2, <2>3, <2>5 DEF Ledger, Here
  <2>7. Reached(i, p)'
    BY <1>1 DEF Reached
  <2> QED  BY <2>4, <2>6, <2>7
<1> QED  BY <1>1, <1>2, <1>3 DEF WorkStep, Stopped

LEMMA WorkerSteps == ASSUME IInv, NEW i \in Index, Worker(i), Shape' PROVE WorkStep(i)
  BY StepInit, StepLoop, StepTake, StepAdd, StepAccept, StepDelete, StepFreeLfd, StepFreeMem DEF Worker


\* A step of a worker keeps the invariant.
LEMMA WorkStepKeeps ==
  ASSUME IInv, NEW i \in Index, WorkStep(i), Shape'
  PROVE  IInv'
<1>0. /\ Shape /\ MainInv /\ WorkInv /\ OnceInv /\ SentInv /\ RefInv
      /\ pc' = pc /\ at' = at /\ freed' = freed /\ data' = data /\ pc \notin {"done", "aborted"}
      /\ \A x \in Index \ {i} : /\ wpc'[x] = wpc[x] /\ mem'[x] = mem[x] /\ cmdlist'[x] = cmdlist[x]
                                /\ todo'[x] = todo[x] /\ lfds'[x] = lfds[x]
                                /\ failed'[x] = failed[x] /\ ssn'[x] = ssn[x]
  BY DEF IInv, WorkStep, Running
<1>1. MainInv'
  <2>1. wpc[i] \notin {"absent", "exit"}
    BY DEF WorkStep, Stopped
  <2> QED  BY <1>0, <2>1 DEF MainInv, Stopped
<1>2. WorkInv'
  BY <1>0 DEF WorkInv, WorkStep
<1>3. ASSUME NEW x \in Index, NEW p \in Policy
      PROVE  /\ Times(x, p)' \in Nat /\ Times(x, p) \in Nat
             /\ Times(x, p)' <= Times(x, p) /\ (Reached(x, p) => Reached(x, p)')
             /\ Sent(x, p)' = Sent(x, p)
  <2>1. Times(x, p) \in Nat
    BY <1>0, HereBelow
  <2>2. Times(x, p)' \in Nat
    <3>1. /\ Cardinality(Pos(cmdlist'[x], p)) \in Nat /\ Cardinality(Pos(todo'[x], p)) \in Nat
          /\ Has(lfds'[x], p) \in {0, 1}
      BY PosFinite, HasCount DEF Shape
    <3> QED  BY <3>1 DEF Times
  <2>3. Times(x, p)' <= Times(x, p)
    <3>1. CASE x = i
      BY <3>1 DEF WorkStep
    <3>2. CASE x # i
      BY <1>0, <2>1, <3>2 DEF Times
    <3> QED  BY <3>1, <3>2
  <2>4. Reached(x, p) => Reached(x, p)'
    <3>1. CASE x = i
      BY <3>1 DEF WorkStep
    <3>2. CASE x # i
      BY <1>0, <3>2 DEF Reached
    <3> QED  BY <3>1, <3>2
  <2>5. Sent(x, p)' = Sent(x, p)
    BY <1>0 DEF Sent
  <2> QED  BY <2>1, <2>2, <2>3, <2>4, <2>5
<1>4. OnceInv'
  <2> SUFFICES ASSUME NEW x \in Index, NEW p \in Policy
               PROVE  Times(x, p)' <= 1 /\ (~Sent(x, p)' => Times(x, p)' = 0)
    BY DEF OnceInv
  <2>1. Times(x, p) <= 1 /\ (~Sent(x, p) => Times(x, p) = 0)
    BY <1>0 DEF OnceInv
  <2> QED  BY <1>3, <2>1
<1>5. SentInv'
  BY <1>0, <1>3 DEF SentInv
<1>6. RefInv'
  <2>1. ASSUME NEW p \in Policy
        PROVE  refcnt'[p] = Total(p)' + InHand(p)' + lost'[p] - Own'
    <3>1. /\ Total(p) \in Nat /\ Total(p)' \in Nat
          /\ Here(cmdlist[i], todo[i], lfds[i], ssn[i], p) \in Nat
          /\ Here(cmdlist'[i], todo'[i], lfds'[i], ssn'[i], p) \in Nat
          /\ Here(cmdlist[i], todo[i], lfds[i], ssn[i], p) <= Total(p)
          /\ Total(p)' = Total(p) + Here(cmdlist'[i], todo'[i], lfds'[i], ssn'[i], p)
                                  - Here(cmdlist[i], todo[i], lfds[i], ssn[i], p)
      BY <1>0, Moved
    <3>2. /\ InHand(p)' = InHand(p) /\ InHand(p) \in {0, 1} /\ Own' = 0
          /\ refcnt[p] \in Int /\ refcnt'[p] \in Int /\ lost[p] \in Nat /\ lost'[p] \in Nat
      BY <1>0 DEF InHand, Own, Shape
    <3>3. refcnt[p] = Total(p) + InHand(p) + lost[p]
      BY RefCount DEF WorkStep
    <3>4. Ledger(i, p)' = Ledger(i, p)
      BY DEF WorkStep
    <3> DEFINE h == Here(cmdlist[i], todo[i], lfds[i], ssn[i], p)
               k == Here(cmdlist'[i], todo'[i], lfds'[i], ssn'[i], p)
    <3>5. refcnt'[p] - lost'[p] - k = refcnt[p] - lost[p] - h
      BY <3>4 DEF Ledger
    <3>6. h \in Nat /\ k \in Nat /\ Total(p)' = Total(p) + k - h
      BY <3>1
    <3> HIDE DEF h, k
    <3> QED  BY <3>1, <3>2, <3>3, <3>5, <3>6
  <2>2. freed' = {} /\ pc' # "aborted"
    BY <1>0 DEF MainInv
  <2> QED  BY <2>1, <2>2 DEF RefInv
<1> QED  BY <1>1, <1>2, <1>4, <1>5, <1>6 DEF IInv

-----------------------------------------------------------------------------
(* What a step of the main thread does.                                    *)

LEMMA TotalQuiet ==
  ASSUME UNCHANGED <<cmdlist, todo, lfds, ssn>>, NEW p
  PROVE  Total(p)' = Total(p)
  BY DEF Total

\* A step that leaves the places alone, and the pairs that are done.
LEMMA MainQuiet ==
  ASSUME IInv, Shape', MainInv', UNCHANGED <<cmdlist, todo, lfds, failed, ssn, mem>>,
         \A i \in Index : wpc'[i] = wpc[i] \/ (wpc[i] = "absent" /\ wpc'[i] = "start"),
         \A i \in Index, p \in Policy : Sent(i, p) => Sent(i, p)',
         pc' \in Adding \cup {"unlock", "sleep"} =>
           (pc \in Adding \cup {"unlock", "sleep"} \/ pc = "create")
             /\ \A i \in Index, p \in Policy : Sent(i, p)' => Sent(i, p)
  PROVE  WorkInv' /\ OnceInv' /\ SentInv'
<1>1. WorkInv'
  BY DEF IInv, WorkInv
<1>2. OnceInv'
  <2> SUFFICES ASSUME NEW i \in Index, NEW p \in Policy
               PROVE  Times(i, p)' <= 1 /\ (~Sent(i, p)' => Times(i, p)' = 0)
    BY DEF OnceInv
  <2>1. Times(i, p) <= 1 /\ (~Sent(i, p) => Times(i, p) = 0) /\ Times(i, p)' = Times(i, p)
    BY DEF IInv, OnceInv, Times
  <2> QED  BY <2>1
<1>3. SentInv'
  <2> SUFFICES ASSUME pc' \in Adding \cup {"unlock", "sleep"}, NEW i \in Index, NEW p \in Policy,
                      Sent(i, p)'
               PROVE  Reached(i, p)'
    BY DEF SentInv
  <2>1. Sent(i, p) /\ pc # "create"
    BY DEF Sent
  <2>2. Reached(i, p)
    BY <2>1 DEF IInv, SentInv
  <2> QED  BY <2>2 DEF Reached
<1> QED  BY <1>1, <1>2, <1>3

\* A step that leaves the references alone, and what is in the hand.
LEMMA RefQuiet ==
  ASSUME IInv, Shape', UNCHANGED <<cmdlist, todo, lfds, ssn, refcnt, lost, freed>>,
         pc \notin {"done", "aborted"}, pc' # "done",
         pc' # "aborted" => \A p \in Policy : InHand(p)' = InHand(p)
  PROVE  RefInv'
<1>1. /\ \A p \in Policy : Total(p)' = Total(p)
  BY TotalQuiet
<1>2. Own = 0 /\ Own' = 0 /\ freed = {}
  BY DEF Own, IInv, MainInv
<1>3. \A p \in Policy : refcnt[p] = Total(p) + InHand(p) + lost[p] - Own
  BY DEF IInv, RefInv
<1>4. \A p \in Policy : refcnt[p] >= 0
  <2> TAKE p \in Policy
  <2>1. Running
    BY DEF Running
  <2> QED  BY <2>1, RefCount
<1> QED  BY <1>1, <1>2, <1>3, <1>4 DEF RefInv


\* The invariant after a step that is quiet in both ways.
LEMMA QuietKeeps ==
  ASSUME IInv, Shape', MainInv', UNCHANGED <<cmdlist, todo, lfds, failed, ssn, mem, refcnt, lost, freed>>,
         \A i \in Index : wpc'[i] = wpc[i] \/ (wpc[i] = "absent" /\ wpc'[i] = "start"),
         \A i \in Index, p \in Policy : Sent(i, p) => Sent(i, p)',
         pc' \in Adding \cup {"unlock", "sleep"} =>
           (pc \in Adding \cup {"unlock", "sleep"} \/ pc = "create")
             /\ \A i \in Index, p \in Policy : Sent(i, p)' => Sent(i, p),
         pc \notin {"done", "aborted"}, pc' # "done",
         pc' # "aborted" => \A p \in Policy : InHand(p)' = InHand(p)
  PROVE  IInv'
<1>1. WorkInv' /\ OnceInv' /\ SentInv'
  BY MainQuiet
<1>2. RefInv'
  BY RefQuiet
<1> QED  BY <1>1, <1>2 DEF IInv

LEMMA MainInitData == ASSUME IInv, _py_init_data, Shape' PROVE IInv'
<1>1. /\ pc = "init" /\ pc' \in {"create", "release"} /\ (pc' = "create" => data' = Policy)
      /\ UNCHANGED <<at, cmdlist, todo, lfds, failed, ssn, mem, refcnt, lost, freed, wpc>>
  BY DEF _py_init_data, Goto, workers
<1>2. MainInv'
  BY <1>1, Constants DEF IInv, MainInv, Stopped
<1>3. \A i \in Index, p \in Policy : ~Sent(i, p)
  BY <1>1 DEF Sent
<1>4. \A p \in Policy : InHand(p)' = InHand(p)
  BY <1>1 DEF InHand
<1> QED  BY <1>1, <1>2, <1>3, <1>4, QuietKeeps DEF Adding

LEMMA MainCreate == ASSUME IInv, thread_create, Shape' PROVE IInv'
<1>1. /\ pc = "create" /\ pc' \in {"create", "clone"}
      /\ UNCHANGED <<cmdlist, todo, lfds, failed, ssn, mem, refcnt, lost, freed, data>>
      /\ wpc' = [wpc EXCEPT ![at[2]] = "start"] \/ wpc' = wpc
      /\ at[2] < NWorker => at' = <<1, at[2] + 1>> /\ pc' = "create"
      /\ ~(at[2] < NWorker) => at' = <<1, 1>> /\ pc' = "clone"
  BY DEF thread_create, Goto, pols
<1>2. at[2] \in Index /\ wpc[at[2]] = "absent"
  <2>1. at[2] \in Index
    BY AtType DEF IInv
  <2>2. at[2] \in Nat
    BY <2>1, Constants
  <2>3. at[2] >= at[2]
    BY <2>2
  <2> QED  BY <1>1, <2>1, <2>3 DEF IInv, MainInv
<1>3. \A i \in Index : wpc'[i] = wpc[i] \/ (wpc[i] = "absent" /\ wpc'[i] = "start" /\ i = at[2])
  BY <1>1, <1>2 DEF IInv, Shape
<1>4. MainInv'
  <2>1. data' = Policy /\ freed' = {} /\ pc' \notin {"init", "sleep", "join", "free", "release", "done"}
    BY <1>1 DEF IInv, MainInv
  <2>2. pc' = "create" => \A i \in Index : i >= at'[2] => wpc'[i] = "absent"
    <3> SUFFICES ASSUME pc' = "create", NEW i \in Index, i >= at'[2] PROVE wpc'[i] = "absent"
      OBVIOUS
    <3>1. at'[2] = at[2] + 1 /\ at[2] \in Nat /\ i \in Nat
      <4>1. at' = <<1, at[2] + 1>>
        BY <1>1
      <4> QED  BY <1>2, <4>1, Constants
    <3>2. i > at[2]
      BY <3>1
    <3>3. wpc[i] = "absent"
      BY <1>1, <3>1, <3>2 DEF IInv, MainInv
    <3> QED  BY <1>3, <3>1, <3>2, <3>3
  <2> QED  BY <2>1, <2>2 DEF MainInv
<1>5. \A i \in Index, p \in Policy : ~Sent(i, p) /\ ~Sent(i, p)'
  <2> TAKE i \in Index, p \in Policy
  <2>1. i >= 1 /\ p >= 1 /\ i \in Nat /\ p \in Nat
    BY Constants
  <2>2. CASE pc' = "create"
    BY <1>1, <2>2 DEF Sent
  <2>3. CASE pc' = "clone"
    <3>1. at'[1] = 1 /\ at'[2] = 1
      BY <1>1, <2>3
    <3> QED  BY <1>1, <2>1, <2>3, <3>1 DEF Sent, Adding
  <2> QED  BY <1>1, <2>2, <2>3
<1>6. \A p \in Policy : InHand(p)' = InHand(p)
  BY <1>1 DEF InHand
<1> QED  BY <1>1, <1>3, <1>4, <1>5, <1>6, QuietKeeps

\* A reference is taken into the hand, or given up from it.
LEMMA HandKeeps ==
  ASSUME IInv, Shape', MainInv', UNCHANGED <<workers, lost, freed, data>>,
         NEW p \in Policy, NEW d \in {1, -1},
         refcnt' = [refcnt EXCEPT ![p] = refcnt[p] + d],
         pc \in Adding, pc' \in {"get", "join"},
         pc' = "get" => at' = at,
         InHand(p)' = InHand(p) + d, \A q \in Policy \ {p} : InHand(q)' = InHand(q)
  PROVE  IInv'
<1>1. UNCHANGED <<cmdlist, todo, lfds, failed, ssn, mem, wpc>>
  BY DEF workers
<1>2. \A i \in Index, q \in Policy : /\ Sent(i, q) => Sent(i, q)'
                                     /\ pc' = "get" => Sent(i, q)' = Sent(i, q)
  BY DEF Sent, Adding
<1>3. WorkInv' /\ OnceInv' /\ SentInv'
  BY <1>1, <1>2, MainQuiet DEF Adding
<1>4. RefInv'
  <2>1. Running /\ pc' \notin {"aborted", "done"} /\ Own' = 0
    BY DEF Running, Adding, Own
  <2>2. ASSUME NEW q \in Policy PROVE refcnt'[q] = Total(q)' + InHand(q)' + lost'[q] - Own'
    <3>1. /\ refcnt[q] = Total(q) + InHand(q) + lost[q]
          /\ Total(q) \in Nat /\ InHand(q) \in {0, 1} /\ lost[q] \in Nat /\ refcnt[q] \in Int
      BY <2>1, RefCount
    <3>2. Total(q)' = Total(q)
      BY <1>1, TotalQuiet
    <3>3. refcnt \in [Policy -> Int]
      BY DEF IInv, Shape
    <3>4. CASE q = p
      <4>1. refcnt'[q] = refcnt[q] + d /\ InHand(q)' = InHand(q) + d
        BY <3>3, <3>4
      <4> QED  BY <2>1, <3>1, <3>2, <4>1
    <3>5. CASE q # p
      <4>1. refcnt'[q] = refcnt[q] /\ InHand(q)' = InHand(q)
        BY <3>3, <3>5
      <4> QED  BY <2>1, <3>1, <3>2, <4>1
    <3> QED  BY <3>4, <3>5
  <2>3. freed' = {}
    BY <2>1 DEF IInv, MainInv, Running
  <2> QED  BY <2>1, <2>2, <2>3 DEF RefInv
<1> QED  BY <1>3, <1>4 DEF IInv

LEMMA JoinBegins ==
  ASSUME IInv, pc \in Adding \cup {"sleep"}, pc' = "join", at' = <<1, 1>>, UNCHANGED <<freed, data>>
  PROVE  MainInv'
<1>1. data = Policy /\ freed = {}
  BY DEF IInv, MainInv, Adding
<1>2. \A i \in Index : ~(i < at'[2])
  BY Constants
<1> QED  BY <1>1, <1>2 DEF MainInv

LEMMA MainClone == ASSUME IInv, _py_loop_clone, Shape' PROVE IInv'
<1>1. pc = "clone" /\ UNCHANGED <<workers, freed, data, lost>>
  BY DEF _py_loop_clone
<1>2. CASE policy_clone(at[1]) /\ Goto("get") /\ UNCHANGED at
  <2>1. at[1] \in Policy /\ refcnt' = [refcnt EXCEPT ![at[1]] = refcnt[at[1]] + 1] /\ pc' = "get"
    BY <1>2, AtType DEF policy_clone, Goto, IInv
  <2>2. MainInv'
    BY <1>1, <1>2, <2>1 DEF IInv, MainInv
  <2>3. InHand(at[1])' = InHand(at[1]) + 1 /\ \A q \in Policy \ {at[1]} : InHand(q)' = InHand(q)
    BY <1>1, <1>2, <2>1 DEF InHand
  <2>4. pc \in Adding /\ 1 \in {1, -1}
    BY <1>1 DEF Adding
  <2> QED  BY <1>1, <1>2, <2>1, <2>2, <2>3, <2>4, HandKeeps
<1>3. CASE Goto("join") /\ at' = <<1, 1>> /\ UNCHANGED refcnt
  <2>1. MainInv'
    BY <1>1, <1>3, JoinBegins DEF Goto, Adding
  <2>2. \A p \in Policy : InHand(p)' = InHand(p)
    BY <1>1, <1>3 DEF InHand, Goto
  <2>3. \A i \in Index, p \in Policy : Sent(i, p)'
    BY <1>3 DEF Sent, Goto, Adding
  <2> QED  BY <1>1, <1>3, <2>1, <2>2, <2>3, QuietKeeps DEF Goto, Adding, workers
<1> QED  BY <1>2, <1>3 DEF _py_loop_clone

LEMMA MainGet == ASSUME IInv, worker_add_cmd_get, Shape' PROVE IInv'
<1>1. pc = "get" /\ UNCHANGED <<workers, lost>>
  BY DEF worker_add_cmd_get
<1>2. CASE priv[at[2]]
  <2>1. pc' = "assert" /\ UNCHANGED <<at, refcnt, freed, data>>
    BY <1>2 DEF worker_add_cmd_get, Goto
  <2>2. MainInv'
    BY <1>1, <2>1 DEF IInv, MainInv
  <2>3. \A p \in Policy : InHand(p)' = InHand(p)
    BY <1>1, <2>1 DEF InHand
  <2>4. \A i \in Index, p \in Policy : Sent(i, p)' = Sent(i, p)
    BY <1>1, <2>1 DEF Sent, Adding
  <2> QED  BY <1>1, <2>1, <2>2, <2>3, <2>4, QuietKeeps DEF Adding, workers
<1>3. CASE ~priv[at[2]]
  <2>0. PICK p \in Policy : p = at[1]
    BY AtType DEF IInv
  <2>1. policy_free(p, 1) /\ pc' = "join" /\ at' = <<1, 1>>
    BY <1>3, <2>0 DEF worker_add_cmd_get, Goto
  <2>2. InHand(p) = 1 /\ Running
    BY <1>1, <2>0 DEF InHand, Running
  <2>3. 1 <= Total(p) + InHand(p)
    BY <2>2, RefCount
  <2>4. /\ freed' = freed /\ data' = data
        /\ refcnt' = [refcnt EXCEPT ![p] = refcnt[p] - 1]
    BY <2>1, <2>2, <2>3, Unfreed
  <2> DEFINE d == -1
  <2>5. refcnt[p] - 1 = refcnt[p] + d
    BY DEF IInv, Shape
  <2>6. refcnt' = [refcnt EXCEPT ![p] = refcnt[p] + d]
    BY <2>4, <2>5
  <2>7. MainInv'
    BY <1>1, <2>1, <2>4, JoinBegins DEF Adding
  <2>8. InHand(p)' = InHand(p) + d /\ \A q \in Policy \ {p} : InHand(q)' = InHand(q)
    BY <1>1, <2>0, <2>1, <2>2 DEF InHand
  <2>9. pc \in Adding /\ d \in {1, -1}
    BY <1>1 DEF Adding
  <2> HIDE DEF d
  <2> QED  BY <1>1, <2>1, <2>4, <2>6, <2>7, <2>8, <2>9, HandKeeps
<1> QED  BY <1>2, <1>3


LEMMA MainLock == ASSUME IInv, _worker_lock_assert \/ _worker_lock, Shape' PROVE IInv'
<1>1. /\ pc \in {"assert", "lock"} /\ pc' \in {"lock", "append", "aborted"}
      /\ UNCHANGED <<at, cmdlist, todo, lfds, failed, ssn, mem, wpc, refcnt, freed, data, lost>>
  BY DEF _worker_lock_assert, _worker_lock, Goto, workers, pols
<1>2. MainInv'
  BY <1>1 DEF IInv, MainInv
<1>3. pc' # "aborted" => \A p \in Policy : InHand(p)' = InHand(p)
  BY <1>1 DEF InHand
<1>4. \A i \in Index, p \in Policy : /\ Sent(i, p) => Sent(i, p)'
                                     /\ pc' # "aborted" => Sent(i, p)' = Sent(i, p)
  BY <1>1 DEF Sent, Adding
<1> QED  BY <1>1, <1>2, <1>3, <1>4, QuietKeeps DEF Adding

\* The command is in the list of the worker.
LEMMA MainAppended ==
  ASSUME IInv, Shape', pc = "append", pc' = "unlock", at' = at, NEW p \in Policy, NEW i \in Index,
         p = at[1], i = at[2], cmdlist' = [cmdlist EXCEPT ![i] = Append(cmdlist[i], p)],
         UNCHANGED <<todo, lfds, failed, ssn, mem, wpc, refcnt, freed, data, lost>>
  PROVE  IInv'
<1>1. MainInv'
  BY DEF IInv, MainInv
<1>2. WorkInv'
  BY DEF IInv, WorkInv
<1>3. /\ cmdlist[i] \in Seq(Policy) /\ cmdlist'[i] = Append(cmdlist[i], p)
      /\ \A x \in Index \ {i} : cmdlist'[x] = cmdlist[x]
  BY DEF IInv, Shape
<1>4. ASSUME NEW q \in Policy
      PROVE  Cardinality(Pos(cmdlist'[i], q)) = Cardinality(Pos(cmdlist[i], q)) + One(p, q)
  BY <1>3, PosAppend
<1>5. ASSUME NEW x \in Index, NEW q \in Policy
      PROVE  /\ Sent(x, q)' <=> Sent(x, q) \/ (x = i /\ q = p)
             /\ ~Sent(i, p)
  BY Constants DEF Sent, Adding
<1>6. OnceInv'
  <2> SUFFICES ASSUME NEW x \in Index, NEW q \in Policy
               PROVE  Times(x, q)' <= 1 /\ (~Sent(x, q)' => Times(x, q)' = 0)
    BY DEF OnceInv
  <2>1. Times(x, q) <= 1 /\ (~Sent(x, q) => Times(x, q) = 0) /\ Times(x, q) \in Nat
    BY HereBelow DEF IInv, OnceInv
  <2>2. CASE x = i
    <3>1. Cardinality(Pos(cmdlist[i], q)) \in Nat /\ Cardinality(Pos(todo[i], q)) \in Nat
          /\ Has(lfds[i], q) \in {0, 1} /\ One(p, q) \in {0, 1}
      BY HereBelow DEF IInv, One
    <3>2. Times(x, q)' = Times(x, q) + One(p, q)
      BY <1>4, <2>2, <3>1 DEF Times
    <3>3. CASE q = p
      <4>1. Times(x, q) = 0 /\ Sent(x, q)' /\ One(p, q) = 1
        <5>1. ~Sent(x, q)
          BY <1>5, <2>2, <3>3
        <5>2. Sent(x, q)'
          BY <1>5, <2>2, <3>3
        <5> QED  BY <2>1, <3>3, <5>1, <5>2 DEF One
      <4> QED  BY <3>2, <4>1
    <3>4. CASE q # p
      <4>1. Times(x, q)' = Times(x, q)
        BY <2>1, <3>2, <3>4 DEF One
      <4>2. ~Sent(x, q)' => ~Sent(x, q)
        BY <1>5
      <4> QED  BY <2>1, <4>1, <4>2
    <3> QED  BY <3>3, <3>4
  <2>3. CASE x # i
    <3>1. Times(x, q)' = Times(x, q)
      BY <1>3, <2>3 DEF Times
    <3>2. ~Sent(x, q)' => ~Sent(x, q)
      BY <1>5
    <3> QED  BY <2>1, <3>1, <3>2
  <2> QED  BY <2>2, <2>3
<1>7. SentInv'
  <2> SUFFICES ASSUME NEW x \in Index, NEW q \in Policy, Sent(x, q)' PROVE Reached(x, q)'
    BY DEF SentInv
  <2>1. CASE x = i /\ q = p
    <3>1. /\ Len(cmdlist[i]) + 1 \in DOMAIN cmdlist'[i] /\ cmdlist'[i][Len(cmdlist[i]) + 1] = p
      BY <1>3
    <3> QED  BY <2>1, <3>1 DEF Reached
  <2>2. CASE ~(x = i /\ q = p)
    <3>1. Sent(x, q)
      BY <1>5, <2>2
    <3>2. Reached(x, q)
      BY <3>1 DEF IInv, SentInv, Adding
    <3>3. ASSUME NEW n \in DOMAIN cmdlist[x], cmdlist[x][n] = q
          PROVE  \E m \in DOMAIN cmdlist'[x] : cmdlist'[x][m] = q
      <4>1. CASE x = i
        <5>1. n \in DOMAIN cmdlist'[i] /\ cmdlist'[i][n] = q
          BY <1>3, <3>3, <4>1
        <5> QED  BY <4>1, <5>1
      <4>2. CASE x # i
        BY <1>3, <3>3, <4>2
      <4> QED  BY <4>1, <4>2
    <3> QED  BY <3>2, <3>3 DEF Reached
  <2> QED  BY <2>1, <2>2
<1>8. RefInv'
  <2>1. Running /\ pc' # "aborted" /\ Own' = 0 /\ freed' = {}
    BY DEF Running, Own, IInv, MainInv
  <2>2. ASSUME NEW q \in Policy PROVE refcnt'[q] = Total(q)' + InHand(q)' + lost'[q] - Own'
    <3>1. /\ refcnt[q] = Total(q) + InHand(q) + lost[q]
          /\ Total(q) \in Nat /\ InHand(q) \in {0, 1} /\ lost[q] \in Nat /\ refcnt[q] \in Int
      BY <2>1, RefCount
    <3>2. /\ Total(q) \in Nat /\ Total(q)' \in Nat
          /\ Here(cmdlist[i], todo[i], lfds[i], ssn[i], q) \in Nat
          /\ Here(cmdlist'[i], todo'[i], lfds'[i], ssn'[i], q) \in Nat
          /\ Here(cmdlist[i], todo[i], lfds[i], ssn[i], q) <= Total(q)
          /\ Total(q)' = Total(q) + Here(cmdlist'[i], todo'[i], lfds'[i], ssn'[i], q)
                                  - Here(cmdlist[i], todo[i], lfds[i], ssn[i], q)
      BY <1>3, Moved DEF IInv
    <3>3. InHand(q) = One(p, q) /\ InHand(q)' = 0
      BY DEF InHand, One
    <3>4. Here(cmdlist'[i], todo'[i], lfds'[i], ssn'[i], q)
            = Here(cmdlist[i], todo[i], lfds[i], ssn[i], q) + One(p, q)
      <4>1. Cardinality(Pos(cmdlist[i], q)) \in Nat /\ Cardinality(Pos(todo[i], q)) \in Nat
            /\ Has(lfds[i], q) \in {0, 1} /\ ssn[i][q] \in Nat /\ One(p, q) \in {0, 1}
        BY HereBelow DEF IInv, One
      <4> QED  BY <1>4, <4>1 DEF Here
    <3> DEFINE h == Here(cmdlist[i], todo[i], lfds[i], ssn[i], q)
               k == Here(cmdlist'[i], todo'[i], lfds'[i], ssn'[i], q)
    <3>5. h \in Nat /\ k = h + One(p, q) /\ Total(q)' = Total(q) + k - h
      BY <3>2, <3>4
    <3> HIDE DEF h, k
    <3>6. Total(q)' = Total(q) + One(p, q)
      BY <3>1, <3>3, <3>5
    <3> QED  BY <2>1, <3>1, <3>3, <3>6
  <2> QED  BY <2>1, <2>2 DEF RefInv
<1> QED  BY <1>1, <1>2, <1>6, <1>7, <1>8 DEF IInv

\* The worker_t was freed meanwhile: the command is lost, or the process ends.
LEMMA MainLost ==
  ASSUME IInv, Shape', pc = "append", pc' \in {"unlock", "aborted"}, at' = at,
         NEW p \in Policy, p = at[1], mem[at[2]] = "freed",
         lost' = [lost EXCEPT ![p] = lost[p] + 1],
         UNCHANGED <<cmdlist, todo, lfds, failed, ssn, mem, wpc, refcnt, freed, data>>
  PROVE  IInv'
<1>1. MainInv'
  BY DEF IInv, MainInv
<1>2. WorkInv'
  BY DEF IInv, WorkInv
<1>3. ASSUME NEW x \in Index, NEW q \in Policy
      PROVE  /\ Sent(x, q) => Sent(x, q)'
             /\ pc' = "unlock" /\ Sent(x, q)' => Sent(x, q) \/ x = at[2]
  <2>1. at[1] \in Policy /\ at[2] \in Index
    BY AtType DEF IInv
  <2>2. at[2] \in Nat /\ x \in Nat
    BY <2>1, Constants
  <2>3. Sent(x, q) <=> (q < at[1] \/ (q = at[1] /\ x < at[2]))
    BY DEF Sent, Adding
  <2>4. CASE pc' = "unlock"
    <3>1. Sent(x, q)' <=> (q < at[1] \/ (q = at[1] /\ x <= at[2]))
      BY <2>4 DEF Sent, Adding
    <3> QED  BY <2>2, <2>3, <3>1
  <2>5. CASE pc' = "aborted"
    BY <2>5 DEF Sent, Adding
  <2> QED  BY <2>4, <2>5
<1>4. OnceInv'
  <2> SUFFICES ASSUME NEW x \in Index, NEW q \in Policy
               PROVE  Times(x, q)' <= 1 /\ (~Sent(x, q)' => Times(x, q)' = 0)
    BY DEF OnceInv
  <2>1. Times(x, q) <= 1 /\ (~Sent(x, q) => Times(x, q) = 0) /\ Times(x, q)' = Times(x, q)
    BY DEF IInv, OnceInv, Times
  <2> QED  BY <1>3, <2>1
<1>5. SentInv'
  <2> SUFFICES ASSUME pc' = "unlock", NEW x \in Index, NEW q \in Policy, Sent(x, q)'
               PROVE  Reached(x, q)'
    BY DEF SentInv, Adding
  <2>1. Sent(x, q) \/ x = at[2]
    BY <1>3
  <2>2. CASE Sent(x, q)
    <3>1. Reached(x, q)
      BY <2>2 DEF IInv, SentInv, Adding
    <3> QED  BY <3>1 DEF Reached
  <2>3. CASE x = at[2]
    <3>1. wpc'[x] = "exit"
      BY <2>3 DEF IInv, WorkInv
    <3> QED  BY <3>1 DEF Reached
  <2> QED  BY <2>1, <2>2, <2>3
<1>6. RefInv'
  <2>1. Running /\ Own' = 0 /\ freed' = {}
    BY DEF Running, Own, IInv, MainInv
  <2>2. ASSUME NEW q \in Policy
        PROVE  /\ pc' # "aborted" => refcnt'[q] = Total(q)' + InHand(q)' + lost'[q] - Own'
               /\ refcnt'[q] >= 0
    <3>1. /\ refcnt[q] = Total(q) + InHand(q) + lost[q]
          /\ Total(q) \in Nat /\ InHand(q) \in {0, 1} /\ lost[q] \in Nat /\ refcnt[q] \in Int
      BY <2>1, RefCount
    <3>2. Total(q)' = Total(q)
      BY TotalQuiet
    <3>3. InHand(q) = One(p, q) /\ InHand(q)' = 0
      BY DEF InHand, One
    <3>4. lost'[q] = lost[q] + One(p, q)
      BY <3>1 DEF IInv, Shape, One
    <3> QED  BY <2>1, <3>1, <3>2, <3>3, <3>4
  <2> QED  BY <2>1, <2>2 DEF RefInv
<1> QED  BY <1>1, <1>2, <1>4, <1>5, <1>6 DEF IInv

LEMMA MainAppend == ASSUME IInv, worker_add_cmd_append, Shape' PROVE IInv'
<1>1. PICK p \in Policy, i \in Index : p = at[1] /\ i = at[2]
  BY AtType DEF IInv
<1>2. /\ pc = "append" /\ at' = at
      /\ UNCHANGED <<todo, lfds, failed, ssn, mem, wpc, refcnt, freed, data>>
  BY DEF worker_add_cmd_append
<1>3. CASE /\ cmdlist' = [cmdlist EXCEPT ![i] = Append(cmdlist[i], p)]
           /\ pc' = "unlock" /\ UNCHANGED lost
  BY <1>1, <1>2, <1>3, MainAppended
<1>4. CASE /\ mem[i] = "freed" /\ pc' \in {"unlock", "aborted"}
           /\ lost' = [lost EXCEPT ![p] = lost[p] + 1] /\ UNCHANGED cmdlist
  BY <1>1, <1>2, <1>4, MainLost
<1> QED  BY <1>1, <1>3, <1>4 DEF worker_add_cmd_append, Goto


\* The next pair of policy and worker, the sleep, or an assertion that fails.
LEMMA MainUnlock == ASSUME IInv, _worker_unlock, Shape' PROVE IInv'
<1>1. /\ pc = "unlock" /\ pc' \in {"clone", "sleep", "aborted"}
      /\ UNCHANGED <<cmdlist, todo, lfds, failed, ssn, mem, wpc, refcnt, freed, data, lost>>
  BY DEF _worker_unlock, Goto, pols
<1>2. PICK p \in Policy, i \in Index : p = at[1] /\ i = at[2]
  BY AtType DEF IInv
<1>3. \/ pc' = "aborted" /\ at' = at
      \/ pc' = "clone" /\ i < NWorker /\ at' = <<p, i + 1>>
      \/ pc' = "clone" /\ ~(i < NWorker) /\ p < NPolicy /\ at' = <<p + 1, 1>>
      \/ pc' = "sleep" /\ ~(i < NWorker) /\ ~(p < NPolicy) /\ at' = <<1, 1>>
  BY <1>2 DEF _worker_unlock, Goto
<1>4. MainInv'
  <2>1. data = Policy /\ freed = {}
    BY <1>1 DEF IInv, MainInv
  <2> QED  BY <1>1, <1>3, <2>1 DEF MainInv
<1>5. ASSUME NEW x \in Index, NEW q \in Policy
      PROVE  /\ Sent(x, q) => Sent(x, q)'
             /\ pc' # "aborted" /\ Sent(x, q)' => Sent(x, q)
  <2>1. /\ x \in Nat /\ i \in Nat /\ NWorker \in Nat /\ x <= NWorker /\ x >= 1 /\ i <= NWorker
        /\ q \in Nat /\ p \in Nat /\ NPolicy \in Nat /\ q <= NPolicy /\ q >= 1 /\ p <= NPolicy
    BY Constants
  <2>2. Sent(x, q) <=> (q < p \/ (q = p /\ x <= i))
    BY <1>1, <1>2 DEF Sent, Adding
  <2>3. CASE pc' = "aborted"
    BY <2>3 DEF Sent, Adding
  <2>4. CASE pc' = "clone" /\ i < NWorker /\ at' = <<p, i + 1>>
    <3>1. Sent(x, q)' <=> (q < p \/ (q = p /\ x < i + 1))
      BY <2>4 DEF Sent, Adding
    <3> QED  BY <2>1, <2>2, <3>1
  <2>5. CASE pc' = "clone" /\ ~(i < NWorker) /\ at' = <<p + 1, 1>>
    <3>1. Sent(x, q)' <=> (q < p + 1 \/ (q = p + 1 /\ x < 1))
      BY <2>5 DEF Sent, Adding
    <3> QED  BY <2>1, <2>2, <2>5, <3>1
  <2>6. CASE pc' = "sleep" /\ ~(i < NWorker) /\ ~(p < NPolicy)
    <3>1. Sent(x, q)'
      BY <2>6 DEF Sent, Adding
    <3> QED  BY <2>1, <2>2, <2>6, <3>1
  <2> QED  BY <1>3, <2>3, <2>4, <2>5, <2>6
<1>6. pc' # "aborted" => \A q \in Policy : InHand(q)' = InHand(q)
  BY <1>1 DEF InHand
<1> QED  BY <1>1, <1>4, <1>5, <1>6, QuietKeeps DEF Adding

\* The joins: the workers before at[2] have stopped.
LEMMA MainJoin == ASSUME IInv, thread_join, Shape' PROVE IInv'
<1>1. /\ pc = "join" /\ pc' \in {"join", "free"} /\ Stopped(at[2])
      /\ UNCHANGED <<cmdlist, todo, lfds, failed, ssn, mem, wpc, refcnt, freed, data, lost>>
      /\ at[2] < NWorker => at' = <<1, at[2] + 1>> /\ pc' = "join"
      /\ ~(at[2] < NWorker) => at' = at /\ pc' = "free"
  BY DEF thread_join, Goto, pols, workers, Stopped
<1>2. at[2] \in Nat /\ at[2] \in Index
  <2>1. at[2] \in Index
    BY AtType DEF IInv
  <2> QED  BY <2>1, Constants
<1>3. ASSUME NEW i \in Index, i <= at[2] PROVE Stopped(i)'
  <2>1. i \in Nat /\ (i < at[2] \/ i = at[2])
    BY <1>2, <1>3, Constants
  <2>2. Stopped(i)
    BY <1>1, <2>1 DEF IInv, MainInv
  <2> QED  BY <1>1, <2>2 DEF Stopped
<1>4. MainInv'
  <2>1. data = Policy /\ freed = {}
    BY <1>1 DEF IInv, MainInv
  <2>2. CASE at[2] < NWorker
    <3>1. at'[2] = at[2] + 1 /\ pc' = "join"
      BY <1>1, <2>2
    <3>2. \A i \in Index : i < at'[2] => Stopped(i)'
      <4> SUFFICES ASSUME NEW i \in Index, i < at'[2] PROVE Stopped(i)'
        OBVIOUS
      <4>1. i <= at[2]
        BY <1>2, <3>1, Constants
      <4> QED  BY <1>3, <4>1
    <3> QED  BY <1>1, <2>1, <3>1, <3>2 DEF MainInv
  <2>3. CASE ~(at[2] < NWorker)
    <3>1. \A i \in Index : Stopped(i)'
      <4> TAKE i \in Index
      <4>1. i <= at[2]
        BY <1>2, <2>3, Constants
      <4> QED  BY <1>3, <4>1
    <3> QED  BY <1>1, <2>1, <2>3, <3>1 DEF MainInv
  <2> QED  BY <2>2, <2>3
<1>5. \A q \in Policy : InHand(q)' = InHand(q)
  BY <1>1 DEF InHand
<1>6. \A x \in Index, q \in Policy : Sent(x, q)'
  BY <1>1 DEF Sent, Adding
<1> QED  BY <1>1, <1>4, <1>5, <1>6, QuietKeeps DEF Adding

LEMMA MainEnd == ASSUME IInv, _py_loop_sleep \/ _py_free_data, Shape' PROVE IInv'
<1>1. CASE _py_loop_sleep
  <2>1. pc = "sleep" /\ pc' = "join" /\ UNCHANGED <<at, workers, pols>>
    BY <1>1 DEF _py_loop_sleep, Goto
  <2>2. at' = <<1, 1>>
    BY <2>1 DEF IInv, MainInv
  <2>3. MainInv'
    BY <2>1, <2>2, JoinBegins DEF pols
  <2>4. \A q \in Policy : InHand(q)' = InHand(q)
    BY <2>1 DEF InHand
  <2>5. \A x \in Index, q \in Policy : Sent(x, q)'
    BY <2>1 DEF Sent, Adding
  <2> QED  BY <2>1, <2>3, <2>4, <2>5, QuietKeeps DEF Adding, workers, pols
<1>2. CASE _py_free_data
  <2>1. pc = "free" /\ pc' = "release" /\ UNCHANGED <<at, workers, refcnt, freed, lost>>
    BY <1>2 DEF _py_free_data, Goto
  <2>2. MainInv'
    BY <2>1 DEF IInv, MainInv, Stopped, workers
  <2>4. \A q \in Policy : InHand(q)' = InHand(q)
    BY <2>1 DEF InHand
  <2>5. \A x \in Index, q \in Policy : Sent(x, q)'
    BY <2>1 DEF Sent, Adding
  <2> QED  BY <2>1, <2>2, <2>4, <2>5, QuietKeeps DEF Adding, workers
<1> QED  BY <1>1, <1>2

\* The proxy gives up its own pointers: the policies nobody holds are freed.
LEMMA MainRelease == ASSUME IInv, proxy_free, Shape' PROVE IInv'
<1>1. /\ pc = "release" /\ pc' = "done" /\ UNCHANGED <<at, workers, lost>>
      /\ refcnt' = [p \in Policy |-> refcnt[p] - 1]
      /\ freed' = freed \union {p \in Policy : refcnt[p] = 0}
  BY DEF proxy_free, Goto
<1>2. MainInv'
  BY <1>1 DEF IInv, MainInv, Stopped, workers
<1>3. \A x \in Index, q \in Policy : Sent(x, q)'
  BY <1>1 DEF Sent, Adding
<1>4. WorkInv' /\ OnceInv' /\ SentInv'
  BY <1>1, <1>2, <1>3, MainQuiet DEF workers, Adding
<1>5. ASSUME NEW p \in Policy
      PROVE  /\ refcnt'[p] = Total(p)' + InHand(p)' + lost'[p] - 1
             /\ refcnt[p] = 0 => Total(p)' = 0
  <2>1. /\ refcnt[p] = Total(p) + InHand(p) + lost[p]
        /\ Total(p) \in Nat /\ InHand(p) \in {0, 1} /\ lost[p] \in Nat /\ refcnt[p] \in Int
    BY <1>1, RefCount DEF Running
  <2>2. Total(p)' = Total(p) /\ InHand(p)' = InHand(p)
    BY <1>1, TotalQuiet DEF workers, InHand
  <2>3. refcnt'[p] = refcnt[p] - 1 /\ lost'[p] = lost[p]
    BY <1>1
  <2> QED  BY <2>1, <2>2, <2>3
<1>6. freed = {}
  BY <1>1 DEF IInv, MainInv
<1>7. RefInv'
  BY <1>1, <1>5, <1>6 DEF RefInv, Own
<1> QED  BY <1>2, <1>4, <1>7 DEF IInv

-----------------------------------------------------------------------------
(* The invariant of the specification.                                     *)

LEMMA IInvInit == Init => IInv
<1> SUFFICES ASSUME Init PROVE IInv
  OBVIOUS
<1>1. Shape
  BY ShapeInit
<1>2. MainInv /\ WorkInv /\ SentInv
  BY DEF Init, MainInv, WorkInv, SentInv, Sent, Adding
<1>3. ASSUME NEW i \in Index, NEW p \in Policy PROVE Times(i, p) = 0 /\ ssn[i][p] = 0
  <2>1. cmdlist[i] = <<>> /\ todo[i] = <<>> /\ lfds[i] = {} /\ ssn[i][p] = 0
    BY DEF Init
  <2> QED  BY <2>1, PosEmpty DEF Times, Has
<1>4. OnceInv
  BY <1>3 DEF OnceInv
<1>5. ASSUME NEW p \in Policy PROVE Total(p) = 0
  <2>1. ASSUME NEW i \in Index PROVE Spots(i, cmdlist[i], todo[i], lfds[i], ssn[i], p) = {}
    <3>1. cmdlist[i] = <<>> /\ todo[i] = <<>> /\ lfds[i] = {} /\ ssn[i][p] = 0
      BY DEF Init
    <3>2. Pos(cmdlist[i], p) = {} /\ Pos(todo[i], p) = {} /\ lfds[i] \cap {p} = {} /\ 1..ssn[i][p] = {}
      BY <3>1 DEF Pos
    <3> QED  BY <3>2 DEF Spots, Tagged
  <2>2. AllSpots(Index, cmdlist, todo, lfds, ssn, p) = {}
    BY <2>1 DEF AllSpots
  <2> QED  BY <2>2, FS_EmptySet DEF Total, TotalOf
<1>6. RefInv
  BY <1>5 DEF RefInv, Init, InHand, Own
<1> QED  BY <1>1, <1>2, <1>4, <1>6 DEF IInv

LEMMA IInvStutter ==
  ASSUME IInv, Shape', UNCHANGED <<pc, at, workers, pols>>
  PROVE  IInv'
<1>1. MainInv'
  BY DEF IInv, MainInv, Stopped, workers, pols
<1>2. WorkInv'
  BY DEF IInv, WorkInv, workers
<1>3. OnceInv'
  BY DEF IInv, OnceInv, Times, Sent, workers
<1>4. SentInv'
  BY DEF IInv, SentInv, Reached, Sent, workers
<1>5. RefInv'
  <2>1. \A p : Total(p)' = Total(p)
    BY TotalQuiet DEF workers
  <2> QED  BY <2>1 DEF IInv, RefInv, InHand, Own, pols
<1> QED  BY <1>1, <1>2, <1>3, <1>4, <1>5 DEF IInv

LEMMA IInvNext == IInv /\ [Next]_vars => IInv'
<1> SUFFICES ASSUME IInv, [Next]_vars PROVE IInv'
  OBVIOUS
<1>1. Shape'
  BY ShapeNext DEF IInv
<1>2. CASE Main
  BY <1>1, <1>2, MainInitData, MainCreate, MainClone, MainGet, MainLock, MainAppend, MainUnlock,
     MainEnd, MainJoin, MainRelease DEF Main
<1>3. CASE \E i \in Index : Worker(i)
  BY <1>1, <1>3, WorkerSteps, WorkStepKeeps
<1>4. CASE Interrupt \/ _sig_int \/ Ended \/ UNCHANGED vars
  <2>1. UNCHANGED <<pc, at, workers, pols>>
    BY <1>4 DEF Interrupt, _sig_int, Ended, vars, main
  <2> QED  BY <1>1, <2>1, IInvStutter
<1> QED  BY <1>2, <1>3, <1>4 DEF Next

\* The invariant from which the properties follow: where the threads are, which policies
\* have reached which worker, and what refcnt counts.
THEOREM InductiveInvariant == Spec => []IInv
  BY IInvInit, IInvNext, PTL DEF Spec

LEMMA HeldTotal == ASSUME NEW p PROVE Held(p) = Total(p) + InHand(p)
<1>1. \A i \in Index : Refs(i, p) = Spots(i, cmdlist[i], todo[i], lfds[i], ssn[i], p)
  BY DEF Refs, Spots, Tagged, Pos
<1>2. UNION {Refs(i, p) : i \in Index} = AllSpots(Index, cmdlist, todo, lfds, ssn, p)
  <2>1. {Refs(i, p) : i \in Index}
          = {Spots(i, cmdlist[i], todo[i], lfds[i], ssn[i], p) : i \in Index}
    BY <1>1
  <2> QED  BY <2>1, Zenon DEF AllSpots
<1> QED  BY <1>2, Zenon DEF Held, Total, TotalOf

\* refcnt is exact in every thread's view, for any number of policies and workers.
THEOREM RefsCorrect == Spec => []RefsExact
<1>1. IInv => RefsExact
  <2> SUFFICES ASSUME IInv, pc # "aborted", NEW p \in Policy
               PROVE  refcnt[p] = Held(p) + lost[p] - (IF pc = "done" THEN 1 ELSE 0)
    BY DEF RefsExact
  <2>1. refcnt[p] = Total(p) + InHand(p) + lost[p] - Own
    BY DEF IInv, RefInv
  <2> QED  BY <2>1, HeldTotal DEF Own
<1> QED  BY <1>1, InductiveInvariant, PTL

\* Nobody uses a policy or running data that was freed.
THEOREM AliveCorrect == Spec => []Alive
<1>1. IInv => Alive
  <2> SUFFICES ASSUME IInv PROVE Alive
    OBVIOUS
  <2>1. TypeOK
    <3>1. ASSUME NEW p \in Policy PROVE refcnt[p] >= -1
      <4>1. Total(p) \in Nat /\ InHand(p) \in {0, 1} /\ lost[p] \in Nat /\ Own \in {0, 1}
            /\ refcnt[p] \in Int
        BY Constants, HereBelow DEF IInv, Shape, InHand, Own
      <4>2. CASE pc # "aborted"
        <5>1. refcnt[p] = Total(p) + InHand(p) + lost[p] - Own
          BY <4>2 DEF IInv, RefInv
        <5> QED  BY <4>1, <5>1
      <4>3. CASE pc = "aborted"
        <5>1. refcnt[p] >= 0
          BY <4>3 DEF IInv, RefInv
        <5> QED  BY <4>1, <5>1
      <4> QED  BY <4>2, <4>3
    <3> QED  BY <3>1 DEF IInv, Shape, TypeOK
  <2>2. PolicyAlive
    <3> SUFFICES ASSUME NEW p \in freed PROVE Held(p) = 0
      BY DEF PolicyAlive
    <3>1. Total(p) = 0 /\ pc = "done"
      BY DEF IInv, RefInv, MainInv
    <3>2. InHand(p) = 0
      BY <3>1 DEF InHand
    <3> QED  BY <3>1, <3>2, HeldTotal
  <2>3. DataAlive
    <3> SUFFICES ASSUME NEW i \in Index, wpc[i] \in {"loop", "run"} PROVE lfds[i] \subseteq data
      BY DEF DataAlive
    <3>1. data = Policy
      BY DEF IInv, MainInv, Stopped
    <3> QED  BY <3>1 DEF IInv, Shape
  <2> QED  BY <2>1, <2>2, <2>3 DEF Alive
<1> QED  BY <1>1, InductiveInvariant, PTL

\* When the main thread sleeps, every policy has reached every worker that runs.
THEOREM DeliveredCorrect == Spec => []Delivered
<1>1. IInv => Delivered
  <2> SUFFICES ASSUME IInv, pc = "sleep", NEW i \in Index, NEW p \in Policy PROVE Reached(i, p)
    BY DEF Delivered
  <2>1. Sent(i, p)
    BY DEF Sent, Adding
  <2> QED  BY <2>1 DEF IInv, SentInv
<1> QED  BY <1>1, InductiveInvariant, PTL
=============================================================================
