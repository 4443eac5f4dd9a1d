------------------------- MODULE ThreadProxyProofs -------------------------
(***************************************************************************)
(* Proofs about ThreadProxy, for any number of clients, work threads and   *)
(* sessions.  The argument counts places: a place is an entry of a queue   *)
(* or of a session table, and Total(S) is how many of them hold a client   *)
(* of S.  With all clients for S this is what nlive has to bound; with one *)
(* client it is the number of owners its descriptor has.  Each action      *)
(* changes one place, so one account of Total serves both.                 *)
(***************************************************************************)
EXTENDS ThreadProxy, FiniteSetTheorems, FunctionTheorems, SequenceTheorems,
        WellFoundedInduction, TLAPS

\* The positions of q, and the ids of t, with a client of S.
Pos(q, S) == {i \in DOMAIN q : q[i] \in S}
Ids(t, S) == {id \in Id : t[id] \in S}

\* The places of one work thread, with queues q1 and q2 and table t.
Tagged(tag, w, I) == {<<tag, w, i>> : i \in I}
Spots(w, q1, q2, t, S) ==
  Tagged("inq", w, Pos(q1, S)) \cup Tagged("inq2", w, Pos(q2, S)) \cup Tagged("table", w, Ids(t, S))

\* Those of the threads of W, and how many there are in all.
AllSpots(W, Q1, Q2, T, S) == UNION {Spots(w, Q1[w], Q2[w], T[w], S) : w \in W}
TotalOf(Q1, Q2, T, S) == Cardinality(AllSpots(Work, Q1, Q2, T, S))
Total(S) == TotalOf(inq, inq2, table, S)

Here(q1, q2, t, S) == Cardinality(Pos(q1, S)) + Cardinality(Pos(q2, S)) + Cardinality(Ids(t, S))

One(c, S) == IF c \in S THEN 1 ELSE 0

-----------------------------------------------------------------------------
(* The inductive invariant.                                                *)

\* Which threads there are, and what the accept thread has in its hand.
LifeInv ==
  /\ main = "init" => made = 0
  /\ main = "create" => made <= NWork
  /\ main \in {"init", "create"} => \A t \in Thread : t >= made => thr[t] = "none"
  /\ acc.at # "top" => thr[Acc] = "run"
  /\ acc.at \in {"add", "lock"} <=> acc.cli # NULL
  /\ dead => main = "done" /\ acc.at = "top" /\ \A t \in Thread : thr[t] = "gone"
  /\ \A w \in Work : thr[w] \in {"close", "gone"} => stop \/ dead
  /\ acc.at = "lock" => thr[index] \in {"run", "close", "gone"}

\* What a work thread took is what its loop has still to do; nfreed is exact.
WorkInv ==
  \A w \in Work : /\ turn[w] = "batch" <=> inq2[w] # <<>>
                  /\ nfreed[w] = Cardinality({id \in Id : table[w][id] = NULL})

\* nlive is v, or one less while the accept thread has still to count a client, and
\* wraps round below 0; v covers what is in service, and leaves room for the client
\* the accept thread has let in.
Pend == IF acc.at = "count" THEN 1 ELSE 0
Room == IF acc.at \in {"add", "lock"} THEN 1 ELSE 0
Covers(v) == /\ Total(Client) <= v /\ v + Room <= Max
             /\ nlive = IF v < Pend THEN Word - 1 ELSE v - Pend
CountInv == \E v \in 0 .. Max : Covers(v)

\* A descriptor that is open has one owner at most, and one that is not has none.
Open(c) == IF c \in opened THEN 1 ELSE 0
InHand(c) == IF acc.cli = c THEN 1 ELSE 0
Owners(c) == Total({c}) + InHand(c)
OwnerInv ==
  /\ ~stray
  /\ \A c \in Client : /\ Owners(c) <= Open(c)
                       /\ ~stop => Owners(c) = Open(c)

IInv == TypeOK /\ LifeInv /\ WorkInv /\ CountInv /\ OwnerInv

-----------------------------------------------------------------------------
(* Counting.                                                               *)

Queues == [Work -> Seq(Client)]
Table == [Id -> Client \cup {NULL}]

LEMMA Constants ==
  /\ Max \in Nat /\ Max > 0 /\ NWork \in Nat /\ NWork > 0 /\ Word \in Nat /\ Word > Max + 1
  /\ IsFiniteSet(Client) /\ NULL \notin Client /\ Acc \in Thread /\ Acc \notin Work
  /\ Work \subseteq Thread /\ 0 \in Work
  BY ProxyAssumption DEF Acc, Thread, Work

LEMMA WorkFinite == IsFiniteSet(Work)
  BY Constants, FS_Interval DEF Work

LEMMA IdFinite == IsFiniteSet(Id) /\ Cardinality(Id) = Max
<1>1. 0 \in Int /\ Max - 1 \in Int
  BY Constants
<1>2. IsFiniteSet(0 .. Max - 1)
      /\ Cardinality(0 .. Max - 1) = IF 0 > Max - 1 THEN 0 ELSE (Max - 1) - 0 + 1
  BY <1>1, FS_Interval
<1> QED  BY <1>2, Constants DEF Id

LEMMA IdsFinite ==
  ASSUME NEW t, NEW S
  PROVE  IsFiniteSet(Ids(t, S)) /\ Cardinality(Ids(t, S)) \in Nat
  BY IdFinite, FS_Subset, FS_CardinalityType DEF Ids

LEMMA PosFinite ==
  ASSUME NEW q \in Seq(Client), NEW S
  PROVE  IsFiniteSet(Pos(q, S)) /\ Cardinality(Pos(q, S)) \in Nat
<1>1. Len(q) \in Nat /\ DOMAIN q = 1 .. Len(q)
  OBVIOUS
<1>2. IsFiniteSet(1 .. Len(q))
  BY <1>1, FS_Interval
<1>3. Pos(q, S) \in SUBSET (1 .. Len(q))
  BY <1>1 DEF Pos
<1> QED  BY <1>2, <1>3, FS_Subset, FS_CardinalityType

LEMMA DisjointUnion ==
  ASSUME NEW A, IsFiniteSet(A), NEW B, IsFiniteSet(B), A \cap B = {}
  PROVE  /\ IsFiniteSet(A \cup B)
         /\ Cardinality(A \cup B) = Cardinality(A) + Cardinality(B)
         /\ Cardinality(A) \in Nat /\ Cardinality(B) \in Nat
<1>1. Cardinality(A) \in Nat /\ Cardinality(B) \in Nat
  BY FS_CardinalityType
<1>2. Cardinality(A \cap B) = 0
  BY FS_EmptySet
<1>3. /\ IsFiniteSet(A \cup B)
      /\ Cardinality(A \cup B) = Cardinality(A) + Cardinality(B) - Cardinality(A \cap B)
  BY FS_Union
<1> QED  BY <1>1, <1>2, <1>3

LEMMA TaggedCount ==
  ASSUME NEW tag, NEW w, NEW I, IsFiniteSet(I)
  PROVE  IsFiniteSet(Tagged(tag, w, I)) /\ Cardinality(Tagged(tag, w, I)) = Cardinality(I)
<1> DEFINE f == [i \in I |-> <<tag, w, i>>]
<1>1. \A i, j \in I : f[i] = f[j] => i = j
  OBVIOUS
<1>2. f \in Bijection(I, Tagged(tag, w, I))
  BY <1>1 DEF Bijection, Injection, Surjection, IsInjective, Tagged
<1>3. ExistsBijection(I, Tagged(tag, w, I))
  BY <1>2 DEF ExistsBijection
<1> QED  BY <1>3, FS_Bijection

LEMMA SpotsCount ==
  ASSUME NEW w, NEW q1 \in Seq(Client), NEW q2 \in Seq(Client), NEW t, NEW S
  PROVE  /\ IsFiniteSet(Spots(w, q1, q2, t, S))
         /\ Cardinality(Spots(w, q1, q2, t, S)) = Here(q1, q2, t, S)
         /\ Here(q1, q2, t, S) \in Nat
<1> DEFINE A == Tagged("inq", w, Pos(q1, S))
           B == Tagged("inq2", w, Pos(q2, S))
           C == Tagged("table", w, Ids(t, S))
<1>1. /\ IsFiniteSet(A) /\ Cardinality(A) = Cardinality(Pos(q1, S))
      /\ IsFiniteSet(B) /\ Cardinality(B) = Cardinality(Pos(q2, S))
      /\ IsFiniteSet(C) /\ Cardinality(C) = Cardinality(Ids(t, S))
  BY PosFinite, IdsFinite, TaggedCount
<1>2. /\ Cardinality(Pos(q1, S)) \in Nat /\ Cardinality(Pos(q2, S)) \in Nat
      /\ Cardinality(Ids(t, S)) \in Nat
  BY PosFinite, IdsFinite
<1>3. A \cap B = {} /\ (A \cup B) \cap C = {}
  <2>1. (\A x \in A : x[1] = "inq") /\ (\A x \in B : x[1] = "inq2") /\ (\A x \in C : x[1] = "table")
    BY DEF Tagged
  <2> HIDE DEF A, B, C
  <2> QED  BY <2>1
<1>4. Spots(w, q1, q2, t, S) = (A \cup B) \cup C
  BY DEF Spots
<1> HIDE DEF A, B, C
<1>5. IsFiniteSet(A \cup B) /\ Cardinality(A \cup B) = Cardinality(A) + Cardinality(B)
  BY <1>1, <1>3, DisjointUnion
<1>6. /\ IsFiniteSet((A \cup B) \cup C)
      /\ Cardinality((A \cup B) \cup C) = Cardinality(A \cup B) + Cardinality(C)
  BY <1>1, <1>3, <1>5, DisjointUnion
<1> QED  BY <1>1, <1>2, <1>4, <1>5, <1>6 DEF Here

LEMMA AllSpotsFinite ==
  ASSUME NEW W \in SUBSET Work, NEW Q1 \in Queues, NEW Q2 \in Queues, NEW T, NEW S
  PROVE  IsFiniteSet(AllSpots(W, Q1, Q2, T, S))
<1> DEFINE f == [w \in W |-> Spots(w, Q1[w], Q2[w], T[w], S)]
           U == {Spots(w, Q1[w], Q2[w], T[w], S) : w \in W}
<1>1. IsFiniteSet(W)
  BY WorkFinite, FS_Subset
<1>2. f \in Surjection(W, U)
  BY DEF Surjection
<1>3. IsFiniteSet(U)
  BY <1>1, <1>2, FS_Surjection
<1>4. \A w \in W : IsFiniteSet(Spots(w, Q1[w], Q2[w], T[w], S))
  BY SpotsCount DEF Queues
<1>5. \A X \in U : IsFiniteSet(X)
  BY <1>4
<1> HIDE DEF U
<1>6. IsFiniteSet(UNION U)
  BY <1>3, <1>5, FS_UNION
<1> QED  BY <1>6 DEF U, AllSpots

\* The places of thread w, and the rest.
LEMMA Split ==
  ASSUME NEW Q1 \in Queues, NEW Q2 \in Queues, NEW T, NEW S, NEW w \in Work
  PROVE  /\ TotalOf(Q1, Q2, T, S) = Here(Q1[w], Q2[w], T[w], S)
                                      + Cardinality(AllSpots(Work \ {w}, Q1, Q2, T, S))
         /\ Here(Q1[w], Q2[w], T[w], S) \in Nat
         /\ Cardinality(AllSpots(Work \ {w}, Q1, Q2, T, S)) \in Nat
<1> DEFINE A == Spots(w, Q1[w], Q2[w], T[w], S)
           B == AllSpots(Work \ {w}, Q1, Q2, T, S)
<1>1. /\ IsFiniteSet(A) /\ Cardinality(A) = Here(Q1[w], Q2[w], T[w], S)
      /\ Here(Q1[w], Q2[w], T[w], S) \in Nat
  BY SpotsCount DEF Queues
<1>2. IsFiniteSet(B) /\ Cardinality(B) \in Nat
  BY AllSpotsFinite, FS_CardinalityType
<1>3. AllSpots(Work, Q1, Q2, T, S) = A \cup B
  BY DEF AllSpots
<1>4. A \cap B = {}
  <2>1. \A x \in A : x[2] = w
    BY DEF Spots, Tagged
  <2>2. \A x \in B : x[2] # w
    BY DEF AllSpots, Spots, Tagged
  <2> QED  BY <2>1, <2>2
<1> HIDE DEF A, B
<1>5. Cardinality(A \cup B) = Cardinality(A) + Cardinality(B)
  BY <1>1, <1>2, <1>4, DisjointUnion
<1> QED  BY <1>1, <1>2, <1>3, <1>5 DEF TotalOf, B

LEMMA PosEmpty == ASSUME NEW S PROVE Cardinality(Pos(<<>>, S)) = 0
<1>1. Pos(<<>>, S) = {}
  BY DEF Pos
<1> QED  BY <1>1, FS_EmptySet

LEMMA PosAppend ==
  ASSUME NEW q \in Seq(Client), NEW c \in Client, NEW S
  PROVE  Cardinality(Pos(Append(q, c), S)) = Cardinality(Pos(q, S)) + One(c, S)
<1> DEFINE n == Len(q) + 1
<1>1. /\ Len(q) \in Nat /\ DOMAIN q = 1 .. Len(q) /\ DOMAIN Append(q, c) = 1 .. n
      /\ \A i \in 1 .. Len(q) : Append(q, c)[i] = q[i]
      /\ Append(q, c)[n] = c
  OBVIOUS
<1>2. n \notin Pos(q, S)
  BY <1>1 DEF Pos
<1>3. CASE c \in S
  <2>1. Pos(Append(q, c), S) = Pos(q, S) \cup {n}
    BY <1>1, <1>3 DEF Pos
  <2> QED  BY <1>2, <1>3, <2>1, PosFinite, FS_AddElement DEF One
<1>4. CASE c \notin S
  <2>1. Pos(Append(q, c), S) = Pos(q, S)
    BY <1>1, <1>4 DEF Pos
  <2> QED  BY <1>4, <2>1, PosFinite DEF One
<1> QED  BY <1>3, <1>4

LEMMA PosTail ==
  ASSUME NEW q \in Seq(Client), q # <<>>, NEW S
  PROVE  /\ Cardinality(Pos(q, S)) = Cardinality(Pos(Tail(q), S)) + One(Head(q), S)
         /\ Head(q) \in Client /\ Tail(q) \in Seq(Client)
<1> DEFINE r == Tail(q)
           R == {i \in Pos(q, S) : i > 1}
           f == [i \in Pos(r, S) |-> i + 1]
<1>1. /\ Len(q) \in Nat /\ Len(q) > 0 /\ DOMAIN q = 1 .. Len(q)
      /\ r \in Seq(Client) /\ Len(r) = Len(q) - 1 /\ DOMAIN r = 1 .. Len(q) - 1
      /\ \A i \in 1 .. Len(q) - 1 : r[i] = q[i + 1]
      /\ Head(q) = q[1] /\ q[1] \in Client
  OBVIOUS
<1>2. f \in Bijection(Pos(r, S), R)
  <2>1. f \in [Pos(r, S) -> R]
    BY <1>1 DEF Pos
  <2>2. \A i, j \in Pos(r, S) : f[i] = f[j] => i = j
    BY <1>1 DEF Pos
  <2>3. \A k \in R : k - 1 \in Pos(r, S) /\ f[k - 1] = k
    BY <1>1 DEF Pos
  <2> HIDE DEF f
  <2> QED  BY <2>1, <2>2, <2>3 DEF Bijection, Injection, Surjection, IsInjective
<1>3. IsFiniteSet(R) /\ Cardinality(R) = Cardinality(Pos(r, S))
  BY <1>1, <1>2, PosFinite, FS_Bijection DEF ExistsBijection
<1>4. CASE Head(q) \in S
  <2>1. Pos(q, S) = R \cup {1} /\ 1 \notin R
    BY <1>1, <1>4 DEF Pos
  <2> QED  BY <1>1, <1>3, <1>4, <2>1, FS_AddElement DEF One
<1>5. CASE Head(q) \notin S
  <2>1. Pos(q, S) = R
    BY <1>1, <1>5 DEF Pos
  <2>2. Cardinality(Pos(r, S)) \in Nat
    BY <1>1, PosFinite
  <2> HIDE DEF R
  <2>3. Cardinality(Pos(q, S)) = Cardinality(Pos(r, S)) + 0
    BY <1>3, <2>1, <2>2
  <2> QED  BY <1>1, <1>5, <2>3 DEF One
<1> QED  BY <1>4, <1>5

LEMMA IdsSet ==
  ASSUME NEW t \in Table, NEW id \in Id, NEW c \in Client \cup {NULL}, NEW S
  PROVE  Cardinality(Ids([t EXCEPT ![id] = c], S))
           = Cardinality(Ids(t, S)) + One(c, S) - One(t[id], S)
<1> DEFINE R == Ids(t, S) \ {id}
<1> DEFINE n == Cardinality(Ids(t, S))
<1>0. /\ IsFiniteSet(Ids(t, S)) /\ n \in Nat /\ IsFiniteSet(R)
      /\ Cardinality(R) = IF id \in Ids(t, S) THEN n - 1 ELSE n
  BY IdsFinite, FS_RemoveElement
<1>1. IsFiniteSet(R) /\ Cardinality(R) = n - One(t[id], S) /\ n \in Nat /\ n - One(t[id], S) \in Int
  BY <1>0 DEF Ids, One
<1>2. CASE c \in S
  <2>1. Ids([t EXCEPT ![id] = c], S) = R \cup {id}
    BY <1>2 DEF Ids, Table
  <2>2. id \notin R
    OBVIOUS
  <2>3. Cardinality(R \cup {id}) = Cardinality(R) + 1
    BY <1>1, <2>2, FS_AddElement
  <2> HIDE DEF n, R
  <2>4. Cardinality(R \cup {id}) = n + 1 - One(t[id], S)
    BY <1>1, <2>3 DEF One
  <2> QED  BY <1>2, <2>1, <2>4 DEF One, n
<1>3. CASE c \notin S
  <2>1. Ids([t EXCEPT ![id] = c], S) = R
    BY <1>3 DEF Ids, Table
  <2> HIDE DEF n, R
  <2>2. Cardinality(R) = n + 0 - One(t[id], S)
    BY <1>1 DEF One
  <2> QED  BY <1>3, <2>1, <2>2 DEF One, n
<1> QED  BY <1>2, <1>3

-----------------------------------------------------------------------------
(* The search for a free id.                                               *)

Below == {x \in Nat \X Nat : x[1] < x[2]}

LEMMA BelowWellFounded == IsWellFoundedOn(Below, Nat)
<1>1. IsWellFoundedOn(OpToRel(<, Nat), Nat)
  BY NatLessThanWellFounded
<1>2. Below \cap (Nat \X Nat) \subseteq OpToRel(<, Nat)
  BY DEF Below, OpToRel
<1> QED  BY <1>1, <1>2, IsWellFoundedOnSubrelation

LEMMA Least ==
  ASSUME NEW T, T \subseteq Nat, T # {}
  PROVE  \E x \in T : \A y \in T : x <= y
<1>1. PICK x \in T : \A y \in T : ~ (<<y, x>> \in Below)
  BY BelowWellFounded, WFMin
<1>2. ASSUME NEW y \in T, y < x PROVE FALSE
  <2>1. <<y, x>> \in Nat \X Nat /\ <<y, x>>[1] = y /\ <<y, x>>[2] = x
    OBVIOUS
  <2>2. <<y, x>> \in Below
    BY <1>2, <2>1 DEF Below
  <2> QED  BY <1>1, <2>2
<1>3. x \in Nat /\ \A y \in T : y \in Nat
  OBVIOUS
<1> QED  BY <1>2, <1>3

\* The remainder of a number below 2M.
LEMMA ModOnce ==
  ASSUME NEW M \in Nat, M > 0, NEW p \in 0 .. M - 1
  PROVE  p % M = p /\ (p + M) % M = p
<1>1. ASSUME NEW q \in 0 .. 1 PROVE (q * M + p) % M = p
  <2> DEFINE x == q * M + p
             m == x % M
             d == x \div M
  <2>1. x \in Nat /\ x < 2 * M /\ (q = 0 => x = p) /\ (q = 1 => x = p + M)
    BY <1>1
  <2>2. m \in 0 .. M - 1 /\ d \in Int /\ x = M * d + m
    BY <2>1
  <2> HIDE DEF x, m, d
  <2>3. d >= 0
    <3>1. SUFFICES ASSUME d <= -1 PROVE FALSE
      BY <2>2
    <3>2. M * d <= M * (-1)
      BY <2>2, <3>1
    <3> QED  BY <2>1, <2>2, <3>2
  <2>4. d <= 1
    <3>1. SUFFICES ASSUME d >= 2 PROVE FALSE
      BY <2>2
    <3>2. M * d >= M * 2
      BY <2>2, <3>1
    <3> QED  BY <2>1, <2>2, <3>2
  <2>5. d = 0 \/ d = 1
    BY <2>2, <2>3, <2>4
  <2>6. m = p
    BY <2>1, <2>2, <2>5, <1>1
  <2> QED  BY <2>6 DEF m, x
<1>2. (0 * M + p) % M = p /\ (1 * M + p) % M = p
  BY <1>1
<1>3. 0 * M + p = p /\ 1 * M + p = p + M
  OBVIOUS
<1> QED  BY <1>2, <1>3

LEMMA ProbeId ==
  ASSUME TypeOK, NEW w \in Work
  PROVE  /\ \A k \in Id : Probe(w, k) \in Id
         /\ \A id \in Id : \E k \in Id : Probe(w, k) = id
<1>1. freeid[w] \in 0 .. Max
  BY DEF TypeOK
<1>2. \A x \in Nat : x % Max \in 0 .. Max - 1
  BY Constants
<1>3. \A k \in Id : Probe(w, k) \in Id
  BY <1>1, <1>2 DEF Probe, Id
<1>4. ASSUME NEW id \in Id PROVE \E k \in Id : Probe(w, k) = id
  <2>0. id % Max = id /\ (id + Max) % Max = id /\ id \in 0 .. Max - 1
    BY Constants, ModOnce DEF Id
  <2>1. CASE freeid[w] >= Max
    BY <2>0, <2>1 DEF Probe
  <2>2. CASE freeid[w] < Max /\ id >= freeid[w]
    <3>1. id - freeid[w] \in Id /\ freeid[w] + (id - freeid[w]) = id /\ ~(freeid[w] >= Max)
      BY <1>1, <2>0, <2>2, Constants DEF Id
    <3>2. Probe(w, id - freeid[w]) = id
      BY <2>0, <3>1 DEF Probe
    <3> QED  BY <3>1, <3>2
  <2>3. CASE freeid[w] < Max /\ id < freeid[w]
    <3> DEFINE k == id - freeid[w] + Max
    <3>1. k \in Id /\ freeid[w] + k = id + Max /\ ~(freeid[w] >= Max)
      <4>1. Max \in Nat /\ id \in 0 .. Max - 1
        BY Constants DEF Id
      <4> QED  BY <1>1, <2>3, <4>1 DEF Id
    <3> HIDE DEF k
    <3>2. Probe(w, k) = id
      BY <2>0, <3>1 DEF Probe
    <3> QED  BY <3>1, <3>2
  <2> QED  BY <1>1, <2>0, <2>1, <2>2, <2>3, Constants
<1> QED  BY <1>3, <1>4

\* _st_get_free_id returns a free id, and -1 only if there is none.
LEMMA FreeId ==
  ASSUME TypeOK, NEW w \in Work
  PROVE  /\ \/ _st_get_free_id(w) \in Id /\ table[w][_st_get_free_id(w)] = NULL
            \/ _st_get_free_id(w) = -1
         /\ (\E id \in Id : table[w][id] = NULL) => _st_get_free_id(w) \in Id
<1> DEFINE free == {k \in Id : table[w][Probe(w, k)] = NULL}
           k0 == CHOOSE k \in free : \A j \in free : k <= j
<1>1. CASE free = {}
  <2>1. _st_get_free_id(w) = -1
    BY <1>1 DEF _st_get_free_id
  <2>2. ~ \E id \in Id : table[w][id] = NULL
    BY <1>1, ProbeId
  <2> QED  BY <2>1, <2>2
<1>2. CASE free # {}
  <2>1. free \subseteq Nat
    BY DEF Id
  <2>2. \E k \in free : \A j \in free : k <= j
    BY <1>2, <2>1, Least
  <2>3. k0 \in free
    BY <2>2
  <2>4. _st_get_free_id(w) = Probe(w, k0)
    BY <1>2 DEF _st_get_free_id
  <2> QED  BY <2>3, <2>4, ProbeId
<1> QED  BY <1>1, <1>2

LEMMA NullCount ==
  ASSUME NEW t \in Table, NEW id \in Id, NEW c \in Client
  PROVE  /\ Cardinality({j \in Id : t[j] = NULL}) \in 0 .. Max
         /\ t[id] = NULL => Cardinality({j \in Id : [t EXCEPT ![id] = c][j] = NULL})
                               = Cardinality({j \in Id : t[j] = NULL}) - 1
         /\ t[id] # NULL => Cardinality({j \in Id : [t EXCEPT ![id] = NULL][j] = NULL})
                               = Cardinality({j \in Id : t[j] = NULL}) + 1
<1>1. \A u : {j \in Id : u[j] = NULL} = Ids(u, {NULL})
  BY DEF Ids
<1>2. Cardinality(Ids(t, {NULL})) \in 0 .. Max
  <2>1. Ids(t, {NULL}) \in SUBSET Id
    BY DEF Ids
  <2>2. Cardinality(Ids(t, {NULL})) <= Cardinality(Id) /\ Cardinality(Ids(t, {NULL})) \in Nat
    BY <2>1, IdFinite, IdsFinite, FS_Subset
  <2> QED  BY <2>2, IdFinite, Constants
<1>3. ASSUME t[id] = NULL
      PROVE  Cardinality(Ids([t EXCEPT ![id] = c], {NULL})) = Cardinality(Ids(t, {NULL})) - 1
  <2>1. One(c, {NULL}) = 0 /\ One(t[id], {NULL}) = 1
    BY <1>3, Constants DEF One
  <2> QED  BY <1>2, <2>1, IdsSet
<1>4. ASSUME t[id] # NULL
      PROVE  Cardinality(Ids([t EXCEPT ![id] = NULL], {NULL})) = Cardinality(Ids(t, {NULL})) + 1
  <2>1. One(NULL, {NULL}) = 1 /\ One(t[id], {NULL}) = 0
    BY <1>4 DEF One
  <2> QED  BY <1>2, <2>1, IdsSet
<1> QED  BY <1>1, <1>2, <1>3, <1>4

-----------------------------------------------------------------------------
(* Types, the life of the threads and the exactness of nfreed.             *)

BasicInv == TypeOK /\ LifeInv /\ WorkInv

LEMMA ThreadNumbers ==
  /\ \A t \in Thread : t \in Nat /\ t <= NWork
  /\ \A n \in Nat : n <= NWork => n \in Thread
  /\ Acc = NWork
  BY Constants DEF Thread, Work, Acc

LEMMA BasicInit == Init => BasicInv
<1> SUFFICES ASSUME Init PROVE BasicInv
  OBVIOUS
<1>1. TypeOK
  <2>1. /\ 0 \in 0 .. Word - 1 /\ 0 \in 0 .. NWork + 1 /\ 0 \in 0 .. Max /\ Max \in 0 .. Max
        /\ 0 \in Work /\ <<>> \in Seq(Client)
    BY Constants
  <2>2. acc \in [at : {"top", "poll", "add", "lock", "count"}, cli : Client \cup {NULL}]
    BY DEF Init
  <2> QED  BY <2>1, <2>2 DEF Init, TypeOK
<1>2. LifeInv
  BY Constants DEF Init, LifeInv
<1>3. ASSUME NEW w \in Work PROVE nfreed[w] = Cardinality({id \in Id : table[w][id] = NULL})
  <2>1. {id \in Id : table[w][id] = NULL} = Id
    BY DEF Init
  <2> QED  BY <2>1, IdFinite DEF Init
<1>4. WorkInv
  BY <1>3 DEF Init, WorkInv
<1> QED  BY <1>1, <1>2, <1>4 DEF BasicInv

LEMMA BasicMain ==
  ASSUME BasicInv, _sig_int_Early \/ _sig_int \/ Main
  PROVE  BasicInv'
<1> USE DEF BasicInv, fds, queues, tables, process
<1>1. CASE _sig_int_Early
  <2>1. TypeOK' /\ LifeInv'
    BY <1>1, Constants DEF _sig_int_Early, Crash, TypeOK, LifeInv
  <2>2. WorkInv'
    BY <1>1 DEF _sig_int_Early, WorkInv
  <2> QED  BY <2>1, <2>2
<1>2. CASE _sig_int \/ _sig_int_Main
  <2>1. /\ stop' \in BOOLEAN /\ sig' \in BOOLEAN /\ (stop => stop')
        /\ UNCHANGED <<nlive, main, made, dead, thr, acc, index, inq, inq2, turn, table, nfreed,
                       freeid, opened, stray>>
    BY <1>2, Zenon DEF _sig_int, _sig_int_Main, TypeOK
  <2>2. TypeOK'
    BY <2>1 DEF TypeOK
  <2>3. LifeInv'
    BY <2>1 DEF LifeInv
  <2>4. WorkInv'
    BY <2>1 DEF WorkInv
  <2> QED  BY <2>2, <2>3, <2>4
<1>4. CASE _proxy_init
  <2>1. TypeOK'
    BY <1>4 DEF _proxy_init, TypeOK
  <2>2. LifeInv'
    BY <1>4, Constants DEF _proxy_init, LifeInv
  <2>3. WorkInv'
    BY <1>4 DEF _proxy_init, WorkInv
  <2> QED  BY <2>1, <2>2, <2>3
<1>5. CASE thread_create
  <2>1. made \in Thread /\ made \in Nat /\ made <= NWork /\ thr[made] = "none"
    BY <1>5, ThreadNumbers DEF thread_create, LifeInv, TypeOK
  <2>2. thr' = thr \/ thr' = [thr EXCEPT ![made] = "start"]
    BY <1>5 DEF thread_create
  <2>3. TypeOK'
    <3>1. made + 1 \in 0 .. NWork + 1
      BY <2>1, Constants
    <3>2. thr' \in [Thread -> {"none", "start", "run", "close", "gone", "failed"}]
      BY <2>1, <2>2 DEF TypeOK
    <3> QED  BY <1>5, <3>1, <3>2 DEF thread_create, TypeOK
  <2>4. LifeInv'
    BY <1>5, <2>1, <2>2, ThreadNumbers, Constants DEF thread_create, LifeInv, TypeOK
  <2>5. WorkInv'
    BY <1>5 DEF thread_create, WorkInv
  <2> QED  BY <2>3, <2>4, <2>5
<1>6. CASE proxy_main
  <2>1. TypeOK'
    BY <1>6 DEF proxy_main, TypeOK
  <2>2. LifeInv'
    BY <1>6, Constants DEF proxy_main, LifeInv
  <2>3. WorkInv'
    BY <1>6 DEF proxy_main, WorkInv
  <2> QED  BY <2>1, <2>2, <2>3
<1> QED  BY <1>1, <1>2, <1>4, <1>5, <1>6 DEF Main

\* A step that moves one thread on, and nothing else.
LEMMA BasicMove ==
  ASSUME BasicInv, NEW t \in Thread,
         \/ thr[t] = "start" /\ thr' = [thr EXCEPT ![t] = "run"]
         \/ thr[t] = "start" /\ thr' = [thr EXCEPT ![t] = "failed"]
         \/ t \in Work /\ thr[t] = "run" /\ stop /\ thr' = [thr EXCEPT ![t] = "close"]
         \/ t \in Work /\ thr[t] = "close" /\ thr' = [thr EXCEPT ![t] = "gone"]
         \/ t = Acc /\ thr[t] = "run" /\ acc.at = "top" /\ thr' = [thr EXCEPT ![t] = "gone"],
         sig' \in BOOLEAN,
         UNCHANGED <<stop, main, made, nlive, dead, acc, index, queues, tables, fds>>
  PROVE  BasicInv'
<1>1. TypeOK'
  BY DEF BasicInv, TypeOK, queues, tables, fds
<1>2. LifeInv'
  <2>1. main \in {"init", "create"} => ~(t >= made)
    BY DEF BasicInv, LifeInv
  <2>2. ~dead
    BY DEF BasicInv, LifeInv
  <2>3. acc.at # "top" /\ t = Acc => thr'[Acc] = "run"
    BY Constants DEF BasicInv, LifeInv, TypeOK
  <2>4. acc.at = "lock" /\ t = index => thr'[index] \in {"run", "close", "gone"}
    BY Constants DEF BasicInv, LifeInv, TypeOK
  <2>5. \A w \in Work : thr'[w] \in {"close", "gone"} => stop \/ dead
    BY Constants DEF BasicInv, LifeInv, TypeOK
  <2>6. index \in Thread
    BY Constants DEF BasicInv, TypeOK
  <2> QED  BY <2>1, <2>2, <2>3, <2>4, <2>5, <2>6, Constants DEF BasicInv, LifeInv, TypeOK
<1>3. WorkInv'
  BY DEF BasicInv, WorkInv, queues, tables
<1> QED  BY <1>1, <1>2, <1>3 DEF BasicInv

\* A step of the accept thread that leaves the threads alone.
LEMMA BasicHand ==
  ASSUME BasicInv, acc.at # "top" \/ thr[Acc] = "run",
         NEW a \in {"top", "poll", "add", "lock", "count"}, NEW c \in Client \cup {NULL},
         acc' = [at |-> a, cli |-> c],
         a \in {"add", "lock"} <=> c # NULL,
         a = "lock" => thr[index] \in {"run", "close"},
         index' = index \/ (a = "top" /\ index' \in Work),
         nlive' \in 0 .. Word - 1, inq' \in Queues, opened' \subseteq Client, stray' \in BOOLEAN,
         UNCHANGED <<process, dead, thr, inq2, turn, tables>>
  PROVE  BasicInv'
<1>1. TypeOK'
  BY DEF BasicInv, TypeOK, process, tables, Queues
<1>2. ~dead
  BY Constants DEF BasicInv, LifeInv
<1>3. LifeInv'
  BY <1>2, Constants DEF BasicInv, LifeInv, process
<1>4. WorkInv'
  BY DEF BasicInv, WorkInv, tables
<1> QED  BY <1>1, <1>3, <1>4 DEF BasicInv

\* A step of a work thread that leaves the threads and the accept thread alone.
LEMMA BasicWork ==
  ASSUME BasicInv, NEW w \in Work,
         nlive' \in 0 .. Word - 1, opened' \subseteq Client, stray' \in BOOLEAN,
         inq' \in Queues, inq2' \in Queues, freeid' \in [Work -> 0 .. Max],
         NEW l \in {"top", "batch", "serve"}, turn' = [turn EXCEPT ![w] = l],
         l = "batch" <=> inq2'[w] # <<>>,
         NEW t \in Table, table' = [table EXCEPT ![w] = t],
         NEW n \in 0 .. Max, nfreed' = [nfreed EXCEPT ![w] = n],
         n = Cardinality({id \in Id : t[id] = NULL}),
         \A x \in Work \ {w} : inq2'[x] = inq2[x],
         UNCHANGED <<process, dead, thr, acc, index>>
  PROVE  BasicInv'
<1>1. TypeOK'
  BY DEF BasicInv, TypeOK, process, Queues, Table
<1>2. LifeInv'
  BY DEF BasicInv, LifeInv, process
<1>3. ASSUME NEW x \in Work
      PROVE  /\ turn'[x] = "batch" <=> inq2'[x] # <<>>
             /\ nfreed'[x] = Cardinality({id \in Id : table'[x][id] = NULL})
  <2>1. /\ turn[x] = "batch" <=> inq2[x] # <<>>
        /\ nfreed[x] = Cardinality({id \in Id : table[x][id] = NULL})
    BY DEF BasicInv, WorkInv
  <2>2. CASE x = w
    <3>1. turn'[x] = l /\ table'[x] = t /\ nfreed'[x] = n
      BY <2>2 DEF BasicInv, TypeOK
    <3> QED  BY <2>2, <3>1
  <2>3. CASE x # w
    <3>1. turn'[x] = turn[x] /\ table'[x] = table[x] /\ nfreed'[x] = nfreed[x]
      BY <2>3 DEF BasicInv, TypeOK
    <3> QED  BY <2>1, <2>3, <3>1
  <2> QED  BY <2>2, <2>3
<1>4. WorkInv'
  BY <1>3 DEF WorkInv
<1> QED  BY <1>1, <1>2, <1>4 DEF BasicInv

LEMMA Modulo == \A n \in Int : n % Word \in 0 .. Word - 1
  BY Constants

LEMMA TypedClose ==
  ASSUME TypeOK, NEW c, Close(c)
  PROVE  opened' \subseteq Client /\ stray' \in BOOLEAN
  BY Zenon DEF TypeOK, Close

LEMMA BasicAccept == ASSUME BasicInv, Accept PROVE BasicInv'
<1>1. TypeOK /\ Acc \in Thread /\ thr[Acc] = thr[Acc]
  BY Constants DEF BasicInv
<1>2. CASE InitFails(Acc)
  BY <1>1, <1>2, BasicMove DEF InitFails
<1>3. CASE _accept_init
  <2>1. sig' \in BOOLEAN
    BY <1>1, <1>3 DEF _accept_init, process, TypeOK
  <2> QED  BY <1>1, <1>3, <2>1, BasicMove DEF _accept_init, process
<1>4. CASE _accept_loop
  <2>1. CASE stop
    <3>1. sig' \in BOOLEAN
      BY <1>1, <1>4 DEF _accept_loop, process, TypeOK
    <3> QED  BY <1>1, <1>4, <2>1, <3>1, BasicMove DEF _accept_loop, process
  <2>2. CASE ~stop
    <3>1. /\ thr[Acc] = "run" /\ acc' = [at |-> "poll", cli |-> NULL] /\ thr' = thr
          /\ nlive' \in 0 .. Word - 1 /\ inq' \in Queues /\ opened' \subseteq Client
          /\ stray' \in BOOLEAN /\ index' = index
          /\ UNCHANGED <<process, dead, inq2, turn, tables>>
      BY <1>1, <1>4, <2>2 DEF _accept_loop, Hand, TypeOK, queues, fds, Queues
    <3> QED  BY <3>1, BasicHand
  <2> QED  BY <2>1, <2>2
<1>5. CASE PollTimeout
  <2>1. /\ acc.at = "poll" /\ acc' = [at |-> "top", cli |-> NULL] /\ thr' = thr
        /\ nlive' \in 0 .. Word - 1 /\ inq' \in Queues /\ opened' \subseteq Client
        /\ stray' \in BOOLEAN /\ index' = index
        /\ UNCHANGED <<process, dead, inq2, turn, tables>>
    BY <1>1, <1>5 DEF PollTimeout, Hand, TypeOK, queues, fds, Queues
  <2> QED  BY <2>1, BasicHand
<1>6. ASSUME NEW c \in Client, _accept_client(c) PROVE BasicInv'
  <2>1. /\ acc.at = "poll" /\ thr' = thr
        /\ nlive' \in 0 .. Word - 1 /\ inq' \in Queues /\ opened' \subseteq Client
        /\ stray' \in BOOLEAN /\ index' = index
        /\ UNCHANGED <<process, dead, inq2, turn, tables>>
    BY <1>1, <1>6 DEF _accept_client, Hand, TypeOK, queues, Queues
  <2>2. CASE acc' = [at |-> "top", cli |-> NULL]
    BY <2>1, <2>2, BasicHand
  <2>3. CASE acc' = [at |-> "add", cli |-> c]
    <3>1. c # NULL
      BY Constants
    <3> QED  BY <2>1, <2>3, <3>1, BasicHand
  <2> QED  BY <1>6, <2>2, <2>3 DEF _accept_client, Hand
<1>7. CASE work_add_session
  <2>1. /\ acc.at = "add" /\ acc.cli \in Client /\ acc.cli # NULL /\ thr' = thr
        /\ nlive' \in 0 .. Word - 1 /\ inq' \in Queues /\ index' = index
        /\ UNCHANGED <<process, dead, inq2, turn, tables>>
    BY <1>1, <1>7, Constants DEF work_add_session, BasicInv, LifeInv, TypeOK, queues, Queues
  <2>2. CASE Priv(index)
    <3>1. /\ acc' = [at |-> "lock", cli |-> acc.cli] /\ thr[index] \in {"run", "close"}
          /\ opened' \subseteq Client /\ stray' \in BOOLEAN
      BY <1>1, <1>7, <2>2 DEF work_add_session, Hand, fds, TypeOK, Priv
    <3> QED  BY <2>1, <3>1, BasicHand
  <2>3. CASE ~Priv(index)
    <3>1. acc' = [at |-> "top", cli |-> NULL] /\ Close(acc.cli)
      BY <1>7, <2>3 DEF work_add_session, Refuse, Hand
    <3>2. opened' \subseteq Client /\ stray' \in BOOLEAN
      BY <1>1, <3>1, TypedClose
    <3> QED  BY <2>1, <3>1, <3>2, BasicHand
  <2> QED  BY <2>2, <2>3
<1>8. CASE work_add_session_Locked
  <2>1. /\ acc.at = "lock" /\ acc.cli \in Client /\ thr' = thr /\ index \in Work
        /\ nlive' \in 0 .. Word - 1 /\ index' = index
        /\ UNCHANGED <<process, dead, inq2, turn, tables>>
    BY <1>1, <1>8, Constants DEF work_add_session_Locked, BasicInv, LifeInv, TypeOK
  <2>2. CASE Len(inq[index]) >= maxfds
    <3>1. acc' = [at |-> "top", cli |-> NULL] /\ Close(acc.cli) /\ inq' \in Queues
      BY <1>1, <1>8, <2>2 DEF work_add_session_Locked, Refuse, Hand, TypeOK, Queues
    <3>2. opened' \subseteq Client /\ stray' \in BOOLEAN
      BY <1>1, <3>1, TypedClose
    <3> QED  BY <2>1, <3>1, <3>2, BasicHand
  <2>3. CASE ~(Len(inq[index]) >= maxfds)
    <3>1. /\ acc' = [at |-> "count", cli |-> NULL] /\ opened' \subseteq Client /\ stray' \in BOOLEAN
          /\ inq' = [inq EXCEPT ![index] = Append(inq[index], acc.cli)]
      BY <1>1, <1>8, <2>3 DEF work_add_session_Locked, Hand, TypeOK, fds
    <3>2. inq' \in Queues
      BY <1>1, <2>1, <3>1 DEF TypeOK, Queues
    <3> QED  BY <2>1, <3>1, <3>2, BasicHand
  <2> QED  BY <2>2, <2>3
<1>9. CASE work_add_session_Freed
  <2>1. CASE Crash /\ UNCHANGED fds
    <3>1. TypeOK'
      <4>1. UNCHANGED <<stop, nlive, made, index, queues, tables, fds>>
        BY <1>9, <2>1 DEF work_add_session_Freed, Crash, fds
      <4> QED  BY <1>1, <2>1, <4>1 DEF Crash, TypeOK, queues, tables, fds
    <3>2. LifeInv'
      BY <2>1, Constants DEF Crash, LifeInv
    <3>3. WorkInv'
      BY <1>9 DEF BasicInv, WorkInv, work_add_session_Freed, queues, tables
    <3> QED  BY <3>1, <3>2, <3>3 DEF BasicInv
  <2>2. CASE Refuse /\ UNCHANGED <<process, dead, thr>>
    <3>1. opened' \subseteq Client /\ stray' \in BOOLEAN
      BY <1>1, <2>2, TypedClose DEF Refuse
    <3>2. /\ acc.at = "lock" /\ acc' = [at |-> "top", cli |-> NULL]
          /\ nlive' \in 0 .. Word - 1 /\ inq' \in Queues /\ index' = index
          /\ UNCHANGED <<process, dead, thr, inq2, turn, tables>>
      BY <1>1, <1>9, <2>2 DEF work_add_session_Freed, Refuse, Hand, TypeOK, queues, Queues
    <3> QED  BY <3>1, <3>2, BasicHand
  <2>3. CASE Hand("count", NULL) /\ UNCHANGED <<process, fds, dead, thr>>
    <3>1. /\ acc.at = "lock" /\ acc' = [at |-> "count", cli |-> NULL]
          /\ opened' \subseteq Client /\ stray' \in BOOLEAN
          /\ nlive' \in 0 .. Word - 1 /\ inq' \in Queues /\ index' = index
          /\ UNCHANGED <<process, dead, thr, inq2, turn, tables>>
      BY <1>1, <1>9, <2>3 DEF work_add_session_Freed, Hand, TypeOK, queues, Queues, fds
    <3> QED  BY <3>1, BasicHand
  <2> QED  BY <1>9, <2>1, <2>2, <2>3 DEF work_add_session_Freed
<1>10. CASE _accept_client_Counts
  <2>1. nlive' \in 0 .. Word - 1
    <3>1. nlive' = (nlive + 1) % Word /\ nlive + 1 \in Int
      BY <1>1, <1>10 DEF _accept_client_Counts, TypeOK
    <3> QED  BY <3>1, Modulo
  <2>2. index' \in Work
    BY <1>1, <1>10, Constants DEF _accept_client_Counts, Rotate, TypeOK, Work
  <2>3. /\ acc.at = "count" /\ acc' = [at |-> "top", cli |-> NULL]
        /\ inq' \in Queues /\ opened' \subseteq Client /\ stray' \in BOOLEAN
        /\ UNCHANGED <<process, dead, thr, inq2, turn, tables>>
    BY <1>1, <1>10 DEF _accept_client_Counts, Hand, TypeOK, queues, fds, Queues
  <2> QED  BY <2>1, <2>2, <2>3, BasicHand
<1> QED  BY <1>2, <1>3, <1>4, <1>5, <1>6, <1>7, <1>8, <1>9, <1>10 DEF Accept

LEMMA WorkFacts ==
  ASSUME BasicInv, NEW w \in Work
  PROVE  /\ w \in Thread /\ inq \in Queues /\ inq2 \in Queues /\ inq[w] \in Seq(Client)
         /\ inq2[w] \in Seq(Client) /\ table[w] \in Table /\ nfreed[w] \in 0 .. Max
         /\ nfreed[w] = Cardinality({id \in Id : table[w][id] = NULL})
         /\ nlive \in 0 .. Word - 1 /\ opened \subseteq Client /\ stray \in BOOLEAN
         /\ turn[w] = "batch" <=> inq2[w] # <<>>
         /\ turn[w] \in {"top", "batch", "serve"}
         /\ table = [table EXCEPT ![w] = table[w]] /\ nfreed = [nfreed EXCEPT ![w] = nfreed[w]]
         /\ turn = [turn EXCEPT ![w] = turn[w]]
         /\ freeid \in [Work -> 0 .. Max]
  BY Constants DEF BasicInv, TypeOK, WorkInv, Queues, Table

\* The session of client c, the head of the batch, gets an id.
LEMMA TableAdd ==
  ASSUME BasicInv, NEW w \in Work, NEW c \in Client, session_table_add(w, c)
  PROVE  \E id \in Id :
           /\ table[w][id] = NULL
           /\ table' = [table EXCEPT ![w] = [table[w] EXCEPT ![id] = c]]
           /\ [table[w] EXCEPT ![id] = c] \in Table
           /\ nfreed' = [nfreed EXCEPT ![w] = nfreed[w] - 1] /\ nfreed[w] - 1 \in 0 .. Max
           /\ nfreed[w] - 1 = Cardinality({j \in Id : [table[w] EXCEPT ![id] = c][j] = NULL})
           /\ freeid' \in [Work -> 0 .. Max]
<1> DEFINE id == _st_get_free_id(w)
<1>1. id \in Id /\ table[w][id] = NULL
  <2>1. id >= 0
    BY DEF session_table_add
  <2> QED  BY <2>1, FreeId DEF BasicInv
<1>2. nfreed[w] >= 1
  BY DEF session_table_add
<1>3. /\ table' = [table EXCEPT ![w] = [table[w] EXCEPT ![id] = c]]
      /\ nfreed' = [nfreed EXCEPT ![w] = nfreed[w] - 1]
      /\ freeid' = [freeid EXCEPT ![w] = id + 1]
  BY WorkFacts DEF session_table_add, BasicInv, TypeOK
<1> HIDE DEF id
<1>5. [table[w] EXCEPT ![id] = c] \in Table
  BY <1>1, WorkFacts DEF Table
<1>6. id + 1 \in 0 .. Max /\ nfreed[w] - 1 \in 0 .. Max
  <2>1. nfreed[w] \in 0 .. Max /\ Max \in Nat /\ id \in 0 .. Max - 1
    BY <1>1, WorkFacts, Constants DEF Id
  <2> QED  BY <1>2, <2>1
<1>7. freeid' \in [Work -> 0 .. Max]
  <2>1. freeid \in [Work -> 0 .. Max]
    BY WorkFacts
  <2> QED  BY <1>3, <1>6, <2>1
<1>8. nfreed[w] - 1 = Cardinality({j \in Id : [table[w] EXCEPT ![id] = c][j] = NULL})
  <2>1. table[w] \in Table /\ nfreed[w] = Cardinality({j \in Id : table[w][j] = NULL})
    BY WorkFacts
  <2>2. Cardinality({j \in Id : [table[w] EXCEPT ![id] = c][j] = NULL})
          = Cardinality({j \in Id : table[w][j] = NULL}) - 1
    BY <1>1, <2>1, NullCount
  <2> QED  BY <2>1, <2>2
<1> QED  BY <1>1, <1>3, <1>5, <1>6, <1>7, <1>8

LEMMA TablePass ==
  ASSUME BasicInv, NEW w \in Work, session_table_pass(w)
  PROVE  table' = table /\ nfreed' = nfreed /\ freeid' \in [Work -> 0 .. Max]
<1> DEFINE id == _st_get_free_id(w)
<1>1. id \in Id
  <2>1. id >= 0
    BY DEF session_table_pass
  <2> QED  BY <2>1, FreeId DEF BasicInv
<1>2. freeid' = [freeid EXCEPT ![w] = id + 1] /\ table' = table /\ nfreed' = nfreed
  BY DEF session_table_pass
<1> HIDE DEF id
<1>3. id + 1 \in 0 .. Max
  BY <1>1, Constants DEF Id
<1> QED  BY <1>2, <1>3, WorkFacts

LEMMA TableDel ==
  ASSUME BasicInv, NEW w \in Work, NEW id \in Id, table[w][id] # NULL, session_table_del(w, id)
  PROVE  /\ table' = [table EXCEPT ![w] = [table[w] EXCEPT ![id] = NULL]]
         /\ [table[w] EXCEPT ![id] = NULL] \in Table
         /\ nfreed' = [nfreed EXCEPT ![w] = nfreed[w] + 1] /\ nfreed[w] + 1 \in 0 .. Max
         /\ nfreed[w] + 1 = Cardinality({j \in Id : [table[w] EXCEPT ![id] = NULL][j] = NULL})
         /\ freeid' = freeid
<1>1. /\ table' = [table EXCEPT ![w] = [table[w] EXCEPT ![id] = NULL]]
      /\ nfreed' = [nfreed EXCEPT ![w] = nfreed[w] + 1] /\ freeid' = freeid
  BY WorkFacts DEF session_table_del, BasicInv, TypeOK
<1> DEFINE u == [table[w] EXCEPT ![id] = NULL]
<1>2. u \in Table
  BY WorkFacts DEF Table
<1>3. table[w][id] \in Client /\ table[w] \in Table
  BY WorkFacts DEF Table
<1>4. nfreed[w] + 1 = Cardinality({j \in Id : u[j] = NULL})
  BY <1>3, WorkFacts, NullCount
<1>5. Cardinality({j \in Id : u[j] = NULL}) \in 0 .. Max
  <2> HIDE DEF u
  <2> QED  BY <1>2, <1>3, NullCount
<1> QED  BY <1>1, <1>2, <1>4, <1>5

LEMMA UncountType == ASSUME TypeOK, Uncount PROVE nlive' \in 0 .. Word - 1
<1>1. nlive' = (nlive - 1) % Word /\ nlive - 1 \in Int
  BY DEF TypeOK, Uncount
<1> QED  BY <1>1, Modulo

\* A round begins: what was queued is to be done.
LEMMA BasicRound ==
  ASSUME BasicInv, NEW w \in Work, _work_loop(w), ~stop
  PROVE  /\ BasicInv'
         /\ inq' = [inq EXCEPT ![w] = <<>>] /\ inq2' = [inq2 EXCEPT ![w] = inq[w]]
         /\ inq2[w] = <<>> /\ UNCHANGED <<process, nlive, dead, thr, acc, index, tables, fds>>
<1>1. /\ inq' = [inq EXCEPT ![w] = <<>>] /\ inq2' = [inq2 EXCEPT ![w] = inq[w]]
      /\ turn' = [turn EXCEPT ![w] = IF inq[w] = <<>> THEN "serve" ELSE "batch"]
      /\ UNCHANGED <<process, nlive, dead, thr, acc, index, tables, fds>>
      /\ turn[w] = "top"
  BY DEF _work_loop, TakeQueue, Turn
<1>2. inq' \in Queues /\ inq2' \in Queues
  BY <1>1, WorkFacts DEF Queues
<1> DEFINE l == IF inq[w] = <<>> THEN "serve" ELSE "batch"
<1>3. /\ inq2[w] = <<>> /\ inq2'[w] = inq[w] /\ l \in {"top", "batch", "serve"}
      /\ l = "batch" <=> inq2'[w] # <<>>
      /\ \A x \in Work \ {w} : inq2'[x] = inq2[x]
  BY <1>1, WorkFacts DEF Queues
<1>4. /\ table' = [table EXCEPT ![w] = table[w]] /\ nfreed' = [nfreed EXCEPT ![w] = nfreed[w]]
      /\ freeid' \in [Work -> 0 .. Max] /\ nlive' \in 0 .. Word - 1
      /\ opened' \subseteq Client /\ stray' \in BOOLEAN
  BY <1>1, WorkFacts DEF tables, fds
<1> HIDE DEF l
<1>5. turn' = [turn EXCEPT ![w] = l]
  BY <1>1 DEF l
<1>6. /\ table[w] \in Table /\ nfreed[w] \in 0 .. Max
      /\ nfreed[w] = Cardinality({id \in Id : table[w][id] = NULL})
  BY WorkFacts
<1>7. UNCHANGED <<process, dead, thr, acc, index>>
  BY <1>1
<1>8. BasicInv'
  BY <1>2, <1>3, <1>4, <1>5, <1>6, <1>7, BasicWork
<1> QED  BY <1>1, <1>3, <1>8

\* One descriptor of the batch: what happens to c, and to the counts.
LEMMA BasicBatch ==
  ASSUME BasicInv, NEW w \in Work, _work_get_session(w)
  PROVE  /\ BasicInv'
         /\ inq2[w] # <<>> /\ inq' = inq /\ inq2' = [inq2 EXCEPT ![w] = Tail(inq2[w])]
         /\ Head(inq2[w]) \in Client
         /\ UNCHANGED <<process, dead, thr, acc, index>>
         /\ \/ /\ \E id \in Id : /\ table[w][id] = NULL
                                 /\ table' = [table EXCEPT ![w] =
                                                [table[w] EXCEPT ![id] = Head(inq2[w])]]
               /\ UNCHANGED <<fds, nlive>>
            \/ table' = table /\ Close(Head(inq2[w])) /\ (nlive' = nlive \/ Uncount)
<1> DEFINE c == Head(inq2[w])
           l == IF Tail(inq2[w]) = <<>> THEN "serve" ELSE "batch"
<1>1. /\ thr[w] = "run" /\ turn[w] = "batch" /\ inq' = inq
      /\ inq2' = [inq2 EXCEPT ![w] = Tail(inq2[w])]
      /\ turn' = [turn EXCEPT ![w] = l]
      /\ UNCHANGED <<process, dead, thr, acc, index>>
  BY DEF _work_get_session, Turn
<1>2. /\ inq2[w] # <<>> /\ inq2[w] \in Seq(Client)
  BY <1>1, WorkFacts
<1>3. c \in Client /\ Tail(inq2[w]) \in Seq(Client)
  BY <1>2
<1>4. inq' \in Queues /\ inq2' \in Queues
  BY <1>1, <1>3, WorkFacts DEF Queues
<1>5. /\ l \in {"top", "batch", "serve"} /\ (l = "batch" <=> inq2'[w] # <<>>)
      /\ \A x \in Work \ {w} : inq2'[x] = inq2[x]
  BY <1>1, WorkFacts DEF Queues
<1>6. /\ table[w] \in Table /\ nfreed[w] \in 0 .. Max
      /\ nfreed[w] = Cardinality({id \in Id : table[w][id] = NULL})
  BY WorkFacts
<1>7. \/ session_table_add(w, c) /\ UNCHANGED <<fds, nlive>>
      \/ Close(c) /\ UNCHANGED <<tables, nlive>>
      \/ session_table_pass(w) /\ Close(c) /\ Uncount
  BY DEF _work_get_session, AddFails
<1> HIDE DEF c, l
<1>8. CASE session_table_add(w, c) /\ UNCHANGED <<fds, nlive>>
  <2>1. PICK id \in Id :
          /\ table[w][id] = NULL
          /\ table' = [table EXCEPT ![w] = [table[w] EXCEPT ![id] = c]]
          /\ [table[w] EXCEPT ![id] = c] \in Table
          /\ nfreed' = [nfreed EXCEPT ![w] = nfreed[w] - 1] /\ nfreed[w] - 1 \in 0 .. Max
          /\ nfreed[w] - 1 = Cardinality({j \in Id : [table[w] EXCEPT ![id] = c][j] = NULL})
          /\ freeid' \in [Work -> 0 .. Max]
    BY <1>3, <1>8, TableAdd
  <2>2. nlive' \in 0 .. Word - 1 /\ opened' \subseteq Client /\ stray' \in BOOLEAN
    BY <1>8, WorkFacts DEF fds
  <2> DEFINE t == [table[w] EXCEPT ![id] = c]
             n == nfreed[w] - 1
  <2>3. /\ table' = [table EXCEPT ![w] = t] /\ t \in Table /\ nfreed' = [nfreed EXCEPT ![w] = n]
        /\ n \in 0 .. Max /\ n = Cardinality({j \in Id : t[j] = NULL})
        /\ freeid' \in [Work -> 0 .. Max]
    BY <2>1
  <2> HIDE DEF t, n
  <2>4. BasicInv'
    BY <1>1, <1>4, <1>5, <2>2, <2>3, BasicWork
  <2> QED  BY <1>1, <1>2, <1>3, <1>8, <2>1, <2>4 DEF c
<1>9. CASE /\ table' = table /\ nfreed' = nfreed /\ freeid' \in [Work -> 0 .. Max]
           /\ Close(c) /\ (nlive' = nlive \/ Uncount)
  <2>1. nlive' \in 0 .. Word - 1
    BY <1>9, WorkFacts, UncountType DEF BasicInv
  <2>2. opened' \subseteq Client /\ stray' \in BOOLEAN
    BY <1>9, TypedClose DEF BasicInv
  <2>3. table' = [table EXCEPT ![w] = table[w]] /\ nfreed' = [nfreed EXCEPT ![w] = nfreed[w]]
    BY <1>9, WorkFacts
  <2>4. BasicInv'
    BY <1>1, <1>4, <1>5, <1>6, <1>9, <2>1, <2>2, <2>3, BasicWork
  <2> QED  BY <1>1, <1>2, <1>3, <1>9, <2>4 DEF c
<1>10. CASE Close(c) /\ UNCHANGED <<tables, nlive>>
  BY <1>9, <1>10, WorkFacts DEF tables
<1>11. CASE session_table_pass(w) /\ Close(c) /\ Uncount
  BY <1>9, <1>11, TablePass
<1> QED  BY <1>7, <1>8, <1>10, <1>11

\* A session ends.
LEMMA BasicEnd ==
  ASSUME BasicInv, NEW w \in Work, NEW id \in Id, _work_free_session(w, id)
  PROVE  /\ BasicInv'
         /\ table[w][id] \in Client /\ inq' = inq /\ inq2' = inq2
         /\ table' = [table EXCEPT ![w] = [table[w] EXCEPT ![id] = NULL]]
         /\ Close(table[w][id]) /\ Uncount
         /\ UNCHANGED <<process, dead, thr, acc, index>>
<1>1. /\ table[w][id] # NULL /\ Close(table[w][id]) /\ session_table_del(w, id) /\ Uncount
      /\ UNCHANGED <<process, dead, thr, acc, index>> /\ inq' = inq /\ inq2' = inq2 /\ turn' = turn
  BY DEF _work_free_session, queues
<1>2. /\ table' = [table EXCEPT ![w] = [table[w] EXCEPT ![id] = NULL]]
      /\ [table[w] EXCEPT ![id] = NULL] \in Table
      /\ nfreed' = [nfreed EXCEPT ![w] = nfreed[w] + 1] /\ nfreed[w] + 1 \in 0 .. Max
      /\ nfreed[w] + 1 = Cardinality({j \in Id : [table[w] EXCEPT ![id] = NULL][j] = NULL})
      /\ freeid' = freeid
  BY <1>1, TableDel
<1>3. table[w][id] \in Client
  BY <1>1, WorkFacts DEF Table
<1>4. /\ nlive' \in 0 .. Word - 1 /\ opened' \subseteq Client /\ stray' \in BOOLEAN
      /\ freeid' \in [Work -> 0 .. Max]
  BY <1>1, <1>2, WorkFacts, UncountType, TypedClose DEF BasicInv
<1>5. /\ inq' \in Queues /\ inq2' \in Queues /\ turn[w] \in {"top", "batch", "serve"}
      /\ turn' = [turn EXCEPT ![w] = turn[w]] /\ (turn[w] = "batch" <=> inq2'[w] # <<>>)
      /\ \A x \in Work \ {w} : inq2'[x] = inq2[x]
  BY <1>1, WorkFacts
<1> DEFINE t == [table[w] EXCEPT ![id] = NULL]
           n == nfreed[w] + 1
<1>6. /\ table' = [table EXCEPT ![w] = t] /\ t \in Table /\ nfreed' = [nfreed EXCEPT ![w] = n]
      /\ n \in 0 .. Max /\ n = Cardinality({j \in Id : t[j] = NULL})
  BY <1>2
<1> HIDE DEF t, n
<1>7. BasicInv'
  BY <1>1, <1>4, <1>5, <1>6, BasicWork
<1> QED  BY <1>1, <1>2, <1>3, <1>7

LEMMA BasicServed ==
  ASSUME BasicInv, NEW w \in Work, ServedAll(w)
  PROVE  BasicInv'
<1>1. /\ turn[w] = "serve" /\ turn' = [turn EXCEPT ![w] = "top"]
      /\ UNCHANGED <<process, nlive, dead, thr, acc, index, inq, inq2, tables, fds>>
  BY DEF ServedAll
<1>2. TypeOK'
  BY <1>1 DEF BasicInv, TypeOK, process, tables, fds
<1>3. LifeInv'
  BY <1>1 DEF BasicInv, LifeInv, process
<1>4. WorkInv'
  BY <1>1 DEF BasicInv, WorkInv, TypeOK, tables
<1> QED  BY <1>2, <1>3, <1>4 DEF BasicInv

LEMMA BasicWorker == ASSUME BasicInv, NEW w \in Work, Worker(w) PROVE BasicInv'
<1>1. w \in Thread /\ TypeOK
  BY Constants DEF BasicInv
<1>2. CASE InitFails(w)
  BY <1>1, <1>2, BasicMove DEF InitFails
<1>3. CASE _work_init(w)
  <2>1. sig' \in BOOLEAN
    BY <1>1, <1>3 DEF _work_init, process, TypeOK
  <2> QED  BY <1>1, <1>3, <2>1, BasicMove DEF _work_init, process
<1>4. CASE _work_loop(w)
  <2>1. CASE stop
    <3>1. sig' \in BOOLEAN
      BY <1>1, <1>4 DEF _work_loop, process, TypeOK
    <3> QED  BY <1>1, <1>4, <2>1, <3>1, BasicMove DEF _work_loop, process
  <2>2. CASE ~stop
    BY <1>4, <2>2, BasicRound
  <2> QED  BY <2>1, <2>2
<1>5. CASE _work_free(w)
  <2>1. sig' \in BOOLEAN
    BY <1>1, <1>5 DEF _work_free, process, TypeOK
  <2> QED  BY <1>1, <1>5, <2>1, BasicMove DEF _work_free, process
<1> QED  BY <1>2, <1>3, <1>4, <1>5, BasicBatch, BasicEnd, BasicServed DEF Worker

LEMMA BasicNext == BasicInv /\ [Next]_vars => BasicInv'
<1>1. ASSUME BasicInv, UNCHANGED vars PROVE BasicInv'
  <2>1. TypeOK'
    BY <1>1 DEF vars, BasicInv, TypeOK
  <2>2. LifeInv'
    BY <1>1 DEF vars, BasicInv, LifeInv
  <2>3. WorkInv'
    BY <1>1 DEF vars, BasicInv, WorkInv
  <2> QED  BY <2>1, <2>2, <2>3 DEF BasicInv
<1> QED  BY <1>1, BasicMain, BasicAccept, BasicWorker DEF Next

-----------------------------------------------------------------------------
(* What each action does to the number of places.                          *)

LEMMA TotalType ==
  ASSUME BasicInv, NEW S
  PROVE  Total(S) \in Nat
<1>1. inq \in Queues /\ inq2 \in Queues
  BY DEF BasicInv, TypeOK, Queues
<1> QED  BY <1>1, AllSpotsFinite, FS_CardinalityType DEF Total, TotalOf

\* A step that works on the places of thread w only.
LEMMA Moved ==
  ASSUME BasicInv, NEW w \in Work, NEW S, inq' \in Queues, inq2' \in Queues,
         \A x \in Work \ {w} : inq'[x] = inq[x] /\ inq2'[x] = inq2[x] /\ table'[x] = table[x]
  PROVE  /\ Total(S) \in Nat /\ Total(S)' \in Nat /\ Here(inq[w], inq2[w], table[w], S) \in Nat
         /\ Total(S)' = Total(S) + Here(inq'[w], inq2'[w], table'[w], S)
                                 - Here(inq[w], inq2[w], table[w], S)
<1>1. inq \in Queues /\ inq2 \in Queues
  BY WorkFacts
<1>2. /\ TotalOf(inq, inq2, table, S) = Here(inq[w], inq2[w], table[w], S)
                                          + Cardinality(AllSpots(Work \ {w}, inq, inq2, table, S))
      /\ Here(inq[w], inq2[w], table[w], S) \in Nat
      /\ Cardinality(AllSpots(Work \ {w}, inq, inq2, table, S)) \in Nat
  BY <1>1, Split
<1>3. /\ TotalOf(inq', inq2', table', S) = Here(inq'[w], inq2'[w], table'[w], S)
                                          + Cardinality(AllSpots(Work \ {w}, inq', inq2', table', S))
      /\ Here(inq'[w], inq2'[w], table'[w], S) \in Nat
      /\ Cardinality(AllSpots(Work \ {w}, inq', inq2', table', S)) \in Nat
  BY Split
<1>4. AllSpots(Work \ {w}, inq', inq2', table', S) = AllSpots(Work \ {w}, inq, inq2, table, S)
  BY DEF AllSpots
<1> DEFINE n == Cardinality(AllSpots(Work \ {w}, inq, inq2, table, S))
           a == Here(inq[w], inq2[w], table[w], S)
           b == Here(inq'[w], inq2'[w], table'[w], S)
<1>5. Total(S) = a + n /\ Total(S)' = b + n /\ a \in Nat /\ b \in Nat /\ n \in Nat
  BY <1>2, <1>3, <1>4 DEF Total
<1> HIDE DEF n, a, b
<1>6. a + n \in Nat /\ b + n \in Nat /\ b + n = a + n + b - a
  BY <1>5
<1> QED  BY <1>5, <1>6 DEF a, b

LEMMA TotalQueue ==
  ASSUME BasicInv, NEW w \in Work, NEW c \in Client, NEW S \in SUBSET Client,
         inq' = [inq EXCEPT ![w] = Append(inq[w], c)], inq2' = inq2, table' = table
  PROVE  Total(S)' = Total(S) + One(c, S)
<1>1. /\ inq \in Queues /\ inq2 \in Queues /\ inq[w] \in Seq(Client) /\ inq2[w] \in Seq(Client)
  BY WorkFacts
<1>2. /\ inq' \in Queues /\ inq2' \in Queues /\ inq'[w] = Append(inq[w], c)
      /\ \A x \in Work \ {w} : inq'[x] = inq[x] /\ inq2'[x] = inq2[x] /\ table'[x] = table[x]
  BY <1>1 DEF Queues
<1>3. /\ Total(S) \in Nat /\ Total(S)' \in Nat /\ Here(inq[w], inq2[w], table[w], S) \in Nat
      /\ Total(S)' = Total(S) + Here(inq'[w], inq2'[w], table'[w], S)
                              - Here(inq[w], inq2[w], table[w], S)
  BY <1>2, Moved
<1>4. Here(inq'[w], inq2'[w], table'[w], S) = Here(inq[w], inq2[w], table[w], S) + One(c, S)
  <2>1. /\ Cardinality(Pos(inq[w], S)) \in Nat /\ Cardinality(Pos(inq2[w], S)) \in Nat
        /\ Cardinality(Ids(table[w], S)) \in Nat
    BY <1>1, PosFinite, IdsFinite
  <2>2. Cardinality(Pos(inq'[w], S)) = Cardinality(Pos(inq[w], S)) + One(c, S)
    BY <1>1, <1>2, PosAppend
  <2> QED  BY <2>1, <2>2 DEF Here, One
<1> QED  BY <1>3, <1>4 DEF One

LEMMA TotalRound ==
  ASSUME BasicInv, NEW w \in Work, NEW S \in SUBSET Client, inq2[w] = <<>>,
         inq' = [inq EXCEPT ![w] = <<>>], inq2' = [inq2 EXCEPT ![w] = inq[w]], table' = table
  PROVE  Total(S)' = Total(S)
<1>1. /\ inq \in Queues /\ inq2 \in Queues /\ inq[w] \in Seq(Client) /\ inq2[w] \in Seq(Client)
  BY WorkFacts
<1>2. /\ inq' \in Queues /\ inq2' \in Queues /\ inq'[w] = <<>> /\ inq2'[w] = inq[w]
      /\ \A x \in Work \ {w} : inq'[x] = inq[x] /\ inq2'[x] = inq2[x] /\ table'[x] = table[x]
  BY <1>1 DEF Queues
<1>3. /\ Total(S) \in Nat /\ Total(S)' \in Nat /\ Here(inq[w], inq2[w], table[w], S) \in Nat
      /\ Total(S)' = Total(S) + Here(inq'[w], inq2'[w], table'[w], S)
                              - Here(inq[w], inq2[w], table[w], S)
  BY <1>2, Moved
<1>4. Here(inq'[w], inq2'[w], table'[w], S) = Here(inq[w], inq2[w], table[w], S)
  <2>1. Cardinality(Pos(inq[w], S)) \in Nat /\ Cardinality(Ids(table[w], S)) \in Nat
    BY <1>1, PosFinite, IdsFinite
  <2>2. Cardinality(Pos(<<>>, S)) = 0
    BY PosEmpty
  <2> QED  BY <1>2, <2>1, <2>2 DEF Here
<1> QED  BY <1>3, <1>4

LEMMA TotalAdd ==
  ASSUME BasicInv, NEW w \in Work, NEW S \in SUBSET Client, NEW id \in Id, inq2[w] # <<>>,
         inq' = inq, inq2' = [inq2 EXCEPT ![w] = Tail(inq2[w])], table[w][id] = NULL,
         table' = [table EXCEPT ![w] = [table[w] EXCEPT ![id] = Head(inq2[w])]]
  PROVE  Total(S)' = Total(S)
<1> DEFINE c == Head(inq2[w])
<1>1. /\ inq \in Queues /\ inq2 \in Queues /\ inq[w] \in Seq(Client) /\ inq2[w] \in Seq(Client)
      /\ table[w] \in Table
  BY WorkFacts
<1>2. /\ Cardinality(Pos(inq2[w], S)) = Cardinality(Pos(Tail(inq2[w]), S)) + One(c, S)
      /\ c \in Client /\ Tail(inq2[w]) \in Seq(Client)
  BY <1>1, PosTail
<1> HIDE DEF c
<1>3. /\ inq' \in Queues /\ inq2' \in Queues /\ inq2'[w] = Tail(inq2[w])
      /\ table'[w] = [table[w] EXCEPT ![id] = c]
      /\ \A x \in Work \ {w} : inq'[x] = inq[x] /\ inq2'[x] = inq2[x] /\ table'[x] = table[x]
  BY <1>1, <1>2 DEF Queues, c, BasicInv, TypeOK
<1>4. /\ Total(S) \in Nat /\ Total(S)' \in Nat /\ Here(inq[w], inq2[w], table[w], S) \in Nat
      /\ Total(S)' = Total(S) + Here(inq'[w], inq2'[w], table'[w], S)
                              - Here(inq[w], inq2[w], table[w], S)
  BY <1>3, Moved
<1>5. Here(inq'[w], inq2'[w], table'[w], S) = Here(inq[w], inq2[w], table[w], S)
  <2>1. /\ Cardinality(Pos(inq[w], S)) \in Nat /\ Cardinality(Ids(table[w], S)) \in Nat
        /\ Cardinality(Pos(Tail(inq2[w]), S)) \in Nat
    BY <1>1, <1>2, PosFinite, IdsFinite
  <2>2. One(NULL, S) = 0
    BY Constants DEF One
  <2>3. Cardinality(Ids(table'[w], S)) = Cardinality(Ids(table[w], S)) + One(c, S) - 0
    BY <1>1, <1>2, <1>3, <2>2, IdsSet
  <2>4. inq'[w] = inq[w] /\ inq2'[w] = Tail(inq2[w]) /\ One(c, S) \in Nat
    BY <1>3 DEF One
  <2> QED  BY <1>2, <2>1, <2>3, <2>4 DEF Here
<1> QED  BY <1>4, <1>5

LEMMA TotalDrop ==
  ASSUME BasicInv, NEW w \in Work, NEW S \in SUBSET Client, inq2[w] # <<>>,
         inq' = inq, inq2' = [inq2 EXCEPT ![w] = Tail(inq2[w])], table' = table
  PROVE  Total(S)' \in Nat /\ Total(S)' = Total(S) - One(Head(inq2[w]), S)
<1> DEFINE c == Head(inq2[w])
<1>1. /\ inq \in Queues /\ inq2 \in Queues /\ inq[w] \in Seq(Client) /\ inq2[w] \in Seq(Client)
  BY WorkFacts
<1>2. /\ Cardinality(Pos(inq2[w], S)) = Cardinality(Pos(Tail(inq2[w]), S)) + One(c, S)
      /\ Tail(inq2[w]) \in Seq(Client)
  BY <1>1, PosTail
<1> HIDE DEF c
<1>3. /\ inq' \in Queues /\ inq2' \in Queues /\ inq2'[w] = Tail(inq2[w])
      /\ \A x \in Work \ {w} : inq'[x] = inq[x] /\ inq2'[x] = inq2[x] /\ table'[x] = table[x]
  BY <1>1, <1>2 DEF Queues
<1>4. /\ Total(S) \in Nat /\ Total(S)' \in Nat /\ Here(inq[w], inq2[w], table[w], S) \in Nat
      /\ Total(S)' = Total(S) + Here(inq'[w], inq2'[w], table'[w], S)
                              - Here(inq[w], inq2[w], table[w], S)
  BY <1>3, Moved
<1>5. Here(inq'[w], inq2'[w], table'[w], S) = Here(inq[w], inq2[w], table[w], S) - One(c, S)
  <2>1. /\ Cardinality(Pos(inq[w], S)) \in Nat /\ Cardinality(Ids(table[w], S)) \in Nat
        /\ Cardinality(Pos(Tail(inq2[w]), S)) \in Nat
    BY <1>1, <1>2, PosFinite, IdsFinite
  <2>2. inq'[w] = inq[w] /\ inq2'[w] = Tail(inq2[w]) /\ table'[w] = table[w] /\ One(c, S) \in Nat
    BY <1>3 DEF One
  <2> QED  BY <1>2, <2>1, <2>2 DEF Here
<1>6. One(c, S) \in Nat
  BY DEF One
<1>7. Total(S)' = Total(S) - One(c, S)
  BY <1>4, <1>5, <1>6
<1> QED  BY <1>4, <1>7 DEF c

LEMMA TotalEnd ==
  ASSUME BasicInv, NEW w \in Work, NEW S \in SUBSET Client, NEW id \in Id,
         inq' = inq, inq2' = inq2, table[w][id] \in Client,
         table' = [table EXCEPT ![w] = [table[w] EXCEPT ![id] = NULL]]
  PROVE  Total(S)' \in Nat /\ Total(S)' = Total(S) - One(table[w][id], S)
<1> DEFINE c == table[w][id]
<1>1. /\ inq \in Queues /\ inq2 \in Queues /\ inq[w] \in Seq(Client) /\ inq2[w] \in Seq(Client)
      /\ table[w] \in Table
  BY WorkFacts
<1>2. /\ inq' \in Queues /\ inq2' \in Queues
      /\ table'[w] = [table[w] EXCEPT ![id] = NULL]
      /\ \A x \in Work \ {w} : inq'[x] = inq[x] /\ inq2'[x] = inq2[x] /\ table'[x] = table[x]
  BY <1>1 DEF Queues, BasicInv, TypeOK
<1>3. /\ Total(S) \in Nat /\ Total(S)' \in Nat /\ Here(inq[w], inq2[w], table[w], S) \in Nat
      /\ Total(S)' = Total(S) + Here(inq'[w], inq2'[w], table'[w], S)
                              - Here(inq[w], inq2[w], table[w], S)
  BY <1>2, Moved
<1>4. One(c, S) \in Nat /\ One(NULL, S) = 0
  BY Constants DEF One
<1>5. Here(inq'[w], inq2'[w], table'[w], S) = Here(inq[w], inq2[w], table[w], S) - One(c, S)
  <2>1. /\ Cardinality(Pos(inq[w], S)) \in Nat /\ Cardinality(Ids(table[w], S)) \in Nat
        /\ Cardinality(Pos(inq2[w], S)) \in Nat
    BY <1>1, PosFinite, IdsFinite
  <2>2. Cardinality(Ids(table'[w], S)) = Cardinality(Ids(table[w], S)) + 0 - One(c, S)
    <3>1. Cardinality(Ids([table[w] EXCEPT ![id] = NULL], S))
            = Cardinality(Ids(table[w], S)) + One(NULL, S) - One(table[w][id], S)
      BY <1>1, IdsSet
    <3> QED  BY <1>2, <1>4, <3>1
  <2> HIDE DEF c
  <2> QED  BY <1>4, <2>1, <2>2 DEF Here
<1> HIDE DEF c
<1>6. Total(S)' = Total(S) - One(c, S)
  BY <1>3, <1>4, <1>5
<1> QED  BY <1>3, <1>6 DEF c

LEMMA TotalQuiet ==
  ASSUME UNCHANGED <<inq, inq2, table>>, NEW S
  PROVE  Total(S)' = Total(S)
  BY DEF Total

-----------------------------------------------------------------------------
(* nlive covers what is in service.                                        *)

\* Nothing is queued, dropped or counted, and the accept thread lets a client in only
\* when it has found room.
LEMMA CountHand ==
  ASSUME BasicInv, CountInv, UNCHANGED <<inq, inq2, table, nlive>>,
         acc.at # "count", acc'.at # "count",
         \/ acc.at \in {"add", "lock"}
         \/ acc'.at \notin {"add", "lock"}
         \/ nlive < Max
  PROVE  CountInv'
<1>1. PICK v \in 0 .. Max : Covers(v)
  BY DEF CountInv
<1>2. v \in Nat /\ Max \in Nat /\ Word \in Nat /\ Total(Client) \in Nat
  BY Constants, TotalType
<1>3. Total(Client) <= v /\ v + Room <= Max /\ nlive = v
  BY <1>1, <1>2 DEF Covers, Pend
<1>4. v + Room' <= Max
  BY <1>2, <1>3 DEF Room
<1>5. Total(Client)' = Total(Client)
  BY TotalQuiet
<1>6. Covers(v)'
  BY <1>2, <1>3, <1>4, <1>5 DEF Covers, Pend
<1> QED  BY <1>6 DEF CountInv

\* The accept thread has handed a client over, and counts it later.
LEMMA CountPend ==
  ASSUME BasicInv, CountInv, acc.at = "lock", acc'.at = "count", nlive' = nlive,
         Total(Client)' \in Nat, Total(Client)' <= Total(Client) + 1
  PROVE  CountInv'
<1>1. PICK v \in 0 .. Max : Covers(v)
  BY DEF CountInv
<1>2. v \in Nat /\ Max \in Nat /\ Word \in Nat /\ Total(Client) \in Nat
  BY Constants, TotalType
<1>3. Total(Client) <= v /\ v + 1 <= Max /\ nlive = v
  BY <1>1, <1>2 DEF Covers, Pend, Room
<1>4. v + 1 \in 0 .. Max /\ Total(Client)' <= v + 1 /\ nlive' = (v + 1) - 1 /\ ~(v + 1 < 1)
  BY <1>2, <1>3
<1>5. Covers(v + 1)'
  BY <1>4, <1>3, <1>2 DEF Covers, Pend, Room
<1> QED  BY <1>4, <1>5 DEF CountInv

\* A place is given up, counted or not.
LEMMA CountDrop ==
  ASSUME BasicInv, CountInv, UNCHANGED acc, Total(Client)' \in Nat,
         Total(Client)' = Total(Client) - 1, nlive' = nlive \/ Uncount
  PROVE  CountInv'
<1>1. PICK v \in 0 .. Max : Covers(v)
  BY DEF CountInv
<1>2. /\ v \in Nat /\ Max \in Nat /\ Word \in Nat /\ Total(Client) \in Nat /\ Word > Max + 1
      /\ v <= Max /\ Pend \in {0, 1} /\ Room \in {0, 1}
  BY Constants, TotalType DEF Pend, Room
<1>3. /\ Total(Client) <= v /\ v + Room <= Max /\ nlive = IF v < Pend THEN Word - 1 ELSE v - Pend
      /\ Pend' = Pend /\ Room' = Room
  BY <1>1 DEF Covers, Pend, Room
<1>4. CASE nlive' = nlive
  <2>1. Covers(v)'
    BY <1>2, <1>3, <1>4 DEF Covers
  <2> QED  BY <2>1 DEF CountInv
<1>5. CASE Uncount
  <2>1. v >= 1 /\ nlive = v - Pend /\ nlive' = (nlive - 1) % Word
    BY <1>2, <1>3, <1>5 DEF Uncount
  <2>2. v - 1 \in 0 .. Max /\ Total(Client)' <= v - 1 /\ (v - 1) + Room <= Max
    BY <1>2, <1>3, <2>1
  <2>3. nlive' = IF v - 1 < Pend THEN Word - 1 ELSE (v - 1) - Pend
    <3>1. CASE nlive = 0
      <4>1. (-1) % Word = Word - 1
        <5>1. Word - 1 \in 0 .. Word - 1 /\ Word > 0
          BY <1>2
        <5> DEFINE m == (-1) % Word
                   d == (-1) \div Word
        <5>2. m \in 0 .. Word - 1 /\ d \in Int /\ -1 = Word * d + m
          BY <1>2
        <5> HIDE DEF m, d
        <5>3. ~(d >= 0)
          <6>1. ASSUME d >= 0 PROVE Word * d >= 0
            BY <1>2, <5>2, <6>1
          <6>2. Word * d \in Int /\ Word * d < 0
            BY <1>2, <5>2
          <6> QED  BY <6>1, <6>2
        <5>4. ~(d <= -2)
          <6>1. ASSUME d <= -2 PROVE Word * d <= Word * (-2)
            BY <1>2, <5>2, <6>1
          <6>2. Word * (-2) = 0 - Word - Word
            BY <1>2
          <6>3. Word * d \in Int /\ Word * d >= 0 - Word
            BY <1>2, <5>2
          <6> QED  BY <1>2, <6>1, <6>2, <6>3
        <5>5. d = -1
          BY <5>2, <5>3, <5>4
        <5>6. m = Word - 1
          BY <1>2, <5>2, <5>5
        <5> QED  BY <5>6 DEF m
      <4>2. nlive - 1 = -1 /\ v - 1 < Pend
        BY <1>2, <2>1, <3>1
      <4> QED  BY <2>1, <4>1, <4>2
    <3>2. CASE nlive # 0
      <4>1. nlive - 1 \in 0 .. Word - 1 /\ ~(v - 1 < Pend) /\ nlive - 1 = (v - 1) - Pend
        BY <1>2, <2>1, <3>2
      <4>2. (nlive - 1) % Word = nlive - 1
        BY <1>2, <4>1, ModOnce
      <4> QED  BY <2>1, <4>1, <4>2
    <3> QED  BY <3>1, <3>2
  <2>4. Covers(v - 1)'
    BY <1>3, <2>2, <2>3 DEF Covers
  <2> QED  BY <2>2, <2>4 DEF CountInv
<1> QED  BY <1>4, <1>5

\* The accept thread counts.
LEMMA CountCounts ==
  ASSUME BasicInv, CountInv, _accept_client_Counts
  PROVE  CountInv'
<1>1. PICK v \in 0 .. Max : Covers(v)
  BY DEF CountInv
<1>2. /\ v \in Nat /\ Max \in Nat /\ Word \in Nat /\ Total(Client) \in Nat /\ Word > Max + 1
      /\ v <= Max
  BY Constants, TotalType
<1>3. /\ acc.at = "count" /\ acc'.at = "top" /\ nlive' = (nlive + 1) % Word
      /\ UNCHANGED <<inq, inq2, table>>
  BY DEF _accept_client_Counts, Hand, queues, tables
<1>4. Total(Client) <= v /\ nlive = IF v < 1 THEN Word - 1 ELSE v - 1
  BY <1>1, <1>3 DEF Covers, Pend
<1>5. nlive' = v
  <2>1. CASE v = 0
    <3>1. nlive + 1 = 0 + Word /\ 0 \in 0 .. Word - 1
      BY <1>2, <1>4, <2>1
    <3>2. (0 + Word) % Word = 0
      BY <1>2, <3>1, ModOnce
    <3> QED  BY <1>3, <2>1, <3>1, <3>2
  <2>2. CASE v # 0
    <3>1. nlive + 1 = v /\ v \in 0 .. Word - 1
      BY <1>2, <1>4, <2>2
    <3>2. v % Word = v
      BY <1>2, <3>1, ModOnce
    <3> QED  BY <1>3, <3>1, <3>2
  <2> QED  BY <2>1, <2>2
<1>6. Total(Client)' = Total(Client)
  BY <1>3, TotalQuiet
<1>7. Covers(v)'
  BY <1>2, <1>3, <1>4, <1>5, <1>6 DEF Covers, Pend, Room
<1> QED  BY <1>7 DEF CountInv

LEMMA CountAccept == ASSUME BasicInv, CountInv, Accept PROVE CountInv'
<1>1. CASE InitFails(Acc) \/ _accept_init \/ (_accept_loop /\ stop)
  <2>1. UNCHANGED <<inq, inq2, table, nlive, acc>>
    BY <1>1 DEF InitFails, _accept_init, _accept_loop, queues, tables
  <2> QED  BY <2>1, TotalQuiet DEF CountInv, Covers, Pend, Room
<1>2. CASE (_accept_loop /\ ~stop) \/ PollTimeout
  <2>1. /\ UNCHANGED <<inq, inq2, table, nlive>> /\ acc.at \in {"top", "poll"}
        /\ acc'.at \in {"top", "poll"}
    BY <1>2 DEF _accept_loop, PollTimeout, Hand, queues, tables
  <2> QED  BY <2>1, CountHand
<1>3. ASSUME NEW c \in Client, _accept_client(c) PROVE CountInv'
  <2>1. /\ UNCHANGED <<inq, inq2, table, nlive>> /\ acc.at = "poll"
        /\ acc'.at = "top" \/ (acc'.at = "add" /\ ~Exceeded)
    BY <1>3 DEF _accept_client, Hand, queues, tables
  <2>2. ~Exceeded => nlive < Max
    BY Constants DEF Exceeded, BasicInv, TypeOK
  <2> QED  BY <2>1, <2>2, CountHand
<1>4. CASE work_add_session
  <2>1. /\ UNCHANGED <<inq, inq2, table, nlive>> /\ acc.at = "add" /\ acc'.at \in {"top", "lock"}
    BY <1>4 DEF work_add_session, Refuse, Hand, queues, tables
  <2> QED  BY <2>1, CountHand
<1>5. CASE work_add_session_Locked
  <2>1. CASE Refuse /\ inq' = inq
    <3>1. /\ UNCHANGED <<inq, inq2, table, nlive>> /\ acc.at = "lock" /\ acc'.at = "top"
      BY <1>5, <2>1 DEF work_add_session_Locked, Refuse, Hand, tables
    <3> QED  BY <3>1, CountHand
  <2>2. CASE inq' = [inq EXCEPT ![index] = Append(@, acc.cli)] /\ Hand("count", NULL)
    <3>1. /\ acc.at = "lock" /\ acc'.at = "count" /\ inq2' = inq2 /\ table' = table /\ nlive' = nlive
      BY <1>5, <2>2 DEF work_add_session_Locked, Hand, tables
    <3>2. acc.cli \in Client /\ index \in Work
      BY <3>1 DEF BasicInv, LifeInv, TypeOK
    <3>3. Total(Client)' = Total(Client) + One(acc.cli, Client)
      BY <2>2, <3>1, <3>2, TotalQueue
    <3>4. Total(Client) \in Nat
      BY TotalType
    <3> QED  BY <3>1, <3>2, <3>3, <3>4, CountPend DEF One
  <2> QED  BY <1>5, <2>1, <2>2 DEF work_add_session_Locked
<1>6. CASE work_add_session_Freed
  <2>1. UNCHANGED <<inq, inq2, table, nlive>> /\ acc.at = "lock" /\ acc'.at \in {"top", "count"}
    BY <1>6 DEF work_add_session_Freed, Refuse, Hand, Crash, queues, tables
  <2>2. CASE acc'.at = "top"
    BY <2>1, <2>2, CountHand
  <2>3. CASE acc'.at = "count"
    <3>1. Total(Client)' = Total(Client) /\ Total(Client) \in Nat
      BY <2>1, TotalQuiet, TotalType
    <3> QED  BY <2>1, <2>3, <3>1, CountPend
  <2> QED  BY <2>1, <2>2, <2>3
<1> QED  BY <1>1, <1>2, <1>3, <1>4, <1>5, <1>6, CountCounts DEF Accept

LEMMA CountWorker == ASSUME BasicInv, CountInv, NEW w \in Work, Worker(w) PROVE CountInv'
<1>1. CASE InitFails(w) \/ _work_init(w) \/ (_work_loop(w) /\ stop) \/ ServedAll(w) \/ _work_free(w)
  <2>1. UNCHANGED <<inq, inq2, table, nlive, acc>>
    BY <1>1 DEF InitFails, _work_init, _work_loop, ServedAll, _work_free, queues, tables
  <2> QED  BY <2>1, TotalQuiet DEF CountInv, Covers, Pend, Room
<1>2. CASE _work_loop(w) /\ ~stop
  <2>1. Total(Client)' = Total(Client) /\ nlive' = nlive /\ acc' = acc
    BY <1>2, BasicRound, TotalRound DEF tables
  <2> QED  BY <2>1 DEF CountInv, Covers, Pend, Room
<1>3. CASE _work_get_session(w)
  <2>1. CASE /\ nlive' = nlive
             /\ \E id \in Id : /\ table[w][id] = NULL
                               /\ table' = [table EXCEPT ![w] = [table[w] EXCEPT ![id] = Head(inq2[w])]]
    <3>1. Total(Client)' = Total(Client) /\ acc' = acc
      BY <1>3, <2>1, BasicBatch, TotalAdd
    <3> QED  BY <2>1, <3>1 DEF CountInv, Covers, Pend, Room
  <2>2. CASE table' = table /\ (nlive' = nlive \/ Uncount)
    <3>1. /\ Head(inq2[w]) \in Client /\ acc' = acc
          /\ Total(Client)' \in Nat /\ Total(Client)' = Total(Client) - One(Head(inq2[w]), Client)
      BY <1>3, <2>2, BasicBatch, TotalDrop
    <3> QED  BY <2>2, <3>1, CountDrop DEF One
  <2> QED  BY <1>3, <2>1, <2>2, BasicBatch
<1>4. ASSUME NEW id \in Id, _work_free_session(w, id) PROVE CountInv'
  <2>1. /\ table[w][id] \in Client /\ acc' = acc /\ Uncount
        /\ Total(Client)' \in Nat /\ Total(Client)' = Total(Client) - One(table[w][id], Client)
    BY <1>4, BasicEnd, TotalEnd
  <2> QED  BY <2>1, CountDrop DEF One
<1> QED  BY <1>1, <1>2, <1>3, <1>4 DEF Worker

LEMMA CountNext == BasicInv /\ CountInv /\ [Next]_vars => CountInv'
<1> SUFFICES ASSUME BasicInv, CountInv, [Next]_vars PROVE CountInv'
  OBVIOUS
<1>1. CASE _sig_int \/ Main \/ UNCHANGED vars
  <2>1. UNCHANGED <<inq, inq2, table, nlive, acc>>
    BY <1>1 DEF _sig_int, Main, _sig_int_Main, _proxy_init, thread_create, proxy_main, vars,
                queues, tables
  <2> QED  BY <2>1, TotalQuiet DEF CountInv, Covers, Pend, Room
<1>2. CASE _sig_int_Early
  <2>1. thr[Acc] = "none"
    BY <1>2, ThreadNumbers, Constants DEF _sig_int_Early, BasicInv, LifeInv
  <2>2. acc.at = "top" /\ acc'.at = "top" /\ UNCHANGED <<inq, inq2, table, nlive>>
    BY <1>2, <2>1 DEF _sig_int_Early, Crash, BasicInv, LifeInv, queues, tables
  <2> QED  BY <2>2, CountHand
<1> QED  BY <1>1, <1>2, CountAccept, CountWorker DEF Next

-----------------------------------------------------------------------------
(* A descriptor has one owner.                                             *)

LEMMA OwnersType ==
  ASSUME BasicInv, NEW c \in Client
  PROVE  /\ Owners(c) \in Nat /\ Total({c}) \in Nat
         /\ InHand(c) \in {0, 1} /\ Open(c) \in {0, 1}
  BY TotalType DEF Owners, InHand, Open

\* Nobody's share changes; after a stop a client may be lost.
LEMMA OwnersKept ==
  ASSUME BasicInv, OwnerInv, UNCHANGED <<opened, stray>>, stop => stop',
         \A c \in Client : \/ Owners(c)' = Owners(c)
                           \/ stop /\ Owners(c)' \in Nat /\ Owners(c)' <= Owners(c)
  PROVE  OwnerInv'
<1>1. ~stray'
  BY DEF OwnerInv
<1>2. ASSUME NEW c \in Client
      PROVE  Owners(c)' <= Open(c)' /\ (~stop' => Owners(c)' = Open(c)')
  <2>1. Open(c)' = Open(c)
    BY DEF Open
  <2>2. Owners(c) \in Nat /\ Open(c) \in {0, 1}
    BY OwnersType
  <2>3. Owners(c) <= Open(c) /\ (~stop => Owners(c) = Open(c))
    BY DEF OwnerInv
  <2>4. Owners(c)' = Owners(c) \/ (stop /\ Owners(c)' \in Nat /\ Owners(c)' <= Owners(c))
    OBVIOUS
  <2> QED  BY <2>1, <2>2, <2>3, <2>4
<1> QED  BY <1>1, <1>2 DEF OwnerInv

\* An owner closes its descriptor.
LEMMA OwnersClose ==
  ASSUME BasicInv, OwnerInv, NEW c \in Client, Close(c), stop' = stop,
         \A d \in Client : Owners(d)' \in Nat /\ Owners(d)' = Owners(d) - One(c, {d})
  PROVE  OwnerInv'
<1>1. Owners(c)' \in Nat /\ Owners(c)' = Owners(c) - 1 /\ Owners(c) \in Nat
  <2>1. One(c, {c}) = 1
    BY DEF One
  <2> QED  BY <2>1, OwnersType
<1>2. Owners(c) <= Open(c)
  BY DEF OwnerInv
<1>3. c \in opened /\ Owners(c) = 1
  BY <1>1, <1>2 DEF Open
<1>4. ~stray'
  BY <1>3 DEF Close, OwnerInv
<1>5. ASSUME NEW d \in Client
      PROVE  Owners(d)' <= Open(d)' /\ (~stop' => Owners(d)' = Open(d)')
  <2>1. CASE d = c
    <3>1. Open(d)' = 0 /\ Owners(d)' = 0
      BY <1>1, <1>3, <2>1 DEF Open, Close
    <3> QED  BY <3>1
  <2>2. CASE d # c
    <3>1. Open(d)' = Open(d) /\ One(c, {d}) = 0
      BY <2>2 DEF Open, Close, One
    <3>2. Owners(d)' = Owners(d) /\ Owners(d) \in Nat /\ Open(d) \in {0, 1}
      BY <3>1, OwnersType
    <3>3. Owners(d) <= Open(d) /\ (~stop => Owners(d) = Open(d))
      BY DEF OwnerInv
    <3> QED  BY <3>1, <3>2, <3>3
  <2> QED  BY <2>1, <2>2
<1> QED  BY <1>4, <1>5 DEF OwnerInv

LEMMA OwnersRefuse ==
  ASSUME BasicInv, OwnerInv, acc.cli \in Client, Refuse, stop' = stop,
         UNCHANGED <<inq, inq2, table>>
  PROVE  OwnerInv'
<1>1. Close(acc.cli) /\ acc' = [at |-> "top", cli |-> NULL]
  BY DEF Refuse, Hand
<1>2. ASSUME NEW d \in Client
      PROVE  Owners(d)' \in Nat /\ Owners(d)' = Owners(d) - One(acc.cli, {d})
  <2>1. Total({d})' = Total({d}) /\ Total({d}) \in Nat
    BY TotalQuiet, TotalType
  <2>2. InHand(d)' = 0 /\ InHand(d) = One(acc.cli, {d})
    BY <1>1, Constants DEF InHand, One
  <2> QED  BY <2>1, <2>2 DEF Owners, One
<1> QED  BY <1>1, <1>2, OwnersClose

\* The accept thread has no client in its hand, before and after.
LEMMA OwnersEmptyHand ==
  ASSUME BasicInv, OwnerInv, acc.cli = NULL, acc'.cli = NULL, stop => stop',
         UNCHANGED <<inq, inq2, table, opened, stray>>
  PROVE  OwnerInv'
<1>1. ASSUME NEW c \in Client PROVE Owners(c)' = Owners(c)
  BY TotalQuiet DEF Owners, InHand
<1> QED  BY <1>1, OwnersKept

LEMMA OwnersAccept == ASSUME BasicInv, OwnerInv, Accept PROVE OwnerInv'
<1>1. CASE InitFails(Acc) \/ _accept_init \/ (_accept_loop /\ stop)
  <2>1. UNCHANGED <<inq, inq2, table, acc, opened, stray, stop>>
    BY <1>1 DEF InitFails, _accept_init, _accept_loop, queues, tables, fds, process
  <2>2. \A c \in Client : Owners(c)' = Owners(c)
    BY <2>1, TotalQuiet DEF Owners, InHand
  <2> QED  BY <2>1, <2>2, OwnersKept
<1>2. CASE (_accept_loop /\ ~stop) \/ PollTimeout \/ _accept_client_Counts
  <2>1. acc.at \in {"top", "poll", "count"} /\ acc'.cli = NULL
    BY <1>2 DEF _accept_loop, PollTimeout, _accept_client_Counts, Hand
  <2>2. UNCHANGED <<inq, inq2, table, opened, stray, stop>>
    BY <1>2 DEF _accept_loop, PollTimeout, _accept_client_Counts, queues, tables, fds, process
  <2>3. acc.cli = NULL
    BY <2>1 DEF BasicInv, LifeInv
  <2> QED  BY <2>1, <2>2, <2>3, OwnersEmptyHand
<1>3. ASSUME NEW c \in Client, _accept_client(c) PROVE OwnerInv'
  <2>1. /\ acc.at = "poll" /\ acc.cli = NULL /\ c \notin opened
        /\ UNCHANGED <<inq, inq2, table, stray, stop>>
    BY <1>3 DEF _accept_client, BasicInv, LifeInv, queues, tables, process
  <2>2. CASE Hand("top", NULL) /\ UNCHANGED opened
    BY <2>1, <2>2, OwnersEmptyHand DEF Hand
  <2>3. CASE Hand("add", c) /\ opened' = opened \cup {c}
    <3>1. ASSUME NEW d \in Client
          PROVE  Owners(d)' <= Open(d)' /\ (~stop' => Owners(d)' = Open(d)')
      <4>1. Total({d})' = Total({d}) /\ Total({d}) \in Nat
        BY <2>1, TotalQuiet, TotalType
      <4>2. InHand(d) = 0 /\ InHand(d)' = IF d = c THEN 1 ELSE 0
        BY <2>1, <2>3, Constants DEF InHand, Hand
      <4>3. Open(d)' = IF d = c THEN 1 ELSE Open(d)
        BY <2>3 DEF Open
      <4>4. d = c => Open(d) = 0
        BY <2>1 DEF Open
      <4>5. Total({d}) + 0 <= Open(d) /\ (~stop => Total({d}) + 0 = Open(d)) /\ Open(d) \in {0, 1}
        BY <4>2, OwnersType DEF OwnerInv, Owners
      <4> QED  BY <2>1, <4>1, <4>2, <4>3, <4>4, <4>5 DEF Owners
    <3>2. ~stray'
      BY <2>1 DEF OwnerInv
    <3> QED  BY <3>1, <3>2 DEF OwnerInv
  <2> QED  BY <1>3, <2>2, <2>3 DEF _accept_client
<1>4. CASE work_add_session
  <2>1. acc.cli \in Client /\ UNCHANGED <<inq, inq2, table, stop>>
    BY <1>4 DEF work_add_session, BasicInv, LifeInv, TypeOK, queues, tables, process
  <2>2. CASE Refuse
    BY <2>1, <2>2, OwnersRefuse
  <2>3. CASE Hand("lock", acc.cli) /\ UNCHANGED fds
    <3>1. \A c \in Client : Owners(c)' = Owners(c)
      BY <2>1, <2>3, TotalQuiet DEF Owners, InHand, Hand
    <3> QED  BY <2>1, <2>3, <3>1, OwnersKept DEF fds
  <2> QED  BY <1>4, <2>2, <2>3 DEF work_add_session
<1>5. CASE work_add_session_Locked
  <2>1. acc.cli \in Client /\ index \in Work /\ UNCHANGED <<inq2, table, stop>>
    BY <1>5 DEF work_add_session_Locked, BasicInv, LifeInv, TypeOK, tables, process
  <2>2. CASE Refuse /\ inq' = inq
    BY <2>1, <2>2, OwnersRefuse
  <2>3. CASE /\ inq' = [inq EXCEPT ![index] = Append(@, acc.cli)]
             /\ Hand("count", NULL) /\ UNCHANGED fds
    <3>1. ASSUME NEW c \in Client PROVE Owners(c)' = Owners(c)
      <4>1. Total({c})' = Total({c}) + One(acc.cli, {c}) /\ Total({c}) \in Nat
        BY <2>1, <2>3, TotalQueue, TotalType
      <4>2. InHand(c) = One(acc.cli, {c}) /\ InHand(c)' = 0
        BY <2>3, Constants DEF InHand, One, Hand
      <4> QED  BY <4>1, <4>2 DEF Owners, One
    <3> QED  BY <2>1, <2>3, <3>1, OwnersKept DEF fds
  <2> QED  BY <1>5, <2>2, <2>3 DEF work_add_session_Locked
<1>6. CASE work_add_session_Freed
  <2>1. /\ acc.cli \in Client /\ UNCHANGED <<inq, inq2, table, stop>>
        /\ stop
    <3>1. /\ acc.at = "lock" /\ index \in Work /\ thr[index] \in {"close", "gone"}
          /\ UNCHANGED <<inq, inq2, table, stop>>
      BY <1>6 DEF work_add_session_Freed, BasicInv, TypeOK, Crash, process, queues, tables
    <3> QED  BY <3>1 DEF BasicInv, LifeInv, TypeOK
  <2>2. CASE Refuse
    BY <2>1, <2>2, OwnersRefuse
  <2>3. CASE acc'.cli = NULL /\ UNCHANGED fds
    <3>1. ASSUME NEW c \in Client PROVE Owners(c)' \in Nat /\ Owners(c)' <= Owners(c)
      <4>1. Total({c})' = Total({c}) /\ Total({c}) \in Nat /\ InHand(c) \in {0, 1}
        BY <2>1, TotalQuiet, OwnersType
      <4>2. InHand(c)' = 0
        BY <2>3, Constants DEF InHand
      <4> QED  BY <4>1, <4>2 DEF Owners
    <3> QED  BY <2>1, <2>3, <3>1, OwnersKept DEF fds
  <2> QED  BY <1>6, <2>2, <2>3 DEF work_add_session_Freed, Hand, Crash
<1> QED  BY <1>1, <1>2, <1>3, <1>4, <1>5, <1>6 DEF Accept

LEMMA OwnersWorker == ASSUME BasicInv, OwnerInv, NEW w \in Work, Worker(w) PROVE OwnerInv'
<1>0. \A c \in Client : {c} \in SUBSET Client
  OBVIOUS
<1>1. CASE InitFails(w) \/ _work_init(w) \/ (_work_loop(w) /\ stop) \/ ServedAll(w) \/ _work_free(w)
  <2>1. UNCHANGED <<inq, inq2, table, acc, opened, stray, stop>>
    BY <1>1 DEF InitFails, _work_init, _work_loop, ServedAll, _work_free, queues, tables, fds, process
  <2>2. \A c \in Client : Owners(c)' = Owners(c)
    BY <2>1, TotalQuiet DEF Owners, InHand
  <2> QED  BY <2>1, <2>2, OwnersKept
<1>2. CASE _work_loop(w) /\ ~stop
  <2>1. UNCHANGED <<acc, opened, stray, stop>>
    BY <1>2, BasicRound DEF fds, process
  <2>2. ASSUME NEW c \in Client PROVE Owners(c)' = Owners(c)
    <3>1. Total({c})' = Total({c})
      BY <1>0, <1>2, BasicRound, TotalRound DEF tables
    <3> QED  BY <2>1, <3>1 DEF Owners, InHand
  <2> QED  BY <2>1, <2>2, OwnersKept
<1>3. CASE _work_get_session(w)
  <2>1. CASE /\ UNCHANGED fds
             /\ \E id \in Id : /\ table[w][id] = NULL
                               /\ table' = [table EXCEPT ![w] = [table[w] EXCEPT ![id] = Head(inq2[w])]]
    <3>1. UNCHANGED <<acc, stop>>
      BY <1>3, BasicBatch DEF process
    <3>2. ASSUME NEW c \in Client PROVE Owners(c)' = Owners(c)
      <4>1. Total({c})' = Total({c})
        BY <1>0, <1>3, <2>1, BasicBatch, TotalAdd
      <4> QED  BY <3>1, <4>1 DEF Owners, InHand
    <3> QED  BY <2>1, <3>1, <3>2, OwnersKept DEF fds
  <2>2. CASE table' = table /\ Close(Head(inq2[w]))
    <3>1. UNCHANGED <<acc, stop>> /\ Head(inq2[w]) \in Client
      BY <1>3, BasicBatch DEF process
    <3>2. ASSUME NEW d \in Client
          PROVE  Owners(d)' \in Nat /\ Owners(d)' = Owners(d) - One(Head(inq2[w]), {d})
      <4>1. Total({d})' \in Nat /\ Total({d})' = Total({d}) - One(Head(inq2[w]), {d})
        BY <1>0, <1>3, <2>2, BasicBatch, TotalDrop
      <4>2. InHand(d)' = InHand(d) /\ InHand(d) \in {0, 1} /\ Total({d}) \in Nat
        BY <3>1, OwnersType DEF InHand
      <4> QED  BY <4>1, <4>2 DEF Owners, One
    <3> QED  BY <2>2, <3>1, <3>2, OwnersClose
  <2> QED  BY <1>3, <2>1, <2>2, BasicBatch
<1>4. ASSUME NEW id \in Id, _work_free_session(w, id) PROVE OwnerInv'
  <2>1. UNCHANGED <<acc, stop>> /\ table[w][id] \in Client /\ Close(table[w][id])
    BY <1>4, BasicEnd DEF process
  <2>2. ASSUME NEW d \in Client
        PROVE  Owners(d)' \in Nat /\ Owners(d)' = Owners(d) - One(table[w][id], {d})
    <3>1. Total({d})' \in Nat /\ Total({d})' = Total({d}) - One(table[w][id], {d})
      BY <1>0, <1>4, BasicEnd, TotalEnd
    <3>2. InHand(d)' = InHand(d) /\ InHand(d) \in {0, 1} /\ Total({d}) \in Nat
      BY <2>1, OwnersType DEF InHand
    <3> QED  BY <3>1, <3>2 DEF Owners, One
  <2> QED  BY <2>1, <2>2, OwnersClose
<1> QED  BY <1>1, <1>2, <1>3, <1>4 DEF Worker

LEMMA OwnersNext == BasicInv /\ OwnerInv /\ [Next]_vars => OwnerInv'
<1> SUFFICES ASSUME BasicInv, OwnerInv, [Next]_vars PROVE OwnerInv'
  OBVIOUS
<1>1. CASE _sig_int \/ Main \/ UNCHANGED vars
  <2>1. UNCHANGED <<inq, inq2, table, acc, opened, stray>> /\ (stop => stop')
    BY <1>1 DEF _sig_int, Main, _sig_int_Main, _proxy_init, thread_create, proxy_main, vars,
                queues, tables, fds
  <2>2. \A c \in Client : Owners(c)' = Owners(c)
    BY <2>1, TotalQuiet DEF Owners, InHand
  <2> QED  BY <2>1, <2>2, OwnersKept
<1>2. CASE _sig_int_Early
  <2>1. thr[Acc] = "none"
    BY <1>2, ThreadNumbers, Constants DEF _sig_int_Early, BasicInv, LifeInv
  <2>2. acc.cli = NULL /\ acc'.cli = NULL /\ UNCHANGED <<inq, inq2, table, opened, stray, stop>>
    BY <1>2, <2>1 DEF _sig_int_Early, Crash, BasicInv, LifeInv, queues, tables, fds
  <2> QED  BY <2>2, OwnersEmptyHand
<1> QED  BY <1>1, <1>2, OwnersAccept, OwnersWorker DEF Next


-----------------------------------------------------------------------------
(* The invariant of the specification.                                     *)

LEMMA InitTotal == ASSUME Init, NEW S \in SUBSET Client PROVE Total(S) = 0
<1>1. ASSUME NEW w \in Work PROVE Spots(w, inq[w], inq2[w], table[w], S) = {}
  <2>1. inq[w] = <<>> /\ inq2[w] = <<>> /\ \A id \in Id : table[w][id] = NULL
    BY DEF Init
  <2>2. Pos(inq[w], S) = {} /\ Pos(inq2[w], S) = {} /\ Ids(table[w], S) = {}
    BY <2>1, Constants DEF Pos, Ids
  <2> QED  BY <2>2 DEF Spots, Tagged
<1>2. AllSpots(Work, inq, inq2, table, S) = {}
  BY <1>1 DEF AllSpots
<1> QED  BY <1>2, FS_EmptySet DEF Total, TotalOf

LEMMA IInvInit == Init => IInv
<1> SUFFICES ASSUME Init PROVE IInv
  OBVIOUS
<1>1. CountInv
  <2>1. Total(Client) = 0 /\ Pend = 0 /\ Room = 0 /\ nlive = 0
    BY InitTotal DEF Init, Pend, Room
  <2>2. Covers(0) /\ 0 \in 0 .. Max
    BY <2>1, Constants DEF Covers
  <2> QED  BY <2>2 DEF CountInv
<1>2. ASSUME NEW c \in Client PROVE Owners(c) = 0 /\ Open(c) = 0
  <2>1. Total({c}) = 0
    BY InitTotal
  <2>2. acc.cli # c /\ c \notin opened
    BY Constants DEF Init
  <2> QED  BY <2>1, <2>2 DEF Owners, InHand, Open
<1>3. OwnerInv
  BY <1>2 DEF OwnerInv, Init
<1> QED  BY <1>1, <1>3, BasicInit DEF IInv, BasicInv

LEMMA IInvNext == IInv /\ [Next]_vars => IInv'
<1> SUFFICES ASSUME IInv, [Next]_vars PROVE IInv'
  OBVIOUS
<1>1. BasicInv /\ CountInv /\ OwnerInv
  BY DEF IInv, BasicInv
<1> QED  BY <1>1, BasicNext, CountNext, OwnersNext DEF IInv, BasicInv

\* The invariant from which the properties follow: which threads there are, what the queues
\* and tables hold, and the two accounts of the places a client has.
THEOREM InductiveInvariant == Spec => []IInv
  BY IInvInit, IInvNext, PTL DEF Spec

\* Types of the state of main, the accept thread and the work threads.
THEOREM TypeCorrect == Spec => []TypeOK
<1>1. IInv => TypeOK
  BY DEF IInv
<1> QED  BY <1>1, InductiveInvariant, PTL

-----------------------------------------------------------------------------
(* The limit on sessions.                                                  *)

Holder(x) == IF x[1] = "inq" THEN inq[x[2]][x[3]]
             ELSE IF x[1] = "inq2" THEN inq2[x[2]][x[3]] ELSE table[x[2]][x[3]]

\* There are no more clients in service than places.
LEMMA ServiceCount ==
  ASSUME BasicInv
  PROVE  /\ IsFiniteSet(InService) /\ Cardinality(InService) \in Nat
         /\ Cardinality(InService) <= Total(Client)
<1> DEFINE P == AllSpots(Work, inq, inq2, table, Client)
           f == [x \in P |-> Holder(x)]
<1>0. /\ inq \in Queues /\ inq2 \in Queues
      /\ \A w \in Work : inq[w] \in Seq(Client) /\ inq2[w] \in Seq(Client) /\ table[w] \in Table
  BY WorkFacts DEF BasicInv, TypeOK, Queues
<1>1. IsFiniteSet(P) /\ Cardinality(P) \in Nat
  BY <1>0, AllSpotsFinite, FS_CardinalityType
<1>2. ASSUME NEW x \in P PROVE Holder(x) \in InService
  <2>1. PICK w \in Work : x \in Spots(w, inq[w], inq2[w], table[w], Client)
    BY DEF AllSpots
  <2>2. CASE x \in Tagged("inq", w, Pos(inq[w], Client))
    BY <2>2 DEF Tagged, Pos, Holder, InService, Queued
  <2>3. CASE x \in Tagged("inq2", w, Pos(inq2[w], Client))
    BY <2>3 DEF Tagged, Pos, Holder, InService, Batched
  <2>4. CASE x \in Tagged("table", w, Ids(table[w], Client))
    BY <2>4, Constants DEF Tagged, Ids, Holder, InService, Live
  <2> QED  BY <2>1, <2>2, <2>3, <2>4 DEF Spots
<1>3. ASSUME NEW c \in InService PROVE \E x \in P : Holder(x) = c
  <2>1. PICK w \in Work : c \in Queued(w) \/ c \in Batched(w) \/ c \in Live(w)
    BY DEF InService
  <2>2. CASE c \in Queued(w)
    <3>1. PICK i \in DOMAIN inq[w] : inq[w][i] = c
      BY <2>2 DEF Queued
    <3>2. inq[w][i] \in Client
      BY <1>0
    <3>3. <<"inq", w, i>> \in Spots(w, inq[w], inq2[w], table[w], Client)
      BY <3>2 DEF Spots, Tagged, Pos
    <3>4. Holder(<<"inq", w, i>>) = c
      BY <3>1 DEF Holder
    <3> QED  BY <3>3, <3>4 DEF AllSpots
  <2>3. CASE c \in Batched(w)
    <3>1. PICK i \in DOMAIN inq2[w] : inq2[w][i] = c
      BY <2>3 DEF Batched
    <3>2. inq2[w][i] \in Client
      BY <1>0
    <3>3. <<"inq2", w, i>> \in Spots(w, inq[w], inq2[w], table[w], Client)
      BY <3>2 DEF Spots, Tagged, Pos
    <3>4. Holder(<<"inq2", w, i>>) = c
      BY <3>1 DEF Holder
    <3> QED  BY <3>3, <3>4 DEF AllSpots
  <2>4. CASE c \in Live(w)
    <3>1. PICK id \in Id : table[w][id] = c /\ c # NULL
      BY <2>4 DEF Live
    <3>2. table[w][id] \in Client
      BY <1>0, <3>1 DEF Table
    <3>3. <<"table", w, id>> \in Spots(w, inq[w], inq2[w], table[w], Client)
      BY <3>2 DEF Spots, Tagged, Ids
    <3>4. Holder(<<"table", w, id>>) = c
      BY <3>1 DEF Holder
    <3> QED  BY <3>3, <3>4 DEF AllSpots
  <2> QED  BY <2>1, <2>2, <2>3, <2>4
<1> HIDE DEF P
<1>4. f \in Surjection(P, InService)
  <2>1. f \in [P -> InService]
    BY <1>2
  <2>2. \A c \in InService : \E x \in P : f[x] = c
    BY <1>3
  <2> HIDE DEF f
  <2> QED  BY <2>1, <2>2 DEF Surjection
<1>5. IsFiniteSet(InService) /\ Cardinality(InService) <= Cardinality(P)
  BY <1>1, <1>4, FS_Surjection
<1>6. Total(Client) = Cardinality(P)
  BY DEF Total, TotalOf, P
<1> QED  BY <1>5, <1>6, FS_CardinalityType

\* The concurrency limit of the accept thread, for any number of clients and threads.
THEOREM LimitedCorrect == Spec => []Limited
<1>1. IInv => Limited
  <2> SUFFICES ASSUME IInv PROVE Limited
    OBVIOUS
  <2>1. BasicInv /\ CountInv /\ TypeOK
    BY DEF IInv, BasicInv
  <2>2. PICK v \in 0 .. Max : Covers(v)
    BY <2>1 DEF CountInv
  <2>3. Total(Client) <= v /\ Total(Client) \in Nat /\ v \in Nat /\ v <= Max /\ Max \in Nat
    BY <2>1, <2>2, TotalType, Constants DEF Covers
  <2>4. Cardinality(InService) \in Nat /\ Cardinality(InService) <= Total(Client)
    BY <2>1, ServiceCount
  <2>5. acc.at \in {"top", "poll"} => nlive = v
    BY <2>2, <2>3 DEF Covers, Pend
  <2>6. Cardinality(InService) <= v
    BY <2>3, <2>4
  <2>7. Admitted
    BY <2>3, <2>4, <2>6 DEF Admitted
  <2>8. NliveCovers
    BY <2>3, <2>5, <2>4, <2>6 DEF NliveCovers
  <2> QED  BY <2>1, <2>7, <2>8 DEF Limited
<1> QED  BY <1>1, InductiveInvariant, PTL


-----------------------------------------------------------------------------
(* Room in the table.                                                      *)

\* An id of the table is free or has a session.
LEMMA TableRoom ==
  ASSUME NEW t \in Table
  PROVE  Cardinality({id \in Id : t[id] = NULL}) + Cardinality(Ids(t, Client)) = Max
<1> DEFINE A == {id \in Id : t[id] = NULL}
           B == Ids(t, Client)
<1>1. A \cup B = Id /\ A \cap B = {}
  BY Constants DEF Table, Ids
<1>2. IsFiniteSet(A) /\ IsFiniteSet(B)
  BY IdFinite, IdsFinite, FS_Subset
<1> HIDE DEF A, B
<1>3. Cardinality(A \cup B) = Cardinality(A) + Cardinality(B)
  BY <1>1, <1>2, DisjointUnion
<1> QED  BY <1>1, <1>3, IdFinite DEF A, B

\* A session table never is full when a client waits for a session.
THEOREM RoomCorrect == Spec => []RoomForAll
<1>1. IInv => RoomForAll
  <2> SUFFICES ASSUME IInv, NEW w \in Work
               PROVE  /\ nfreed[w] = Cardinality({id \in Id : table[w][id] = NULL})
                      /\ inq2[w] # <<>> => ~TableFull(w)
    BY DEF RoomForAll
  <2>1. BasicInv /\ CountInv /\ TypeOK
    BY DEF IInv, BasicInv
  <2>2. /\ nfreed[w] = Cardinality({id \in Id : table[w][id] = NULL})
        /\ nfreed[w] \in Nat /\ table[w] \in Table /\ inq \in Queues /\ inq2 \in Queues
        /\ inq[w] \in Seq(Client) /\ inq2[w] \in Seq(Client)
    BY <2>1, WorkFacts
  <2>3. ASSUME inq2[w] # <<>> PROVE ~TableFull(w)
    <3> DEFINE n == Cardinality(Ids(table[w], Client))
               k == Cardinality(Pos(inq2[w], Client))
               m == Cardinality(Pos(inq[w], Client))
               r == Cardinality(AllSpots(Work \ {w}, inq, inq2, table, Client))
    <3>1. Total(Client) <= Max /\ Total(Client) \in Nat
      <4>1. PICK v \in 0 .. Max : Covers(v)
        BY <2>1 DEF CountInv
      <4> QED  BY <2>1, <4>1, TotalType, Constants DEF Covers
    <3>2. /\ TotalOf(inq, inq2, table, Client) = Here(inq[w], inq2[w], table[w], Client)
                                      + Cardinality(AllSpots(Work \ {w}, inq, inq2, table, Client))
          /\ Here(inq[w], inq2[w], table[w], Client) \in Nat
          /\ Cardinality(AllSpots(Work \ {w}, inq, inq2, table, Client)) \in Nat
      BY <2>2, Split
    <3>3. n \in Nat /\ k \in Nat /\ m \in Nat
      BY <2>2, IdsFinite, PosFinite
    <3>4. k >= 1
      <4>1. /\ k = Cardinality(Pos(Tail(inq2[w]), Client)) + One(Head(inq2[w]), Client)
            /\ Head(inq2[w]) \in Client /\ Tail(inq2[w]) \in Seq(Client)
        BY <2>2, <2>3, PosTail
      <4>2. Cardinality(Pos(Tail(inq2[w]), Client)) \in Nat /\ One(Head(inq2[w]), Client) = 1
        BY <4>1, PosFinite DEF One
      <4> QED  BY <4>1, <4>2
    <3>5. nfreed[w] + n = Max
      BY <2>2, TableRoom
    <3>6. Total(Client) = m + k + n + r /\ r \in Nat
      BY <3>2 DEF Total, Here
    <3> HIDE DEF n, k, m, r
    <3>7. nfreed[w] >= 1
      BY <2>2, <3>1, <3>3, <3>4, <3>5, <3>6, Constants
    <3>8. \E id \in Id : table[w][id] = NULL
      <4>1. Cardinality({id \in Id : table[w][id] = NULL}) # 0
        BY <2>2, <3>7
      <4>2. {id \in Id : table[w][id] = NULL} # {}
        BY <4>1, FS_EmptySet, Zenon
      <4> QED  BY <4>2
    <3>9. _st_get_free_id(w) \in Id
      BY <2>1, <3>8, FreeId
    <3> HIDE DEF TableFull
    <3>10. _st_get_free_id(w) >= 0 /\ _st_get_free_id(w) \in Nat
      BY <3>9, Constants DEF Id
    <3> QED  BY <2>2, <3>7, <3>10 DEF TableFull
  <2> QED  BY <2>2, <2>3
<1> QED  BY <1>1, InductiveInvariant, PTL

-----------------------------------------------------------------------------
(* The owners of a descriptor.                                             *)

LEMMA PlacesCount == ASSUME BasicInv, NEW c \in Client PROVE Cardinality(Places(c)) = Owners(c)
<1> DEFINE A == {<<"accept", 0, 0>> : x \in {y \in {acc} : y.cli = c}}
           B == AllSpots(Work, inq, inq2, table, {c})
<1>1. inq \in Queues /\ inq2 \in Queues
  BY DEF BasicInv, TypeOK, Queues
<1>2. IsFiniteSet(B) /\ Cardinality(B) \in Nat
  BY <1>1, AllSpotsFinite, FS_CardinalityType
<1>3. Places(c) = A \cup B
  <2> DEFINE L(w) ==      {<<"inq", w, i>> : i \in {j \in DOMAIN inq[w] : inq[w][j] = c}}
                     \cup {<<"inq2", w, i>> : i \in {j \in DOMAIN inq2[w] : inq2[w][j] = c}}
                     \cup {<<"table", w, id>> : id \in {j \in Id : table[w][j] = c}}
  <2>1. ASSUME NEW w \in Work PROVE Spots(w, inq[w], inq2[w], table[w], {c}) = L(w)
    <3>1. /\ Pos(inq[w], {c}) = {j \in DOMAIN inq[w] : inq[w][j] = c}
          /\ Pos(inq2[w], {c}) = {j \in DOMAIN inq2[w] : inq2[w][j] = c}
          /\ Ids(table[w], {c}) = {j \in Id : table[w][j] = c}
      BY DEF Pos, Ids
    <3> QED  BY <3>1 DEF Spots, Tagged
  <2>2. Places(c) = A \cup UNION {L(w) : w \in Work}
    BY DEF Places
  <2> HIDE DEF L
  <2>3. {L(w) : w \in Work} = {Spots(w, inq[w], inq2[w], table[w], {c}) : w \in Work}
    BY <2>1
  <2> QED  BY <2>2, <2>3, Zenon DEF AllSpots
<1>4. A \cap B = {}
  <2>1. \A x \in A : x[1] = "accept"
    OBVIOUS
  <2>2. \A x \in B : x[1] \in {"inq", "inq2", "table"}
    BY DEF AllSpots, Spots, Tagged
  <2> QED  BY <2>1, <2>2
<1>5. IsFiniteSet(A) /\ Cardinality(A) = InHand(c)
  <2>1. CASE acc.cli = c
    <3>1. A = {<<"accept", 0, 0>>}
      BY <2>1
    <3> QED  BY <2>1, <3>1, FS_Singleton DEF InHand
  <2>2. CASE acc.cli # c
    <3>1. A = {}
      BY <2>2
    <3> QED  BY <2>2, <3>1, FS_EmptySet DEF InHand
  <2> QED  BY <2>1, <2>2
<1>6. Cardinality(B) = Total({c})
  BY DEF Total, TotalOf
<1> HIDE DEF A, B
<1>7. Cardinality(A \cup B) = Cardinality(A) + Cardinality(B)
  BY <1>2, <1>4, <1>5, DisjointUnion
<1>8. InHand(c) \in {0, 1}
  BY DEF InHand
<1> QED  BY <1>2, <1>3, <1>5, <1>6, <1>7, <1>8 DEF Owners

\* One owner for each open descriptor, and a queue that is not freed, until the proxy stops.
THEOREM OwnedCorrect == Spec => []Owned
<1>1. IInv => Owned
  <2> SUFFICES ASSUME IInv PROVE Owned
    OBVIOUS
  <2>1. BasicInv /\ OwnerInv /\ TypeOK /\ LifeInv
    BY DEF IInv, BasicInv
  <2>2. OneOwner
    <3>1. ASSUME ~stop, NEW c \in Client
          PROVE  Cardinality(Places(c)) = IF c \in opened THEN 1 ELSE 0
      BY <2>1, <3>1, PlacesCount DEF OwnerInv, Open
    <3> QED  BY <2>1, <3>1 DEF OneOwner, OwnerInv
  <2>3. OwnedQueue
    <3> SUFFICES ASSUME acc.at = "lock", ~stop PROVE thr[index] = "run"
      BY DEF OwnedQueue
    <3>1. ~dead /\ index \in Work /\ thr[index] \in {"run", "close", "gone"}
      BY <2>1 DEF LifeInv, TypeOK
    <3> QED  BY <2>1, <3>1 DEF LifeInv
  <2> QED  BY <2>2, <2>3 DEF Owned
<1> QED  BY <1>1, InductiveInvariant, PTL
=============================================================================
