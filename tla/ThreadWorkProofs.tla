------------------------- MODULE ThreadWorkProofs --------------------------
(***************************************************************************)
(* Proofs about ThreadWork, for any number of sessions, any packet size,   *)
(* any number of bytes, in every mode and whatever fails.                  *)
(*                                                                         *)
(* Every handler is a set of results.  Done says what a result must be for *)
(* the loop to go on with it: the session is fit, each direction carries   *)
(* its bytes, data is kept only for an end in the send epoll, and nblocked *)
(* changes by as much as the send epoll does.  Sends says the same of the  *)
(* sending of one direction.  Most of the work is in the lemmas on the     *)
(* bytes: what FlattenSeq makes of a queue, and that a packet sent in      *)
(* parts is the packet.                                                    *)
(***************************************************************************)
EXTENDS ThreadWork, SequenceTheorems, FiniteSetTheorems, NaturalsInduction,
        WellFoundedInduction, TLAPS

Byte == End \X Nat
Pkt == {p \in Seq(Byte) : Len(p) \in 1 .. Cap}

\* The memory of a session.
Memory ==
  [live : {TRUE}, svr : BOOLEAN, wait : BOOLEAN, blocked : SUBSET End, insend : SUBSET End,
   outq : [End -> Seq(Pkt)], blkpkt : [End -> Pkt \cup {<<>>}], nalloced : Int,
   pipe : Seq(Byte), got : [End -> Nat], sent : [End -> Seq(Byte)]]

\* How many ends a set of ends has.
Cnt(S) == IF "cli" \in S THEN (IF "svr" \in S THEN 2 ELSE 1)
                          ELSE (IF "svr" \in S THEN 1 ELSE 0)

\* The packets a session holds, by their direction.
Kept(x) == Len(Pending(x, "cli")) + Len(Pending(x, "svr"))

\* What holds of a session between any two calls of a handler: the flags say which ends are
\* in the send epoll, only a server that is there is waited for, and no packet is
\* held that was not allocated.
Fit(x) ==
  /\ x \in Memory
  /\ \A d \in End : x.got[d] <= N[d]
  /\ x.insend = x.blocked \cup (IF x.wait THEN {"svr"} ELSE {})
  /\ x.wait => x.svr /\ "svr" \notin x.blocked
  /\ "svr" \in x.blocked => x.svr
  /\ x.nalloced >= Kept(x)

\* Data from d is kept only while its receiver is in the send epoll.
Waits(x, d) == Pending(x, d) # <<>> => To(d) \in x.insend

----------------------------------------------------------------------------
(* Each end has one other end. *)
LEMMA ToIs ==
  /\ To("cli") = "svr" /\ To("svr") = "cli"
  /\ \A d \in End : To(d) \in End /\ To(d) # d /\ To(To(d)) = d
<1>1. To("cli") = "svr"
  <2>1. "svr" \in End /\ "svr" # "cli"
    BY DEF End
  <2>2. To("cli") \in End /\ To("cli") # "cli"
    BY <2>1 DEF To
  <2>. QED BY <2>2 DEF End
<1>2. To("svr") = "cli"
  <2>1. "cli" \in End /\ "cli" # "svr"
    BY DEF End
  <2>2. To("svr") \in End /\ To("svr") # "svr"
    BY <2>1 DEF To
  <2>. QED BY <2>2 DEF End
<1>. QED BY <1>1, <1>2 DEF End

(* Cnt counts. *)
LEMMA CntIs ==
  ASSUME NEW S \in SUBSET End
  PROVE  Cardinality(S) = Cnt(S) /\ IsFiniteSet(S) /\ Cnt(S) \in Nat
<1>1. CASE S = {}
  BY <1>1, FS_EmptySet DEF Cnt
<1>2. CASE S = {"cli"}
  BY <1>2, FS_Singleton DEF Cnt
<1>3. CASE S = {"svr"}
  BY <1>3, FS_Singleton DEF Cnt
<1>4. CASE S = {"cli"} \cup {"svr"}
  <2>1. IsFiniteSet({"cli"}) /\ Cardinality({"cli"}) = 1 /\ "svr" \notin {"cli"}
    BY FS_Singleton
  <2>2. IsFiniteSet({"cli"} \cup {"svr"}) /\ Cardinality({"cli"} \cup {"svr"}) = 2
    BY <2>1, FS_AddElement
  <2>. QED BY <1>4, <2>2 DEF Cnt
<1>. QED BY <1>1, <1>2, <1>3, <1>4 DEF End

(* The packets that wait, from either part of a session. *)
LEMMA PendingIs ==
  ASSUME NEW x \in Memory, NEW d \in End
  PROVE  /\ Pending(x, d) \in Seq(Pkt)
         /\ x.outq[d] \in Seq(Pkt)
         /\ Len(x.outq[d]) \in Nat /\ Len(Pending(x, d)) \in Nat
         /\ x.blkpkt[d] = <<>> => Pending(x, d) = x.outq[d]
         /\ x.blkpkt[d] # <<>> => /\ x.blkpkt[d] \in Pkt
                                  /\ Pending(x, d) = <<x.blkpkt[d]>> \o x.outq[d]
                                  /\ Len(Pending(x, d)) = Len(x.outq[d]) + 1
<1>1. x.outq[d] \in Seq(Pkt) /\ x.blkpkt[d] \in Pkt \cup {<<>>}
  BY DEF Memory
<1>2. CASE x.blkpkt[d] = <<>>
  <2>1. Pending(x, d) = <<>> \o x.outq[d]
    BY <1>2 DEF Pending
  <2>2. Pending(x, d) = x.outq[d]
    BY <1>1, <2>1, ConcatEmptySeq
  <2>. QED BY <1>1, <1>2, <2>2
<1>3. CASE x.blkpkt[d] # <<>>
  <2>1. Pending(x, d) = <<x.blkpkt[d]>> \o x.outq[d]
    BY <1>3 DEF Pending
  <2>2. x.blkpkt[d] \in Pkt
    BY <1>1, <1>3
  <2>3. <<x.blkpkt[d]>> \in Seq(Pkt) /\ Len(<<x.blkpkt[d]>>) = 1
    BY <2>2
  <2>. QED BY <1>1, <1>3, <2>1, <2>2, <2>3, ConcatProperties
<1>. QED BY <1>2, <1>3

(* Held counts the packets of both directions. *)
LEMMA HeldIs ==
  ASSUME NEW x \in Memory
  PROVE  Held(x) = Kept(x) /\ Kept(x) \in Nat
<1> DEFINE B == {d \in End : x.blkpkt[d] # <<>>}
<1>1. Cardinality(B) = Cnt(B)
  BY CntIs
<1>2. "cli" \in End /\ "svr" \in End
  BY DEF End
<1>3. ASSUME NEW d \in End
      PROVE  /\ Len(x.outq[d]) \in Nat
             /\ d \in B => Len(Pending(x, d)) = Len(x.outq[d]) + 1
             /\ d \notin B => Len(Pending(x, d)) = Len(x.outq[d])
  BY PendingIs
<1>4. Held(x) = Len(x.outq["cli"]) + Len(x.outq["svr"]) + Cardinality(B)
  BY DEF Held
<1> DEFINE a == Len(x.outq["cli"])
           b == Len(x.outq["svr"])
           p == Len(Pending(x, "cli"))
           q == Len(Pending(x, "svr"))
<1>5. /\ a \in Nat /\ b \in Nat
      /\ ("cli" \in B => p = a + 1) /\ ("cli" \notin B => p = a)
      /\ ("svr" \in B => q = b + 1) /\ ("svr" \notin B => q = b)
  BY <1>2, <1>3
<1>6. Held(x) = a + b + Cnt(B) /\ Kept(x) = p + q
  BY <1>1, <1>4 DEF Kept
<1> HIDE DEF B, a, b, p, q
<1>7. CASE "cli" \in B /\ "svr" \in B
  BY <1>5, <1>6, <1>7 DEF Cnt
<1>8. CASE "cli" \in B /\ "svr" \notin B
  BY <1>5, <1>6, <1>8 DEF Cnt
<1>9. CASE "cli" \notin B /\ "svr" \in B
  BY <1>5, <1>6, <1>9 DEF Cnt
<1>10. CASE "cli" \notin B /\ "svr" \notin B
  BY <1>5, <1>6, <1>10 DEF Cnt
<1>. QED BY <1>7, <1>8, <1>9, <1>10

----------------------------------------------------------------------------
(* The parts of a session that a handler changes, as it leaves the rest alone.        *)

\* What every handler of direction d leaves alone.
SameBut(x, y, d) ==
  /\ y.live = x.live
  /\ y.outq[To(d)] = x.outq[To(d)] /\ y.blkpkt[To(d)] = x.blkpkt[To(d)]
  /\ y.sent[d] = x.sent[d]
  /\ y.pipe = x.pipe

(* SendWhole: k packets from d leave the session. *)
LEMMA SendWholeShape ==
  ASSUME NEW x \in Memory, NEW d \in End, NEW k \in 0 .. Len(Pending(x, d)),
         FlattenSeq(SubSeq(Pending(x, d), 1, k)) \in Seq(Byte)
  PROVE  LET all == Pending(x, d)
             r == SendWhole(x, d, k)
             free == k > 0 /\ To(d) \in x.blocked
         IN  /\ r.x \in Memory /\ r.ok = TRUE
             /\ r.n = IF free THEN -1 ELSE 0
             /\ r.x.insend = IF free THEN x.insend \ {To(d)} ELSE x.insend
             /\ r.x.blocked = IF free THEN x.blocked \ {To(d)} ELSE x.blocked
             /\ r.x.outq[d] = SubSeq(all, k + 1, Len(all)) /\ r.x.blkpkt[d] = <<>>
             /\ r.x.nalloced = x.nalloced - k
             /\ r.x.sent[To(d)] = x.sent[To(d)] \o FlattenSeq(SubSeq(all, 1, k))
             /\ r.x.got = x.got /\ r.x.svr = x.svr /\ r.x.wait = x.wait
             /\ SameBut(x, r.x, d)
<1> DEFINE all == Pending(x, d)
           u == SubSeq(all, k + 1, Len(all))
           v == x.sent[To(d)] \o FlattenSeq(SubSeq(all, 1, k))
           y == [x EXCEPT !.sent[To(d)] = v, !.outq[d] = u, !.blkpkt[d] = <<>>,
                          !.nalloced = @ - k]
           z == [y EXCEPT !.blocked = @ \ {To(d)}, !.insend = @ \ {To(d)}]
           free == k > 0 /\ To(d) \in x.blocked
<1>1. SendWhole(x, d, k) = IF free THEN Result(z, -1, TRUE) ELSE Result(y, 0, TRUE)
  BY DEF SendWhole, Unblock
<1>2. all \in Seq(Pkt) /\ Len(all) \in Nat
  BY PendingIs
<1>3. u \in Seq(Pkt)
  BY <1>2
<1>4. To(d) \in End /\ To(d) # d
  BY ToIs
<1>5. v \in Seq(Byte)
  BY <1>4 DEF Memory
<1>6. k \in Int
  OBVIOUS
<1> HIDE DEF u, v, all
<1>7. /\ y \in Memory /\ y.insend = x.insend /\ y.blocked = x.blocked
      /\ y.outq[d] = u /\ y.blkpkt[d] = <<>> /\ y.nalloced = x.nalloced - k
      /\ y.sent[To(d)] = v /\ y.got = x.got /\ y.svr = x.svr /\ y.wait = x.wait
      /\ SameBut(x, y, d)
  <2> DEFINE ns == [x.sent EXCEPT ![To(d)] = v]
             nq == [x.outq EXCEPT ![d] = u]
             nb == [x.blkpkt EXCEPT ![d] = <<>>]
             na == x.nalloced - k
  <2>1. /\ x.sent \in [End -> Seq(Byte)] /\ x.outq \in [End -> Seq(Pkt)]
        /\ x.blkpkt \in [End -> Pkt \cup {<<>>}] /\ x.nalloced \in Int
    BY DEF Memory
  <2>2. ns \in [End -> Seq(Byte)] /\ ns[To(d)] = v /\ ns[d] = x.sent[d]
    BY <1>4, <1>5, <2>1
  <2>3. nq \in [End -> Seq(Pkt)] /\ nq[d] = u /\ nq[To(d)] = x.outq[To(d)]
    BY <1>3, <1>4, <2>1
  <2>4. nb \in [End -> Pkt \cup {<<>>}] /\ nb[d] = <<>> /\ nb[To(d)] = x.blkpkt[To(d)]
    BY <1>4, <2>1
  <2>5. na \in Int
    BY <1>6, <2>1
  <2>6. y = [x EXCEPT !.sent = ns, !.outq = nq, !.blkpkt = nb, !.nalloced = na]
    OBVIOUS
  <2> HIDE DEF ns, nq, nb, na, y
  <2>7. /\ y \in Memory /\ y.insend = x.insend /\ y.blocked = x.blocked
        /\ y.outq = nq /\ y.blkpkt = nb /\ y.nalloced = na /\ y.sent = ns
        /\ y.got = x.got /\ y.svr = x.svr /\ y.wait = x.wait /\ y.live = x.live /\ y.pipe = x.pipe
    BY <2>2, <2>3, <2>4, <2>5, <2>6 DEF Memory
  <2>. QED BY <2>2, <2>3, <2>4, <2>7 DEF SameBut, na
<1> HIDE DEF y
<1>8. /\ z \in Memory /\ z.insend = y.insend \ {To(d)} /\ z.blocked = y.blocked \ {To(d)}
      /\ z.outq = y.outq /\ z.blkpkt = y.blkpkt /\ z.nalloced = y.nalloced
      /\ z.sent = y.sent /\ z.got = y.got /\ z.svr = y.svr /\ z.wait = y.wait
      /\ z.live = y.live /\ z.pipe = y.pipe
  BY <1>7 DEF Memory
<1> HIDE DEF z
<1>9. CASE free
  <2>1. SendWhole(x, d, k).x = z /\ SendWhole(x, d, k).n = -1 /\ SendWhole(x, d, k).ok = TRUE
    BY <1>1, <1>9 DEF Result
  <2>. QED BY <1>7, <1>8, <1>9, <2>1 DEF SameBut, all, u, v
<1>10. CASE ~free
  <2>1. SendWhole(x, d, k).x = y /\ SendWhole(x, d, k).n = 0 /\ SendWhole(x, d, k).ok = TRUE
    BY <1>1, <1>10 DEF Result
  <2>. QED BY <1>7, <1>10, <2>1 DEF all, u, v
<1>. QED BY <1>9, <1>10

----------------------------------------------------------------------------
(* FlattenSeq, which is a recursive function: what it yields is shown by the least     *)
(* place at which it would differ.                                                    *)

Below == {z \in Nat \X Nat : z[1] < z[2]}

(* There is no endless descent in the natural numbers. *)
LEMMA BelowWellFounded == IsWellFoundedOn(Below, Nat)
<1>1. IsWellFoundedOn(OpToRel(<, Nat), Nat)
  BY NatLessThanWellFounded
<1>2. Below \cap (Nat \X Nat) \subseteq OpToRel(<, Nat)
  BY DEF Below, OpToRel
<1>. QED BY <1>1, <1>2, IsWellFoundedOnSubrelation

(* A set of numbers has a least one. *)
LEMMA LeastOf ==
  ASSUME NEW T, T \subseteq Nat, T # {}
  PROVE  \E n \in T : \A m \in T : n <= m
<1>1. PICK n \in T : \A m \in T : ~ (<<m, n>> \in Below)
  BY BelowWellFounded, WFMin
<1>2. ASSUME NEW m \in T, m < n PROVE FALSE
  <2>1. <<m, n>> \in Nat \X Nat /\ <<m, n>>[1] = m /\ <<m, n>>[2] = n
    OBVIOUS
  <2>. QED BY <1>1, <1>2, <2>1 DEF Below
<1>3. n \in Nat /\ \A m \in T : m \in Nat
  OBVIOUS
<1>. QED BY <1>2, <1>3

\* f[i] joins the first i sequences of q, up to n.
Joins(q, n, f) ==
  /\ f = [i \in 0 .. n |-> f[i]]
  /\ f[0] = <<>>
  /\ \A i \in 1 .. n : f[i] = f[i - 1] \o q[i]

Joinable(q, n) == \E f : Joins(q, n, f)

(* The partial joins of a queue exist, by induction on how many packets are joined. *)
LEMMA JoinsExist ==
  ASSUME NEW B, NEW q \in Seq(Seq(B)), NEW k \in 0 .. Len(q)
  PROVE  Joinable(q, k)
<1> DEFINE T == {n \in 0 .. Len(q) : ~Joinable(q, n)}
<1> SUFFICES ASSUME T # {} PROVE FALSE
  OBVIOUS
<1>1. T \subseteq Nat
  OBVIOUS
<1>2. PICK n \in T : \A m \in T : n <= m
  <2> HIDE DEF T
  <2>. QED BY <1>1, LeastOf
<1>3. n # 0
  <2>1. Joins(q, 0, [i \in 0 .. 0 |-> <<>>])
    BY DEF Joins
  <2>2. Joinable(q, 0)
    BY <2>1 DEF Joinable
  <2>. QED BY <2>2
<1>4. n - 1 \in 0 .. Len(q) /\ ~(n <= n - 1) /\ n \in Nat
  BY <1>3
<1>5. Joinable(q, n - 1)
  BY <1>2, <1>4
<1>6. PICK f : Joins(q, n - 1, f)
  BY <1>5 DEF Joinable
<1> DEFINE g == [i \in 0 .. n |-> IF i = n THEN f[n - 1] \o q[n] ELSE f[i]]
<1>7. Joins(q, n, g)
  <2>1. g[0] = <<>>
    BY <1>3, <1>4, <1>6 DEF Joins
  <2>2. ASSUME NEW i \in 1 .. n PROVE g[i] = g[i - 1] \o q[i]
    <3>1. i - 1 \in 0 .. n /\ i - 1 # n /\ g[i - 1] = f[i - 1]
      BY <1>4
    <3>2. CASE i = n
      <4>1. n \in 0 .. n
        BY <1>4
      <4>2. g[n] = f[n - 1] \o q[n]
        BY <4>1, Zenon
      <4> HIDE DEF g
      <4>. QED BY <3>1, <3>2, <4>2
    <3>3. CASE i # n
      <4>1. i \in 1 .. n - 1 /\ g[i] = f[i]
        BY <1>4, <3>3
      <4>2. f[i] = f[i - 1] \o q[i]
        BY <1>6, <4>1 DEF Joins
      <4>. QED BY <3>1, <4>1, <4>2
    <3>. QED BY <3>2, <3>3
  <2>3. g = [i \in 0 .. n |-> g[i]]
    OBVIOUS
  <2> HIDE DEF g
  <2>. QED BY <2>1, <2>2, <2>3 DEF Joins
<1>8. Joinable(q, n)
  BY <1>7, Zenon DEF Joinable
<1>. QED BY <1>8

(* They are sequences of the bytes. *)
LEMMA JoinsType ==
  ASSUME NEW B, NEW q \in Seq(Seq(B)), NEW n \in 0 .. Len(q), NEW f, Joins(q, n, f),
         NEW k \in 0 .. n
  PROVE  f[k] \in Seq(B)
<1> DEFINE T == {i \in 0 .. n : f[i] \notin Seq(B)}
<1> SUFFICES ASSUME T # {} PROVE FALSE
  OBVIOUS
<1>1. T \subseteq Nat
  OBVIOUS
<1>2. PICK i \in T : \A m \in T : i <= m
  <2> HIDE DEF T
  <2>. QED BY <1>1, LeastOf
<1>3. i # 0
  <2>1. f[0] = <<>> /\ <<>> \in Seq(B)
    BY DEF Joins
  <2>2. f[0] \in Seq(B)
    BY <2>1
  <2>. QED BY <2>2
<1>4. i - 1 \in 0 .. n /\ ~(i <= i - 1) /\ i \in 1 .. n /\ i \in 1 .. Len(q)
  BY <1>3
<1>5. f[i - 1] \in Seq(B)
  BY <1>2, <1>4
<1>6. f[i] = f[i - 1] \o q[i]
  BY <1>4 DEF Joins
<1>7. q[i] \in Seq(B)
  BY <1>4
<1>8. f[i] \in Seq(B)
  BY <1>5, <1>6, <1>7, ConcatProperties
<1>. QED BY <1>8

(* Two ways to join the same sequences are the same. *)
LEMMA JoinsSame ==
  ASSUME NEW q, NEW n \in Nat, NEW f, Joins(q, n, f), NEW g,
         \A i \in 1 .. n : g[i] = IF i = 1 THEN q[1] ELSE g[i - 1] \o q[i],
         n > 0 => <<>> \o q[1] = q[1],
         NEW k \in 1 .. n
  PROVE  g[k] = f[k]
<1> DEFINE T == {i \in 1 .. n : g[i] # f[i]}
<1> SUFFICES ASSUME T # {} PROVE FALSE
  OBVIOUS
<1>1. T \subseteq Nat
  OBVIOUS
<1>2. PICK i \in T : \A m \in T : i <= m
  <2> HIDE DEF T
  <2>. QED BY <1>1, LeastOf
<1>3. CASE i = 1
  <2>1. 1 \in 1 .. n /\ 1 - 1 = 0 /\ n > 0
    BY <1>3
  <2>2. f[1] = f[1 - 1] \o q[1] /\ f[0] = <<>>
    BY <2>1 DEF Joins
  <2>3. f[1] = q[1]
    BY <2>1, <2>2
  <2>4. g[1] = q[1]
    BY <2>1
  <2>. QED BY <1>3, <2>3, <2>4
<1>4. CASE i # 1
  <2>1. i - 1 \in 1 .. n /\ ~(i <= i - 1) /\ i \in 1 .. n
    BY <1>4
  <2>2. g[i - 1] = f[i - 1]
    BY <1>2, <2>1
  <2>3. f[i] = f[i - 1] \o q[i]
    BY <2>1 DEF Joins
  <2>. QED BY <1>4, <2>1, <2>2, <2>3
<1>. QED BY <1>3, <1>4

(* FlattenSeq is the last of the partial joins. *)
LEMMA FlattenIs ==
  ASSUME NEW B, NEW q \in Seq(Seq(B)), NEW f, Joins(q, Len(q), f)
  PROVE  FlattenSeq(q) = f[Len(q)]
<1> DEFINE n == Len(q)
<1>1. n \in Nat
  OBVIOUS
<1>2. CASE n = 0
  <2>1. q = <<>> /\ f[0] = <<>>
    BY <1>2 DEF Joins
  <2>2. FlattenSeq(q) = q
    BY <1>2 DEF FlattenSeq
  <2>. QED BY <1>2, <2>1, <2>2
<1>3. CASE n # 0
  <2> DEFINE step(h) == [i \in 1 .. n |-> IF i = 1 THEN q[i] ELSE h[i - 1] \o q[i]]
             flatten == CHOOSE h : h = step(h)
             g == [i \in 1 .. n |-> f[i]]
  <2>1. FlattenSeq(q) = flatten[n]
    BY <1>3 DEF FlattenSeq
  <2>2. q[1] \in Seq(B)
    BY <1>1, <1>3
  <2>3. <<>> \o q[1] = q[1]
    BY <2>2, ConcatEmptySeq
  <2>4. f[0] = <<>> /\ \A i \in 1 .. n : f[i] = f[i - 1] \o q[i]
    BY DEF Joins
  <2>9. Joins(q, n, f)
    OBVIOUS
  <2> HIDE DEF n
  <2>5. g = step(g)
    <3>1. 1 \in 1 .. n /\ f[1] = q[1]
      <4>1. 1 \in 1 .. n /\ 1 - 1 = 0
        BY <1>1, <1>3
      <4>2. f[1] = f[1 - 1] \o q[1]
        BY <2>4, <4>1
      <4>. QED BY <2>3, <2>4, <4>1, <4>2
    <3>2. \A i \in 1 .. n : i # 1 => i - 1 \in 1 .. n
      BY <1>1
    <3>. QED BY <2>4, <3>1, <3>2
  <2>6. flatten = step(flatten)
    BY <2>5
  <2> HIDE DEF flatten
  <2>7. \A i \in 1 .. n : flatten[i] = IF i = 1 THEN q[1] ELSE flatten[i - 1] \o q[i]
    BY <2>6
  <2>8. n \in 1 .. n
    BY <1>1, <1>3
  <2>10. flatten[n] = f[n]
    BY <1>1, <2>3, <2>7, <2>8, <2>9, JoinsSame
  <2>. QED BY <2>1, <2>10 DEF n
<1>. QED BY <1>2, <1>3

(* The joined bytes, packet by packet. *)
LEMMA FlattenType ==
  ASSUME NEW B, NEW q \in Seq(Seq(B))
  PROVE  FlattenSeq(q) \in Seq(B)
<1>1. Len(q) \in 0 .. Len(q)
  OBVIOUS
<1>2. PICK f : Joins(q, Len(q), f)
  BY <1>1, JoinsExist DEF Joinable
<1>3. FlattenSeq(q) = f[Len(q)]
  BY <1>2, FlattenIs
<1>4. f[Len(q)] \in Seq(B)
  BY <1>1, <1>2, JoinsType
<1>. QED BY <1>3, <1>4

(* An empty queue has no bytes. *)
LEMMA FlattenNone == FlattenSeq(<<>>) = <<>>
  BY DEF FlattenSeq

(* One packet is its bytes. *)
LEMMA FlattenOne ==
  ASSUME NEW B, NEW p \in Seq(B)
  PROVE  FlattenSeq(<<p>>) = p
<1> DEFINE q == <<p>>
           f == [i \in 0 .. 1 |-> IF i = 0 THEN <<>> ELSE p]
<1>1. q \in Seq(Seq(B)) /\ Len(q) = 1 /\ q[1] = p
  OBVIOUS
<1>2. <<>> \o p = p
  BY ConcatEmptySeq
<1>3. Joins(q, 1, f)
  <2>1. f[0] = <<>> /\ f[1] = p /\ f = [i \in 0 .. 1 |-> f[i]]
    OBVIOUS
  <2> HIDE DEF f, q
  <2>2. ASSUME NEW i \in 1 .. 1 PROVE f[i] = f[i - 1] \o q[i]
    <3>1. i = 1 /\ i - 1 = 0
      OBVIOUS
    <3>. QED BY <1>1, <1>2, <2>1, <3>1
  <2>. QED BY <2>1, <2>2 DEF Joins
<1> HIDE DEF q, f
<1>4. FlattenSeq(q) = f[1]
  BY <1>1, <1>3, FlattenIs
<1>. QED BY <1>4 DEF q, f

(* A sequence of packets may be cut anywhere. *)
LEMMA FlattenSplit ==
  ASSUME NEW B, NEW q \in Seq(Seq(B)), NEW k \in 0 .. Len(q)
  PROVE  FlattenSeq(q) = FlattenSeq(SubSeq(q, 1, k)) \o FlattenSeq(SubSeq(q, k + 1, Len(q)))
<1> DEFINE n == Len(q)
           l == SubSeq(q, 1, k)
           r == SubSeq(q, k + 1, Len(q))
<1>1. n \in Nat /\ k \in Nat /\ k <= n /\ n \in 0 .. n
  OBVIOUS
<1>2. l \in Seq(Seq(B)) /\ Len(l) = k /\ (\A i \in 1 .. k : l[i] = q[i])
  BY <1>1
<1>3. r \in Seq(Seq(B)) /\ Len(r) = n - k /\ \A i \in 1 .. n - k : r[i] = q[k + i]
  BY <1>1
<1>4. PICK f : Joins(q, n, f)
  BY <1>1, JoinsExist DEF Joinable
<1>5. n - k \in 0 .. n - k /\ n - k \in Nat
  BY <1>1
<1>6. PICK g : Joins(r, n - k, g)
  <2> HIDE DEF n, r
  <2>1. Joinable(r, n - k)
    BY <1>3, <1>5, JoinsExist
  <2>. QED BY <2>1 DEF Joinable
<1>7. FlattenSeq(q) = f[n]
  BY <1>4, FlattenIs
<1> HIDE DEF n, l, r
<1>8. FlattenSeq(r) = g[n - k]
  BY <1>3, <1>6, FlattenIs
<1>9. FlattenSeq(l) = f[k]
  <2> DEFINE h == [i \in 0 .. k |-> f[i]]
  <2>1. Joins(l, k, h)
    <3>1. h[0] = <<>> /\ h = [i \in 0 .. k |-> h[i]]
      BY <1>1, <1>4 DEF Joins
    <3>2. ASSUME NEW i \in 1 .. k PROVE h[i] = h[i - 1] \o l[i]
      <4>1. i \in 1 .. n /\ i - 1 \in 0 .. k /\ i \in 0 .. k
        BY <1>1
      <4>2. f[i] = f[i - 1] \o q[i]
        BY <1>4, <4>1 DEF Joins
      <4>. QED BY <1>2, <4>1, <4>2
    <3> HIDE DEF h
    <3>. QED BY <3>1, <3>2 DEF Joins
  <2>2. h[k] = f[k]
    BY <1>1
  <2> HIDE DEF h
  <2>3. FlattenSeq(l) = h[k]
    BY <1>2, <2>1, FlattenIs
  <2>. QED BY <2>2, <2>3
<1>10. \A i \in 0 .. n : f[i] \in Seq(B)
  BY <1>1, <1>4, JoinsType DEF n
<1>11. \A i \in 0 .. n - k : g[i] \in Seq(B)
  BY <1>3, <1>5, <1>6, JoinsType
<1>12. f[k + (n - k)] = f[k] \o g[n - k]
  <2> DEFINE T == {i \in 0 .. n - k : f[k + i] # f[k] \o g[i]}
  <2>1. T = {}
    <3> SUFFICES ASSUME T # {} PROVE FALSE
      OBVIOUS
    <3>1. T \subseteq Nat
      <4>1. \A j \in 0 .. n - k : j \in Nat
        BY <1>5
      <4>. QED BY <4>1
    <3>2. PICK i \in T : \A m \in T : i <= m
      <4> HIDE DEF T
      <4>. QED BY <3>1, LeastOf
    <3>3. i \in 0 .. n - k /\ f[k + i] # f[k] \o g[i]
      OBVIOUS
    <3>4. CASE i = 0
      <4>1. g[0] = <<>> /\ k + 0 = k /\ k \in 0 .. n
        BY <1>1, <1>6 DEF Joins
      <4>2. f[k] \in Seq(B)
        BY <1>10, <4>1
      <4>3. f[k] \o <<>> = f[k]
        BY <4>2, ConcatEmptySeq
      <4>. QED BY <3>3, <3>4, <4>1, <4>3
    <3>5. CASE i # 0
      <4>1. /\ i - 1 \in 0 .. n - k /\ ~(i <= i - 1) /\ i \in 1 .. n - k
            /\ k + i \in 1 .. n /\ (k + i) - 1 = k + (i - 1) /\ k \in 0 .. n
        BY <1>1, <3>3, <3>5
      <4>2. f[k + (i - 1)] = f[k] \o g[i - 1]
        BY <3>2, <4>1
      <4>3. f[k + i] = f[(k + i) - 1] \o q[k + i]
        BY <1>4, <4>1 DEF Joins
      <4>4. g[i] = g[i - 1] \o r[i] /\ r[i] = q[k + i]
        BY <1>3, <1>6, <4>1 DEF Joins
      <4>5. f[k] \in Seq(B) /\ g[i - 1] \in Seq(B) /\ r[i] \in Seq(B)
        <5>1. i \in 1 .. Len(r)
          BY <1>3, <4>1
        <5>2. r[i] \in Seq(B)
          BY <1>3, <5>1
        <5>. QED BY <1>10, <1>11, <4>1, <5>2
      <4>6. (f[k] \o g[i - 1]) \o r[i] = f[k] \o (g[i - 1] \o r[i])
        <5> DEFINE a == f[k]
                   b == g[i - 1]
                   c == r[i]
        <5>1. a \in Seq(B) /\ b \in Seq(B) /\ c \in Seq(B)
          BY <4>5
        <5> HIDE DEF a, b, c
        <5>2. (a \o b) \o c = a \o (b \o c)
          BY <5>1, ConcatAssociative
        <5>. QED BY <5>2 DEF a, b, c
      <4>. QED BY <3>3, <4>1, <4>2, <4>3, <4>4, <4>6
    <3>. QED BY <3>4, <3>5
  <2>. QED BY <1>5, <2>1
<1>13. k + (n - k) = n
  BY <1>1
<1>14. FlattenSeq(q) = FlattenSeq(l) \o FlattenSeq(r)
  BY <1>7, <1>8, <1>9, <1>12, <1>13
<1>. QED BY <1>14 DEF l, r, n

(* The first packet, and the others. *)
LEMMA FlattenCons ==
  ASSUME NEW B, NEW p \in Seq(B), NEW q \in Seq(Seq(B))
  PROVE  FlattenSeq(<<p>> \o q) = p \o FlattenSeq(q)
<1> DEFINE t == <<p>> \o q
<1>1. t \in Seq(Seq(B)) /\ Len(t) = Len(q) + 1 /\ Len(q) \in Nat /\ t[1] = p
      /\ \A i \in 1 .. Len(q) : t[i + 1] = q[i]
  OBVIOUS
<1> HIDE DEF t
<1>2. SubSeq(t, 1, 1) = <<p>>
  <2> DEFINE u == SubSeq(t, 1, 1)
             v == <<p>>
  <2>1. u \in Seq(Seq(B)) /\ Len(u) = 1 /\ \A i \in 1 .. 1 : u[i] = t[i]
    BY <1>1
  <2>2. v \in Seq(Seq(B)) /\ Len(v) = 1 /\ v[1] = p
    OBVIOUS
  <2> HIDE DEF u, v
  <2>3. u = v
    BY <1>1, <2>1, <2>2, SeqEqual
  <2>. QED BY <2>3 DEF u, v
<1>3. SubSeq(t, 2, Len(t)) = q
  <2> DEFINE u == SubSeq(t, 2, Len(t))
  <2>1. u \in Seq(Seq(B)) /\ Len(u) = Len(q) /\ \A i \in 1 .. Len(q) : u[i] = t[i + 1]
    BY <1>1
  <2> HIDE DEF u
  <2>2. u = q
    BY <1>1, <2>1, SeqEqual
  <2>. QED BY <2>2 DEF u
<1>4. 1 \in 0 .. Len(t) /\ 1 + 1 = 2
  BY <1>1
<1>5. FlattenSeq(t) = FlattenSeq(SubSeq(t, 1, 1)) \o FlattenSeq(SubSeq(t, 1 + 1, Len(t)))
  BY <1>1, <1>4, FlattenSplit
<1>. QED BY <1>2, <1>3, <1>4, <1>5, FlattenOne DEF t

(* All packets but the last, and the last. *)
LEMMA FlattenAppend ==
  ASSUME NEW B, NEW p \in Seq(B), NEW q \in Seq(Seq(B))
  PROVE  FlattenSeq(Append(q, p)) = FlattenSeq(q) \o p
<1> DEFINE t == Append(q, p)
           n == Len(q)
<1>1. t \in Seq(Seq(B)) /\ Len(t) = n + 1 /\ n \in Nat /\ t[n + 1] = p
      /\ \A i \in 1 .. n : t[i] = q[i]
  OBVIOUS
<1> HIDE DEF t
<1>2. SubSeq(t, n + 1, Len(t)) = <<p>>
  <2> DEFINE u == SubSeq(t, n + 1, Len(t))
             v == <<p>>
  <2>1. u \in Seq(Seq(B)) /\ Len(u) = 1 /\ u[1] = t[n + 1]
    BY <1>1
  <2>2. v \in Seq(Seq(B)) /\ Len(v) = 1 /\ v[1] = p
    OBVIOUS
  <2> HIDE DEF u, v
  <2>3. u = v
    BY <1>1, <2>1, <2>2, SeqEqual
  <2>. QED BY <2>3 DEF u, v
<1>3. SubSeq(t, 1, n) = q
  <2> DEFINE u == SubSeq(t, 1, n)
  <2>1. u \in Seq(Seq(B)) /\ Len(u) = n /\ \A i \in 1 .. n : u[i] = t[i]
    BY <1>1
  <2> HIDE DEF u
  <2>2. u = q
    BY <1>1, <2>1, SeqEqual
  <2>. QED BY <2>2 DEF u
<1>4. n \in 0 .. Len(t)
  BY <1>1
<1>5. FlattenSeq(t) = FlattenSeq(SubSeq(t, 1, n)) \o FlattenSeq(SubSeq(t, n + 1, Len(t)))
  BY <1>1, <1>4, FlattenSplit
<1>. QED BY <1>2, <1>3, <1>5, FlattenOne DEF t

----------------------------------------------------------------------------
(* The parts of a packet are packets, or nothing. *)
LEMMA RestIs ==
  ASSUME NEW p \in Pkt, NEW n \in Nat, n < Len(p)
  PROVE  /\ Rest(p, n) \in Pkt /\ Rest(p, n) # <<>>
         /\ p \in Seq(Byte) /\ SubSeq(p, 1, n) \in Seq(Byte) /\ Rest(p, n) \in Seq(Byte)
         /\ SubSeq(p, 1, n) \o Rest(p, n) = p
<1>1. p \in Seq(Byte) /\ Len(p) \in 1 .. Cap /\ Len(p) \in Nat /\ Cap \in Nat
  BY WorkAssumption DEF Pkt
<1> DEFINE a == SubSeq(p, 1, n)
           b == Rest(p, n)
<1>2. a \in Seq(Byte) /\ Len(a) = n /\ \A i \in 1 .. n : a[i] = p[i]
  BY <1>1
<1>3. b \in Seq(Byte) /\ Len(b) = Len(p) - n /\ \A i \in 1 .. Len(p) - n : b[i] = p[n + i]
  BY <1>1 DEF Rest
<1> HIDE DEF a, b
<1>4. b \in Pkt /\ b # <<>>
  BY <1>1, <1>3 DEF Pkt
<1>5. /\ a \o b \in Seq(Byte) /\ Len(a \o b) = Len(p)
      /\ \A i \in 1 .. Len(p) : (a \o b)[i] = IF i <= n THEN a[i] ELSE b[i - n]
  BY <1>1, <1>2, <1>3, ConcatProperties
<1>6. \A i \in 1 .. Len(p) : (a \o b)[i] = p[i]
  <2> SUFFICES ASSUME NEW i \in 1 .. Len(p) PROVE (a \o b)[i] = p[i]
    OBVIOUS
  <2>1. CASE i <= n
    BY <1>1, <1>2, <1>5, <2>1
  <2>2. CASE ~(i <= n)
    <3>1. i - n \in 1 .. Len(p) - n /\ n + (i - n) = i
      BY <1>1, <2>2
    <3>. QED BY <1>3, <1>5, <2>2, <3>1
  <2>. QED BY <2>1, <2>2
<1>7. a \o b = p
  BY <1>1, <1>5, <1>6, SeqEqual
<1>. QED BY <1>1, <1>2, <1>3, <1>4, <1>7 DEF a, b

(* A session whose sent bytes, queue and rest of one direction change. *)
LEMMA MoveShape ==
  ASSUME NEW x \in Memory, NEW d \in End, NEW v \in Seq(Byte), NEW u \in Seq(Pkt)
  PROVE  LET y == [x EXCEPT !.sent[To(d)] = v, !.outq[d] = u]
         IN  /\ y \in Memory /\ y.insend = x.insend /\ y.blocked = x.blocked
             /\ y.outq[d] = u /\ y.blkpkt[d] = x.blkpkt[d] /\ y.nalloced = x.nalloced
             /\ y.sent[To(d)] = v /\ y.got = x.got /\ y.svr = x.svr /\ y.wait = x.wait
             /\ SameBut(x, y, d)
<1> DEFINE y == [x EXCEPT !.sent[To(d)] = v, !.outq[d] = u]
           ns == [x.sent EXCEPT ![To(d)] = v]
           nq == [x.outq EXCEPT ![d] = u]
<1>1. To(d) \in End /\ To(d) # d
  BY ToIs
<1>2. x.sent \in [End -> Seq(Byte)] /\ x.outq \in [End -> Seq(Pkt)]
  BY DEF Memory
<1>3. ns \in [End -> Seq(Byte)] /\ ns[To(d)] = v /\ ns[d] = x.sent[d]
  BY <1>1, <1>2
<1>4. nq \in [End -> Seq(Pkt)] /\ nq[d] = u /\ nq[To(d)] = x.outq[To(d)]
  BY <1>1, <1>2
<1>5. y = [x EXCEPT !.sent = ns, !.outq = nq]
  OBVIOUS
<1> HIDE DEF ns, nq, y
<1>6. /\ y \in Memory /\ y.insend = x.insend /\ y.blocked = x.blocked
      /\ y.outq = nq /\ y.blkpkt = x.blkpkt /\ y.nalloced = x.nalloced /\ y.sent = ns
      /\ y.got = x.got /\ y.svr = x.svr /\ y.wait = x.wait /\ y.live = x.live /\ y.pipe = x.pipe
  BY <1>3, <1>4, <1>5 DEF Memory
<1>7. /\ y \in Memory /\ y.insend = x.insend /\ y.blocked = x.blocked
      /\ y.outq[d] = u /\ y.blkpkt[d] = x.blkpkt[d] /\ y.nalloced = x.nalloced
      /\ y.sent[To(d)] = v /\ y.got = x.got /\ y.svr = x.svr /\ y.wait = x.wait
      /\ SameBut(x, y, d)
  BY <1>3, <1>4, <1>6 DEF SameBut
<1>. QED BY <1>7 DEF y

\* The rest b of a packet from d is kept.
Keeping(x, d, b) == [x EXCEPT !.blkpkt[d] = b]

\* What Block makes of a session of which the rest b was kept.
BlockedAt(x, d, b, r) ==
  /\ r.x \in Memory /\ r.n = 1 /\ r.ok = TRUE
  /\ r.x.insend = x.insend \cup {To(d)} /\ r.x.blocked = x.blocked \cup {To(d)}
  /\ r.x.outq = x.outq /\ r.x.blkpkt[d] = b /\ r.x.nalloced = x.nalloced
  /\ r.x.sent = x.sent /\ r.x.got = x.got /\ r.x.svr = x.svr /\ r.x.wait = x.wait
  /\ r.x.blkpkt[To(d)] = x.blkpkt[To(d)] /\ r.x.live = x.live /\ r.x.pipe = x.pipe

(* Block after the rest of a packet was kept. *)
LEMMA BlockShape ==
  ASSUME NEW x \in Memory, NEW d \in End, NEW b \in Pkt
  PROVE  BlockedAt(x, d, b, Block(Keeping(x, d, b), To(d)))
<1> DEFINE r == Block(Keeping(x, d, b), To(d))
<1> DEFINE nb == [x.blkpkt EXCEPT ![d] = b]
           y == [x EXCEPT !.blkpkt[d] = b]
           z == [y EXCEPT !.blocked = @ \cup {To(d)}, !.insend = @ \cup {To(d)}]
<1>1. To(d) \in End /\ To(d) # d
  BY ToIs
<1>2. nb \in [End -> Pkt \cup {<<>>}] /\ nb[d] = b /\ nb[To(d)] = x.blkpkt[To(d)]
  BY <1>1 DEF Memory
<1>3. y = [x EXCEPT !.blkpkt = nb]
  OBVIOUS
<1>3a. r = Block(y, To(d))
  BY DEF Keeping
<1>4. Block(y, To(d)) = Result(z, 1, TRUE)
  BY DEF Block
<1> HIDE DEF nb, y, r
<1>5. /\ y \in Memory /\ y.insend = x.insend /\ y.blocked = x.blocked
      /\ y.outq = x.outq /\ y.blkpkt = nb /\ y.nalloced = x.nalloced
      /\ y.sent = x.sent /\ y.got = x.got /\ y.svr = x.svr /\ y.wait = x.wait
      /\ y.live = x.live /\ y.pipe = x.pipe
  BY <1>2, <1>3 DEF Memory
<1>6. /\ z \in Memory /\ z.insend = y.insend \cup {To(d)} /\ z.blocked = y.blocked \cup {To(d)}
      /\ z.outq = y.outq /\ z.blkpkt = y.blkpkt /\ z.nalloced = y.nalloced
      /\ z.sent = y.sent /\ z.got = y.got /\ z.svr = y.svr /\ z.wait = y.wait
      /\ z.live = y.live /\ z.pipe = y.pipe
  BY <1>1, <1>5 DEF Memory
<1> HIDE DEF z
<1>7. r.x = z /\ r.n = 1 /\ r.ok = TRUE
  BY <1>3a, <1>4 DEF Result
<1>8. /\ z \in Memory
      /\ z.insend = x.insend \cup {To(d)} /\ z.blocked = x.blocked \cup {To(d)}
      /\ z.outq = x.outq /\ z.blkpkt[d] = b /\ z.nalloced = x.nalloced
      /\ z.sent = x.sent /\ z.got = x.got /\ z.svr = x.svr /\ z.wait = x.wait
      /\ z.blkpkt[To(d)] = x.blkpkt[To(d)] /\ z.live = x.live /\ z.pipe = x.pipe
  BY <1>2, <1>5, <1>6
<1>9. BlockedAt(x, d, b, r)
  BY <1>7, <1>8 DEF BlockedAt
<1>. QED BY <1>9 DEF r

(* Part of the next packet is sent. *)
LEMMA SendPartShape ==
  ASSUME NEW x \in Memory, NEW d \in End, x.outq[d] # <<>>, x.blkpkt[d] = <<>>,
         NEW n \in Nat, n < Len(Head(x.outq[d])), NEW r \in SendPart(x, d, n)
  PROVE  /\ ~r.ok => r.n = 0
         /\ r.ok \in BOOLEAN
         /\ r.ok =>
             LET p == Head(x.outq[d])
                 lost == To(d) \in x.blocked
             IN  /\ r.x \in Memory
                 /\ r.n = IF lost THEN 0 ELSE 1
                 /\ r.x.insend = IF lost THEN x.insend ELSE x.insend \cup {To(d)}
                 /\ r.x.blocked = IF lost THEN x.blocked ELSE x.blocked \cup {To(d)}
                 /\ r.x.outq[d] = Tail(x.outq[d])
                 /\ r.x.blkpkt[d] = IF lost THEN <<>> ELSE Rest(p, n)
                 /\ r.x.nalloced = x.nalloced
                 /\ r.x.sent[To(d)] = x.sent[To(d)] \o SubSeq(p, 1, n)
                 /\ r.x.got = x.got /\ r.x.svr = x.svr /\ r.x.wait = x.wait
                 /\ SameBut(x, r.x, d)
<1> DEFINE p == Head(x.outq[d])
           v == x.sent[To(d)] \o SubSeq(p, 1, n)
           u == Tail(x.outq[d])
           y == [x EXCEPT !.sent[To(d)] = v, !.outq[d] = u]
           b == Rest(p, n)
           lost == To(d) \in x.blocked
<1>1. x.outq[d] \in Seq(Pkt) /\ x.sent[To(d)] \in Seq(Byte) /\ To(d) \in End
  BY ToIs DEF Memory
<1>2. p \in Pkt /\ u \in Seq(Pkt)
  BY <1>1
<1>3. b \in Pkt /\ SubSeq(p, 1, n) \in Seq(Byte)
  BY <1>2, RestIs
<1>4. v \in Seq(Byte)
  BY <1>1, <1>3
<1>5. SendPart(x, d, n) =
        IF lost THEN {Result(y, 0, TRUE)}
        ELSE {Block(Keeping(y, d, b), To(d))}
               \cup (IF MayFail THEN {Result([y EXCEPT !.nalloced = @ - 1], 0, FALSE)} ELSE {})
  BY Zenon DEF SendPart, Keeping
<1> HIDE DEF v, u, b
<1>6. /\ y \in Memory /\ y.insend = x.insend /\ y.blocked = x.blocked
      /\ y.outq[d] = u /\ y.blkpkt[d] = x.blkpkt[d] /\ y.nalloced = x.nalloced
      /\ y.sent[To(d)] = v /\ y.got = x.got /\ y.svr = x.svr /\ y.wait = x.wait
      /\ SameBut(x, y, d)
  BY <1>2, <1>4, MoveShape
<1> HIDE DEF y
<1>7. CASE lost
  <2>1. r.x = y /\ r.n = 0 /\ r.ok = TRUE
    BY <1>5, <1>7 DEF Result
  <2>. QED BY <1>6, <1>7, <2>1 DEF u, v
<1>8. CASE ~lost
  <2>1. CASE r = Result([y EXCEPT !.nalloced = @ - 1], 0, FALSE)
    BY <2>1 DEF Result
  <2>2. CASE r = Block(Keeping(y, d, b), To(d))
    <3>1. /\ r.x \in Memory /\ r.n = 1 /\ r.ok = TRUE
          /\ r.x.insend = y.insend \cup {To(d)} /\ r.x.blocked = y.blocked \cup {To(d)}
          /\ r.x.outq = y.outq /\ r.x.blkpkt[d] = b /\ r.x.nalloced = y.nalloced
          /\ r.x.sent = y.sent /\ r.x.got = y.got /\ r.x.svr = y.svr /\ r.x.wait = y.wait
          /\ r.x.blkpkt[To(d)] = y.blkpkt[To(d)] /\ r.x.live = y.live /\ r.x.pipe = y.pipe
      <4>1. y \in Memory /\ b \in Pkt
        BY <1>3, <1>6
      <4>2. BlockedAt(y, d, b, Block(Keeping(y, d, b), To(d)))
        BY <4>1, BlockShape
      <4>3. BlockedAt(y, d, b, r)
        BY <4>2, <2>2, Zenon
      <4>. QED BY <4>3 DEF BlockedAt
    <3>2. SameBut(x, r.x, d)
      BY <1>6, <3>1 DEF SameBut
    <3>. QED BY <1>6, <1>8, <3>1, <3>2 DEF u, v, b
  <2>3. r = Block(Keeping(y, d, b), To(d)) \/ r = Result([y EXCEPT !.nalloced = @ - 1], 0, FALSE)
    BY <1>5, <1>8, Zenon
  <2>. QED BY <2>1, <2>2, <2>3
<1>. QED BY <1>7, <1>8

----------------------------------------------------------------------------
(* What sending does to the two directions.                                           *)

\* What was sent of direction d and what is kept of it.
Line(x, d) == x.sent[To(d)] \o FlattenSeq(Pending(x, d))

\* Packets that were allocated and are not found any more.
Excess(x) == x.nalloced - Kept(x)

\* Nothing is lost of direction d.
Keeps(x, y, d) == Line(y, d) = Line(x, d) /\ Excess(y) = Excess(x)

\* The rest of one packet is lost.
Loses(x, y, d) ==
  /\ \E a, b, c \in Seq(Byte) : Line(x, d) = a \o (b \o c) /\ Line(y, d) = a \o c
  /\ Excess(y) > Excess(x)

\* Session x may become y by sending what came from d.
Passes(x, y, d) ==
  /\ Fit(y) /\ SameBut(x, y, d) /\ y.got = x.got
  /\ d \in y.insend <=> d \in x.insend
  /\ Keeps(x, y, d) \/ Loses(x, y, d)

(* Sending is done piece by piece. *)
LEMMA PassesTwice ==
  ASSUME NEW x, NEW y, NEW z, NEW d, Passes(x, y, d), Keeps(x, y, d), Passes(y, z, d)
  PROVE  Passes(x, z, d)
<1>1. SameBut(x, z, d)
  BY DEF Passes, SameBut
<1>2. CASE Keeps(y, z, d)
  <2>1. Keeps(x, z, d)
    BY <1>2 DEF Keeps
  <2>. QED BY <1>1, <2>1 DEF Passes
<1>3. CASE Loses(y, z, d)
  <2>1. Loses(x, z, d)
    BY <1>3, Zenon DEF Loses, Keeps
  <2>. QED BY <1>1, <2>1 DEF Passes
<1>. QED BY <1>2, <1>3 DEF Passes

(* The packets, and with them the bytes, of a session's direction. *)
LEMMA LineIs ==
  ASSUME NEW x \in Memory, NEW d \in End
  PROVE  /\ Pending(x, d) \in Seq(Seq(Byte))
         /\ FlattenSeq(Pending(x, d)) \in Seq(Byte)
         /\ x.sent[To(d)] \in Seq(Byte)
         /\ Line(x, d) \in Seq(Byte)
<1>1. Pending(x, d) \in Seq(Pkt)
  BY PendingIs
<1>2. Pkt \subseteq Seq(Byte)
  BY DEF Pkt
<1>3. Pending(x, d) \in Seq(Seq(Byte))
  BY <1>1, <1>2
<1>4. FlattenSeq(Pending(x, d)) \in Seq(Byte)
  BY <1>3, FlattenType
<1>5. x.sent[To(d)] \in Seq(Byte)
  BY ToIs DEF Memory
<1>. QED BY <1>3, <1>4, <1>5 DEF Line

(* The other direction keeps its packets and bytes. *)
LEMMA OtherSame ==
  ASSUME NEW x, NEW y, NEW d \in End, SameBut(x, y, d)
  PROVE  /\ Pending(y, To(d)) = Pending(x, To(d))
         /\ Line(y, To(d)) = Line(x, To(d))
<1>1. To(To(d)) = d
  BY ToIs
<1>2. y.outq[To(d)] = x.outq[To(d)] /\ y.blkpkt[To(d)] = x.blkpkt[To(d)] /\ y.sent[d] = x.sent[d]
  BY DEF SameBut
<1>3. Pending(y, To(d)) = Pending(x, To(d))
  BY <1>2, Zenon DEF Pending
<1>. QED BY <1>1, <1>2, <1>3, Zenon DEF Line

(* How many packets a session holds, from those of one direction. *)
LEMMA KeptIs ==
  ASSUME NEW x \in Memory, NEW d \in End
  PROVE  /\ Kept(x) = Len(Pending(x, d)) + Len(Pending(x, To(d)))
         /\ Len(Pending(x, d)) \in Nat /\ Len(Pending(x, To(d))) \in Nat
         /\ Excess(x) \in Int /\ x.nalloced \in Int
<1>1. "cli" \in End /\ "svr" \in End /\ To(d) \in End
  BY ToIs DEF End
<1>2. Len(Pending(x, "cli")) \in Nat /\ Len(Pending(x, "svr")) \in Nat
  BY <1>1, PendingIs
<1>3. d = "cli" \/ d = "svr"
  BY DEF End
<1>4. x.nalloced \in Int
  BY DEF Memory
<1>. QED BY <1>2, <1>3, <1>4, ToIs DEF Kept, Excess

----------------------------------------------------------------------------
\* The descriptors in the send epoll and the count of them change alike.
Counts(x, r) == r.n = Cnt(r.x.insend) - Cnt(x.insend)

(* Bytes are joined in any order. *)
LEMMA Assoc ==
  ASSUME NEW a \in Seq(Byte), NEW b \in Seq(Byte), NEW c \in Seq(Byte)
  PROVE  (a \o b) \o c = a \o (b \o c)
  BY ConcatAssociative

(* One end enters or leaves a set of ends. *)
LEMMA CntStep ==
  ASSUME NEW S \in SUBSET End, NEW e \in End
  PROVE  /\ Cnt(S) \in Nat
         /\ e \in S => Cnt(S \ {e}) = Cnt(S) - 1
         /\ e \notin S => Cnt(S \cup {e}) = Cnt(S) + 1
         /\ e \in S => Cnt(S) >= 1
  BY DEF End, Cnt

(* What direction may be sent: to the server only when it is connected. *)
MaySend(x, d) == d = "cli" => x.svr /\ ~x.wait

(* k packets are sent whole. *)
LEMMA SendWholeFit ==
  ASSUME NEW x, Fit(x), NEW d \in End, MaySend(x, d), NEW k \in 0 .. Len(Pending(x, d))
  PROVE  LET r == SendWhole(x, d, k)
             all == Pending(x, d)
         IN  /\ Passes(x, r.x, d) /\ Keeps(x, r.x, d) /\ MaySend(r.x, d)
             /\ r.ok = TRUE /\ Counts(x, r) /\ r.n \in Int
             /\ Pending(r.x, d) = SubSeq(all, k + 1, Len(all))
             /\ r.x.outq[d] = SubSeq(all, k + 1, Len(all)) /\ r.x.blkpkt[d] = <<>>
<1> DEFINE r == SendWhole(x, d, k)
           y == r.x
           all == Pending(x, d)
           a == FlattenSeq(SubSeq(all, 1, k))
           u == SubSeq(all, k + 1, Len(all))
           b == FlattenSeq(u)
           free == k > 0 /\ To(d) \in x.blocked
<1>1. x \in Memory
  BY DEF Fit
<1>2. all \in Seq(Seq(Byte)) /\ Len(all) \in Nat /\ x.sent[To(d)] \in Seq(Byte)
  BY <1>1, LineIs, PendingIs
<1>3. SubSeq(all, 1, k) \in Seq(Seq(Byte)) /\ u \in Seq(Seq(Byte)) /\ Len(u) = Len(all) - k
  BY <1>2
<1>4. a \in Seq(Byte) /\ b \in Seq(Byte)
  BY <1>3, FlattenType
<1>5. FlattenSeq(all) = a \o b
  BY <1>2, FlattenSplit
<1>6. /\ y \in Memory /\ r.ok = TRUE
      /\ r.n = IF free THEN -1 ELSE 0
      /\ y.insend = IF free THEN x.insend \ {To(d)} ELSE x.insend
      /\ y.blocked = IF free THEN x.blocked \ {To(d)} ELSE x.blocked
      /\ y.outq[d] = u /\ y.blkpkt[d] = <<>>
      /\ y.nalloced = x.nalloced - k
      /\ y.sent[To(d)] = x.sent[To(d)] \o a
      /\ y.got = x.got /\ y.svr = x.svr /\ y.wait = x.wait
      /\ SameBut(x, y, d)
  BY <1>1, <1>4, SendWholeShape
<1>7. Pending(y, d) = u
  BY <1>6, PendingIs
<1>8. x.insend \in SUBSET End /\ To(d) \in End /\ To(d) # d /\ x.blocked \subseteq x.insend
  BY <1>1, ToIs DEF Memory, Fit
<1> HIDE DEF r, y, a, u, b, all
<1>9. Line(y, d) = Line(x, d)
  <2>1. Line(y, d) = (x.sent[To(d)] \o a) \o b
    BY <1>6, <1>7 DEF Line, b
  <2>2. Line(x, d) = x.sent[To(d)] \o (a \o b)
    BY <1>5 DEF Line, all
  <2>3. (x.sent[To(d)] \o a) \o b = x.sent[To(d)] \o (a \o b)
    BY <1>2, <1>4, Assoc
  <2>. QED BY <2>1, <2>2, <2>3
<1>10. Excess(y) = Excess(x) /\ Kept(y) = Kept(x) - k
  <2>1. Pending(y, To(d)) = Pending(x, To(d))
    BY <1>6, OtherSame
  <2>2. Kept(x) = Len(all) + Len(Pending(x, To(d))) /\ Len(Pending(x, To(d))) \in Nat
        /\ x.nalloced \in Int
    BY <1>1, KeptIs DEF all
  <2>3. Kept(y) = Len(u) + Len(Pending(x, To(d)))
    BY <1>6, <1>7, <2>1, KeptIs
  <2>. QED BY <1>2, <1>3, <1>6, <2>2, <2>3 DEF Excess
<1>11. Counts(x, r) /\ r.n \in Int
  <2>1. CASE free
    <3>1. r.n = -1 /\ y.insend = x.insend \ {To(d)} /\ To(d) \in x.insend
      BY <1>6, <1>8, <2>1
    <3>2. Cnt(x.insend \ {To(d)}) = Cnt(x.insend) - 1 /\ Cnt(x.insend) \in Nat
      BY <1>8, <3>1, CntStep
    <3>. QED BY <3>1, <3>2 DEF Counts, y
  <2>2. CASE ~free
    <3>1. r.n = 0 /\ y.insend = x.insend
      BY <1>6, <2>2
    <3>2. Cnt(x.insend) \in Nat
      BY <1>8, CntStep
    <3>. QED BY <3>1, <3>2 DEF Counts, y
  <2>. QED BY <2>1, <2>2
<1>12. Fit(y) /\ (d \in y.insend <=> d \in x.insend)
  <2>1. x.wait => To(d) # "svr"
    BY ToIs DEF MaySend, End
  <2>2. /\ x.insend = x.blocked \cup (IF x.wait THEN {"svr"} ELSE {})
        /\ x.wait => x.svr /\ "svr" \notin x.blocked
        /\ "svr" \in x.blocked => x.svr
        /\ \A e \in End : x.got[e] <= N[e]
        /\ x.nalloced >= Kept(x)
    BY DEF Fit
  <2>3. y.insend = y.blocked \cup (IF y.wait THEN {"svr"} ELSE {})
    BY <1>6, <1>8, <2>1, <2>2
  <2>4. /\ y.wait => y.svr /\ "svr" \notin y.blocked
        /\ "svr" \in y.blocked => y.svr
    BY <1>6, <2>2
  <2>5. y.nalloced >= Kept(y)
    BY <1>1, <1>6, <1>10, <2>2, KeptIs, HeldIs
  <2>6. \A e \in End : y.got[e] <= N[e]
    BY <1>6, <2>2
  <2>7. d \in y.insend <=> d \in x.insend
    BY <1>6, <1>8
  <2>. QED BY <1>6, <2>3, <2>4, <2>5, <2>6, <2>7 DEF Fit
<1>13. MaySend(y, d)
  BY <1>6 DEF MaySend
<1>14. Keeps(x, y, d)
  BY <1>9, <1>10 DEF Keeps
<1>15. Passes(x, y, d)
  BY <1>6, <1>12, <1>14 DEF Passes
<1>. QED BY <1>6, <1>7, <1>11, <1>13, <1>14, <1>15 DEF r, y, u, all

----------------------------------------------------------------------------
\* What r, a result of sending what x has from d, must be.
Sends(x, r, d) ==
  /\ r.ok \in BOOLEAN /\ r.n \in Int /\ r.n + Cnt(x.insend) >= 0
  /\ r.ok => Passes(x, r.x, d) /\ Counts(x, r) /\ Waits(r.x, d)

(* A queue that is not empty has a first packet. *)
LEMMA FirstPacket ==
  ASSUME NEW q \in Seq(Pkt), q # <<>>
  PROVE  /\ Head(q) \in Pkt /\ Tail(q) \in Seq(Pkt) /\ Len(Tail(q)) = Len(q) - 1
         /\ q = <<Head(q)>> \o Tail(q)
<1>1. Head(q) \in Pkt /\ Tail(q) \in Seq(Pkt) /\ Len(Tail(q)) = Len(q) - 1
  OBVIOUS
<1>2. \A i \in 1 .. Len(q) : (<<Head(q)>> \o Tail(q))[i] = q[i]
  OBVIOUS
<1>3. Len(<<Head(q)>> \o Tail(q)) = Len(q) /\ <<Head(q)>> \o Tail(q) \in Seq(Pkt)
  OBVIOUS
<1>4. q = <<Head(q)>> \o Tail(q)
  BY <1>2, <1>3, SeqEqual
<1>. QED BY <1>1, <1>4

(* The bytes of a packet that was sent in part. *)
LEMMA PartOfLine ==
  ASSUME NEW v \in Seq(Byte), NEW q \in Seq(Pkt), q # <<>>, NEW n \in Nat, n < Len(Head(q))
  PROVE  LET a == v \o SubSeq(Head(q), 1, n)
             b == Rest(Head(q), n)
             c == FlattenSeq(Tail(q))
         IN  /\ a \in Seq(Byte) /\ b \in Seq(Byte) /\ c \in Seq(Byte)
             /\ v \o FlattenSeq(q) = a \o (b \o c)
             /\ FlattenSeq(<<b>> \o Tail(q)) = b \o c
<1> DEFINE p == Head(q)
           t == Tail(q)
           s == SubSeq(p, 1, n)
           b == Rest(p, n)
           c == FlattenSeq(t)
<1>1. p \in Pkt /\ t \in Seq(Pkt) /\ q = <<p>> \o t
  BY FirstPacket
<1>2. p \in Seq(Byte) /\ s \in Seq(Byte) /\ b \in Seq(Byte) /\ s \o b = p
  BY <1>1, RestIs
<1>3. t \in Seq(Seq(Byte))
  <2>1. Pkt \subseteq Seq(Byte)
    BY DEF Pkt
  <2>. QED BY <1>1, <2>1
<1>4. c \in Seq(Byte)
  BY <1>3, FlattenType
<1> HIDE DEF p, t, s, b, c
<1>5. FlattenSeq(<<p>> \o t) = p \o c /\ FlattenSeq(<<b>> \o t) = b \o c
  BY <1>2, <1>3, FlattenCons DEF c
<1>6. v \o ((s \o b) \o c) = (v \o s) \o (b \o c)
  <2>0. b \o c \in Seq(Byte)
    BY <1>2, <1>4
  <2>1. (s \o b) \o c = s \o (b \o c)
    BY <1>2, <1>4, Assoc
  <2>2. (v \o s) \o (b \o c) = v \o (s \o (b \o c))
    BY <1>2, <2>0, Assoc
  <2>. QED BY <2>1, <2>2
<1>7. v \o s \in Seq(Byte)
  BY <1>2
<1>8. v \o FlattenSeq(q) = (v \o s) \o (b \o c)
  BY <1>1, <1>2, <1>5, <1>6
<1>. QED BY <1>2, <1>4, <1>5, <1>7, <1>8 DEF p, t, s, b, c

(* Part of a packet is sent: the rest is kept and its receiver waited for, or lost. *)
LEMMA SendPartFit ==
  ASSUME NEW x, Fit(x), NEW d \in End, MaySend(x, d), x.outq[d] # <<>>, x.blkpkt[d] = <<>>,
         NEW n \in Nat, n < Len(Head(x.outq[d])), NEW r \in SendPart(x, d, n)
  PROVE  Sends(x, r, d)
<1> DEFINE q == x.outq[d]
           p == Head(q)
           t == Tail(q)
           v == x.sent[To(d)]
           a == v \o SubSeq(p, 1, n)
           b == Rest(p, n)
           c == FlattenSeq(t)
           lost == To(d) \in x.blocked
           y == r.x
<1>1. x \in Memory /\ q \in Seq(Pkt) /\ v \in Seq(Byte)
  BY ToIs DEF Fit, Memory
<1>2. p \in Pkt /\ t \in Seq(Pkt) /\ Len(t) = Len(q) - 1 /\ Len(q) \in Nat /\ b \in Pkt /\ b # <<>>
  <2>1. p \in Pkt /\ t \in Seq(Pkt) /\ Len(t) = Len(q) - 1 /\ Len(q) \in Nat
    BY <1>1, FirstPacket
  <2>2. n < Len(p)
    OBVIOUS
  <2>3. b \in Pkt /\ b # <<>>
    BY <2>1, <2>2, RestIs
  <2>. QED BY <2>1, <2>3
<1>3. /\ a \in Seq(Byte) /\ b \in Seq(Byte) /\ c \in Seq(Byte)
      /\ v \o FlattenSeq(q) = a \o (b \o c)
      /\ FlattenSeq(<<b>> \o t) = b \o c
  BY <1>1, PartOfLine
<1>4. Pending(x, d) = q
  BY <1>1, PendingIs
<1>5. x.insend \in SUBSET End /\ To(d) \in End /\ To(d) # d /\ x.blocked \subseteq x.insend
      /\ Cnt(x.insend) \in Nat
  BY <1>1, ToIs, CntIs DEF Memory, Fit
<1>6. r.ok \in BOOLEAN /\ (~r.ok => r.n = 0)
  BY <1>1, SendPartShape
<1>7. CASE ~r.ok
  BY <1>5, <1>6, <1>7 DEF Sends
<1>8. CASE r.ok
  <2>1. /\ y \in Memory
        /\ r.n = IF lost THEN 0 ELSE 1
        /\ y.insend = IF lost THEN x.insend ELSE x.insend \cup {To(d)}
        /\ y.blocked = IF lost THEN x.blocked ELSE x.blocked \cup {To(d)}
        /\ y.outq[d] = t
        /\ y.blkpkt[d] = IF lost THEN <<>> ELSE b
        /\ y.nalloced = x.nalloced
        /\ y.sent[To(d)] = a
        /\ y.got = x.got /\ y.svr = x.svr /\ y.wait = x.wait
        /\ SameBut(x, y, d)
    BY <1>1, <1>8, SendPartShape
  <2> HIDE DEF q, p, t, v, a, b, c, y
  <2>2. Kept(x) = Len(q) + Len(Pending(x, To(d))) /\ Len(Pending(x, To(d))) \in Nat
        /\ x.nalloced \in Int /\ Excess(x) \in Int
    BY <1>1, <1>4, KeptIs
  <2>3. Kept(y) = Len(Pending(y, d)) + Len(Pending(x, To(d)))
    BY <2>1, OtherSame, KeptIs
  <2>4. Line(x, d) = a \o (b \o c)
    BY <1>3, <1>4 DEF Line, v
  <2>5. /\ x.insend = x.blocked \cup (IF x.wait THEN {"svr"} ELSE {})
        /\ x.wait => x.svr /\ "svr" \notin x.blocked
        /\ "svr" \in x.blocked => x.svr
        /\ \A e \in End : x.got[e] <= N[e]
        /\ x.nalloced >= Kept(x)
    BY DEF Fit
  <2>6. To(d) = "svr" => x.svr /\ ~x.wait
    BY ToIs DEF MaySend, End
  <2>7. \A e \in End : y.got[e] <= N[e]
    BY <2>1, <2>5
  <2>8. CASE lost
    <3>1. Pending(y, d) = t
      BY <2>1, <2>8, PendingIs
    <3>2. Line(y, d) = a \o c
      BY <2>1, <3>1 DEF Line, c
    <3>3. Kept(y) = Kept(x) - 1
      BY <1>2, <2>2, <2>3, <3>1
    <3>4. Excess(y) > Excess(x)
      BY <2>1, <2>2, <3>3, <1>2 DEF Excess
    <3>5. Loses(x, y, d)
      BY <1>3, <2>4, <3>2, <3>4 DEF Loses
    <3>6. y.nalloced >= Kept(y)
      BY <2>1, <2>2, <2>5, <3>3, <1>2
    <3>7. y.insend = x.insend /\ y.blocked = x.blocked /\ r.n = 0
      BY <2>1, <2>8
    <3>8. Fit(y)
      BY <2>1, <2>5, <2>7, <3>6, <3>7 DEF Fit
    <3>9. Passes(x, y, d)
      BY <2>1, <3>5, <3>7, <3>8 DEF Passes
    <3>10. Waits(y, d)
      BY <1>5, <2>8, <3>7 DEF Waits
    <3>11. Counts(x, r)
      BY <1>5, <3>7 DEF Counts, y
    <3>. QED BY <1>5, <1>6, <3>7, <3>9, <3>10, <3>11 DEF Sends, y
  <2>9. CASE ~lost
    <3>1. Pending(y, d) = <<b>> \o t /\ Len(Pending(y, d)) = Len(t) + 1
      BY <1>2, <2>1, <2>9, PendingIs
    <3>2. Line(y, d) = a \o (b \o c)
      <4>1. FlattenSeq(Pending(y, d)) = b \o c
        BY <1>3, <3>1, Zenon
      <4>2. y.sent[To(d)] = a
        BY <2>1
      <4>. QED BY <4>1, <4>2, Zenon DEF Line
    <3>3. Kept(y) = Kept(x)
      <4>1. Len(Pending(y, d)) = Len(t) + 1 /\ Len(t) = Len(q) - 1 /\ Len(q) \in Nat
        BY <1>2, <3>1, Zenon
      <4>2. Len(Pending(y, d)) = Len(q)
        BY <4>1
      <4>. QED BY <2>2, <2>3, <4>2, Zenon
    <3>4. Keeps(x, y, d)
      <4>1. y.nalloced = x.nalloced
        BY <2>1
      <4>2. Excess(y) = Excess(x)
        BY <3>3, <4>1, Zenon DEF Excess
      <4>. QED BY <2>4, <3>2, <4>2, Zenon DEF Keeps
    <3>5. /\ y.insend = x.insend \cup {To(d)} /\ y.blocked = x.blocked \cup {To(d)}
          /\ r.n = 1 /\ To(d) \notin x.blocked
      BY <2>1, <2>9
    <3>6. To(d) \notin x.insend
      BY <2>5, <2>6, <3>5
    <3>7. Counts(x, r)
      <4>1. Cnt(x.insend \cup {To(d)}) = Cnt(x.insend) + 1
        BY <1>5, <3>6, CntStep
      <4>. QED BY <1>5, <3>5, <4>1 DEF Counts, y
    <3>8. Fit(y)
      <4>1. y.insend = y.blocked \cup (IF y.wait THEN {"svr"} ELSE {})
        BY <2>1, <2>5, <3>5
      <4>2. /\ y.wait => y.svr /\ "svr" \notin y.blocked
            /\ "svr" \in y.blocked => y.svr
        BY <2>1, <2>5, <2>6, <3>5
      <4>3. y.nalloced >= Kept(y)
        BY <2>1, <2>5, <3>3
      <4>. QED BY <2>1, <2>7, <4>1, <4>2, <4>3 DEF Fit
    <3>9. Passes(x, y, d)
      BY <1>5, <2>1, <3>4, <3>5, <3>8 DEF Passes
    <3>10. Waits(y, d)
      BY <3>5 DEF Waits
    <3>. QED BY <1>5, <1>6, <3>5, <3>7, <3>9, <3>10 DEF Sends, y
  <2>. QED BY <2>8, <2>9
<1>. QED BY <1>6, <1>7, <1>8

(* Sending goes on after k whole packets. *)
LEMMA SendsTwice ==
  ASSUME NEW x, NEW r, NEW u, NEW d, x.insend \in SUBSET End, r.x.insend \in SUBSET End,
         Passes(x, r.x, d), Keeps(x, r.x, d), Counts(x, r), r.n \in Int, Sends(r.x, u, d)
  PROVE  Sends(x, Result(u.x, r.n + u.n, u.ok), d)
<1> DEFINE w == Result(u.x, r.n + u.n, u.ok)
<1>1. w.x = u.x /\ w.n = r.n + u.n /\ w.ok = u.ok
  BY DEF Result
<1>2. u.ok \in BOOLEAN /\ u.n \in Int /\ u.n + Cnt(r.x.insend) >= 0
      /\ r.n = Cnt(r.x.insend) - Cnt(x.insend)
  BY DEF Sends, Counts
<1>3. Cnt(x.insend) \in Nat /\ Cnt(r.x.insend) \in Nat
  BY CntIs
<1>4. w.ok \in BOOLEAN
  BY <1>1, <1>2, Zenon
<1> HIDE DEF w
<1>5. w.n \in Int /\ w.n + Cnt(x.insend) >= 0
  BY <1>1, <1>2, <1>3
<1>6. ASSUME w.ok PROVE Passes(x, w.x, d) /\ Counts(x, w) /\ Waits(w.x, d)
  <2>1. Passes(r.x, u.x, d) /\ u.n = Cnt(u.x.insend) - Cnt(r.x.insend) /\ Waits(u.x, d)
    BY <1>1, <1>6, Zenon DEF Sends, Counts
  <2>2. Passes(x, u.x, d)
    BY <2>1, PassesTwice
  <2>3. u.x.insend \in SUBSET End
    BY <2>1 DEF Passes, Fit, Memory
  <2>4. Cnt(u.x.insend) \in Nat
    BY <2>3, CntIs
  <2>5. w.n = Cnt(u.x.insend) - Cnt(x.insend)
    BY <1>1, <1>2, <1>3, <2>1, <2>4
  <2>6. Counts(x, w)
    BY <1>1, <2>5, Zenon DEF Counts
  <2>. QED BY <1>1, <2>1, <2>2, <2>6, Zenon
<1>. QED BY <1>4, <1>5, <1>6, Zenon DEF Sends, w

(* The empty sequence has length 0. *)
LEMMA EmptyLen == Len(<<>>) = 0
  OBVIOUS

(* After k whole packets comes part of the next one, or an error. *)
LEMMA AfterWhole ==
  ASSUME NEW x, Fit(x), NEW d \in End, MaySend(x, d), NEW k \in 0 .. Len(Pending(x, d)) - 1, NEW u,
         \/ u \in SendError(SendWhole(x, d, k).x, d)
         \/ \E n \in Nat : n < Len(Pending(x, d)[k + 1]) /\ u \in SendPart(SendWhole(x, d, k).x, d, n)
  PROVE  LET w == SendWhole(x, d, k)
         IN  w.ok = TRUE /\ Sends(x, Result(u.x, w.n + u.n, u.ok), d)
<1> DEFINE w == SendWhole(x, d, k)
           y == w.x
           all == Pending(x, d)
           m == Len(all)
<1>1. x \in Memory /\ all \in Seq(Pkt) /\ m \in Nat /\ x.insend \in SUBSET End
  BY PendingIs DEF Fit, Memory
<1>2. k \in 0 .. m /\ k + 1 \in 1 .. m
  BY <1>1
<1>3. /\ Passes(x, w.x, d) /\ Keeps(x, w.x, d) /\ MaySend(w.x, d)
      /\ w.ok = TRUE /\ Counts(x, w) /\ w.n \in Int
      /\ w.x.outq[d] = SubSeq(all, k + 1, Len(all)) /\ w.x.blkpkt[d] = <<>>
  BY <1>2, SendWholeFit
<1> HIDE DEF w, y, all
<1>4. y.outq[d] = SubSeq(all, k + 1, Len(all))
  BY <1>3 DEF y
<1>5. y.outq[d] # <<>> /\ Head(y.outq[d]) = all[k + 1]
  <2>1. k + 1 \in 1 .. Len(all) /\ Len(all) \in (k + 1) .. Len(all)
    BY <1>1, <1>2
  <2>2. Head(SubSeq(all, k + 1, Len(all))) = all[k + 1]
    BY <1>1, <2>1, HeadTailOfSubSeq
  <2>3. SubSeq(all, k + 1, Len(all)) # <<>>
    <3>1. Len(SubSeq(all, k + 1, Len(all))) = Len(all) - k
      BY <1>1, <1>2
    <3>2. Len(all) - k # 0
      BY <1>1, <1>2
    <3>. QED BY <3>1, <3>2, Zenon, EmptyLen
  <2>. QED BY <1>4, <2>2, <2>3
<1>6. Fit(y) /\ y.insend \in SUBSET End
  BY <1>3 DEF Passes, Fit, Memory, y
<1>7. Cnt(y.insend) \in Nat
  BY <1>6, CntIs
<1>8. Sends(y, u, d)
  <2>1. CASE u \in SendError(y, d)
    <3>1. u.n = 0 /\ u.ok = FALSE
      BY <2>1 DEF SendError, Result
    <3>2. u.ok \in BOOLEAN /\ ~u.ok
      BY <3>1, Zenon
    <3>3. u.n \in Int /\ u.n + Cnt(y.insend) >= 0
      BY <1>7, <3>1
    <3>. QED BY <3>2, <3>3, Zenon DEF Sends
  <2>2. ASSUME NEW n \in Nat, n < Len(all[k + 1]), u \in SendPart(y, d, n)
        PROVE  Sends(y, u, d)
    <3>1. MaySend(y, d) /\ y.blkpkt[d] = <<>>
      BY <1>3 DEF y
    <3>. QED BY <1>5, <1>6, <2>2, <3>1, SendPartFit
  <2>. QED BY <2>1, <2>2 DEF y, w, all
<1>9. Sends(x, Result(u.x, w.n + u.n, u.ok), d)
  <2>1. w.x.insend \in SUBSET End /\ Sends(w.x, u, d)
    BY <1>6, <1>8 DEF y
  <2>. QED BY <1>1, <1>3, <2>1, SendsTwice
<1>. QED BY <1>3, <1>9 DEF w

(* Whatever _work_sendto_client and _work_sendto_server send, in whatever pieces. *)
LEMMA SendingFit ==
  ASSUME NEW x, Fit(x), NEW d \in End, MaySend(x, d), NEW r \in Sending(x, d)
  PROVE  Sends(x, r, d)
<1> DEFINE all == Pending(x, d)
           m == Len(all)
           least == IF d = "cli" THEN 1 ELSE 0
           G(k, y) == SendError(y, d) \cup UNION {SendPart(y, d, n) : n \in least .. Len(all[k + 1]) - 1}
<1>1. x \in Memory /\ all \in Seq(Pkt) /\ m \in Nat /\ x.insend \in SUBSET End
      /\ Cnt(x.insend) \in Nat
  BY PendingIs, CntIs DEF Fit, Memory
<1>2. CASE r = SendWhole(x, d, m)
  <2>1. m \in 0 .. Len(Pending(x, d))
    BY <1>1
  <2>2. /\ Passes(x, r.x, d) /\ r.ok = TRUE /\ Counts(x, r) /\ r.n \in Int
        /\ Pending(r.x, d) = SubSeq(all, m + 1, Len(all))
    BY <1>2, <2>1, SendWholeFit
  <2>3. Pending(r.x, d) = <<>>
    BY <1>1, <2>2
  <2>4. Waits(r.x, d)
    BY <2>3 DEF Waits
  <2>5. r.x.insend \in SUBSET End
    BY <2>2 DEF Passes, Fit, Memory
  <2>6. r.n + Cnt(x.insend) >= 0
    BY <1>1, <2>2, <2>5, CntIs DEF Counts
  <2>. QED BY <2>2, <2>4, <2>6 DEF Sends
<1>3. ASSUME NEW k \in 0 .. m - 1, r \in Then(SendWhole(x, d, k), LAMBDA y : G(k, y))
      PROVE  \E u \in G(k, SendWhole(x, d, k).x) :
               r = Result(u.x, SendWhole(x, d, k).n + u.n, u.ok)
  <2>1. k \in 0 .. Len(Pending(x, d))
    BY <1>1
  <2>2. SendWhole(x, d, k).ok = TRUE
    BY <2>1, SendWholeFit
  <2>. QED BY <1>3, <2>2, Zenon DEF Then
<1>4. r = SendWhole(x, d, m) \/ \E k \in 0 .. m - 1 : r \in Then(SendWhole(x, d, k), LAMBDA y : G(k, y))
  BY Zenon DEF Sending
<1>5. ASSUME NEW k \in 0 .. m - 1, NEW u \in G(k, SendWhole(x, d, k).x)
      PROVE  \/ u \in SendError(SendWhole(x, d, k).x, d)
             \/ \E n \in Nat : n < Len(Pending(x, d)[k + 1]) /\ u \in SendPart(SendWhole(x, d, k).x, d, n)
  <2>1. least \in Nat
    OBVIOUS
  <2>2. Len(all[k + 1]) \in Nat
    BY <1>1 DEF Pkt
  <2> HIDE DEF least
  <2>3. \A n \in least .. Len(all[k + 1]) - 1 : n \in Nat /\ n < Len(all[k + 1])
    BY <2>1, <2>2
  <2>. QED BY <2>3, Zenon
<1>6. ASSUME NEW k \in 0 .. m - 1, NEW u \in G(k, SendWhole(x, d, k).x)
      PROVE  Sends(x, Result(u.x, SendWhole(x, d, k).n + u.n, u.ok), d)
  BY <1>5, AfterWhole
<1>. QED BY <1>2, <1>3, <1>4, <1>6, Zenon

----------------------------------------------------------------------------
(* The order of bytes.                                                                *)

\* The bytes from d in s ascend, up to number g.
Up(s, d, g) ==
  /\ \A i \in DOMAIN s : s[i][1] = d => s[i][2] <= g
  /\ \A i, j \in DOMAIN s : i < j /\ s[i][1] = d /\ s[j][1] = d => s[i][2] < s[j][2]

\* The first g bytes from d.
Full(d, g) == [i \in 1 .. g |-> <<d, i>>]

\* The next n bytes from d after g of them.
After(d, g, n) == [i \in 1 .. n |-> <<d, g + i>>]

(* Leaving out bytes from the middle does not disturb the order of the others. *)
LEMMA UpMid ==
  ASSUME NEW a \in Seq(Byte), NEW b \in Seq(Byte), NEW c \in Seq(Byte), NEW d, NEW g,
         Up(a \o (b \o c), d, g)
  PROVE  Up(a \o c, d, g)
<1> DEFINE s == a \o (b \o c)
           t == a \o c
           f(i) == IF i <= Len(a) THEN i ELSE i + Len(b)
<1>1. Len(a) \in Nat /\ Len(b) \in Nat /\ Len(c) \in Nat
  OBVIOUS
<1>2. /\ t \in Seq(Byte) /\ Len(t) = Len(a) + Len(c) /\ DOMAIN t = 1 .. Len(a) + Len(c)
      /\ \A i \in 1 .. Len(a) + Len(c) : t[i] = IF i <= Len(a) THEN a[i] ELSE c[i - Len(a)]
  OBVIOUS
<1>3. /\ DOMAIN s = 1 .. Len(a) + Len(b) + Len(c)
      /\ \A i \in 1 .. Len(a) + Len(b) + Len(c) :
           s[i] = IF i <= Len(a) THEN a[i]
                  ELSE IF i <= Len(a) + Len(b) THEN b[i - Len(a)] ELSE c[i - Len(a) - Len(b)]
  <2> DEFINE w == b \o c
  <2>1. /\ w \in Seq(Byte) /\ Len(w) = Len(b) + Len(c)
        /\ \A i \in 1 .. Len(b) + Len(c) : w[i] = IF i <= Len(b) THEN b[i] ELSE c[i - Len(b)]
    OBVIOUS
  <2> HIDE DEF w
  <2>2. /\ Len(a \o w) = Len(a) + Len(b) + Len(c) /\ a \o w \in Seq(Byte)
        /\ \A i \in 1 .. Len(a) + Len(b) + Len(c) : (a \o w)[i] = IF i <= Len(a) THEN a[i] ELSE w[i - Len(a)]
    BY <1>1, <2>1
  <2>3. DOMAIN (a \o w) = 1 .. Len(a) + Len(b) + Len(c)
    BY <1>1, <2>2
  <2>4. ASSUME NEW i \in 1 .. Len(a) + Len(b) + Len(c), ~(i <= Len(a))
        PROVE  w[i - Len(a)] = IF i <= Len(a) + Len(b) THEN b[i - Len(a)] ELSE c[i - Len(a) - Len(b)]
    <3>1. i - Len(a) \in 1 .. Len(b) + Len(c)
      BY <1>1, <2>4
    <3>2. i - Len(a) <= Len(b) <=> i <= Len(a) + Len(b)
      BY <1>1
    <3>. QED BY <2>1, <3>1, <3>2
  <2>. QED BY <2>2, <2>3, <2>4 DEF w
<1> HIDE DEF s, t
<1>4. ASSUME NEW i \in DOMAIN t
      PROVE  f(i) \in DOMAIN s /\ t[i] = s[f(i)]
  <2>1. CASE i <= Len(a)
    BY <1>1, <1>2, <1>3, <2>1
  <2>2. CASE ~(i <= Len(a))
    <3>1. /\ i + Len(b) \in 1 .. Len(a) + Len(b) + Len(c) /\ ~(i + Len(b) <= Len(a))
          /\ ~(i + Len(b) <= Len(a) + Len(b)) /\ (i + Len(b)) - Len(a) - Len(b) = i - Len(a)
      BY <1>1, <1>2, <2>2
    <3>2. s[i + Len(b)] = c[(i + Len(b)) - Len(a) - Len(b)]
      BY <1>3, <3>1
    <3>. QED BY <1>2, <1>3, <2>2, <3>1, <3>2
  <2>. QED BY <2>1, <2>2
<1>5. \A i, j \in DOMAIN t : i < j => f(i) < f(j)
  BY <1>1, <1>2
<1> HIDE DEF f
<1>6. Up(s, d, g)
  BY DEF s
<1>7. Up(t, d, g)
  BY <1>4, <1>5, <1>6 DEF Up
<1>. QED BY <1>7 DEF t

(* A prefix is in order. *)
LEMMA UpPrefix ==
  ASSUME NEW a \in Seq(Byte), NEW b \in Seq(Byte), NEW d, NEW g, Up(a \o b, d, g)
  PROVE  Up(a, d, g)
<1>1. <<>> \in Seq(Byte) /\ b \o <<>> = b /\ a \o <<>> = a
  BY ConcatEmptySeq
<1>2. Up(a \o (b \o <<>>), d, g)
  BY <1>1
<1>3. Up(a \o <<>>, d, g)
  BY <1>1, <1>2, UpMid
<1>. QED BY <1>1, <1>3

(* What comes later has greater numbers. *)
LEMMA UpJoin ==
  ASSUME NEW a \in Seq(Byte), NEW b \in Seq(Byte), NEW d, NEW g \in Nat, NEW h \in Nat, g <= h,
         Up(a, d, g), Up(b, d, h), \A i \in DOMAIN b : b[i][1] = d => b[i][2] > g
  PROVE  Up(a \o b, d, h)
<1> DEFINE s == a \o b
<1>1. Len(a) \in Nat /\ Len(b) \in Nat /\ DOMAIN a = 1 .. Len(a) /\ DOMAIN b = 1 .. Len(b)
  OBVIOUS
<1>2. /\ s \in Seq(Byte) /\ DOMAIN s = 1 .. Len(a) + Len(b)
      /\ \A i \in 1 .. Len(a) + Len(b) : s[i] = IF i <= Len(a) THEN a[i] ELSE b[i - Len(a)]
  OBVIOUS
<1>3. \A i \in DOMAIN a : a[i] \in Byte
  BY <1>1
<1>4. \A i \in DOMAIN b : b[i] \in Byte
  BY <1>1
<1>5. ASSUME NEW i \in DOMAIN a PROVE a[i][2] \in Nat
  BY <1>3 DEF Byte
<1>6. ASSUME NEW i \in DOMAIN b PROVE b[i][2] \in Nat
  BY <1>4 DEF Byte
<1> HIDE DEF s
<1>7. ASSUME NEW i \in DOMAIN s, s[i][1] = d PROVE s[i][2] <= h
  <2>1. CASE i <= Len(a)
    <3>1. i \in DOMAIN a /\ s[i] = a[i]
      BY <1>1, <1>2, <2>1
    <3>2. a[i][2] <= g
      BY <1>7, <3>1 DEF Up
    <3>. QED BY <1>5, <3>1, <3>2
  <2>2. CASE ~(i <= Len(a))
    <3>1. i - Len(a) \in DOMAIN b /\ s[i] = b[i - Len(a)]
      BY <1>1, <1>2, <2>2
    <3>. QED BY <1>7, <3>1 DEF Up
  <2>. QED BY <2>1, <2>2
<1>8. ASSUME NEW i \in DOMAIN s, NEW j \in DOMAIN s, i < j, s[i][1] = d, s[j][1] = d
      PROVE  s[i][2] < s[j][2]
  <2>1. CASE j <= Len(a)
    <3>1. i \in DOMAIN a /\ s[i] = a[i] /\ j \in DOMAIN a /\ s[j] = a[j]
      BY <1>1, <1>2, <1>8, <2>1
    <3>. QED BY <1>8, <3>1 DEF Up
  <2>2. CASE i <= Len(a) /\ ~(j <= Len(a))
    <3>1. i \in DOMAIN a /\ s[i] = a[i] /\ j - Len(a) \in DOMAIN b /\ s[j] = b[j - Len(a)]
      BY <1>1, <1>2, <2>2
    <3>2. a[i][2] <= g /\ b[j - Len(a)][2] > g
      BY <1>8, <3>1 DEF Up
    <3>3. a[i][2] \in Nat /\ b[j - Len(a)][2] \in Nat
      BY <1>5, <1>6, <3>1
    <3>. QED BY <3>1, <3>2, <3>3
  <2>3. CASE ~(i <= Len(a)) /\ ~(j <= Len(a))
    <3>1. i - Len(a) \in DOMAIN b /\ s[i] = b[i - Len(a)] /\ j - Len(a) \in DOMAIN b /\ s[j] = b[j - Len(a)]
      BY <1>1, <1>2, <2>3
    <3>2. i - Len(a) < j - Len(a)
      BY <1>1, <1>2, <1>8
    <3>. QED BY <1>8, <3>1, <3>2 DEF Up
  <2>. QED BY <2>1, <2>2, <2>3, <1>1, <1>2, <1>8
<1>9. Up(s, d, h)
  BY <1>7, <1>8 DEF Up
<1>. QED BY <1>9 DEF s

(* The next bytes of an end. *)
LEMMA AfterIs ==
  ASSUME NEW d \in End, NEW g \in Nat, NEW n \in Nat
  PROVE  /\ After(d, g, n) \in Seq(Byte) /\ Len(After(d, g, n)) = n
         /\ DOMAIN After(d, g, n) = 1 .. n
         /\ \A i \in 1 .. n : After(d, g, n)[i][1] = d /\ After(d, g, n)[i][2] = g + i
<1> DEFINE b == After(d, g, n)
<1>1. \A i \in 1 .. n : <<d, g + i>> \in Byte
  BY DEF Byte
<1>2. b \in [1 .. n -> Byte]
  BY <1>1 DEF After
<1>3. b \in Seq(Byte) /\ Len(b) = n
  BY <1>2
<1>. QED BY <1>2, <1>3 DEF After

(* They are in order after the earlier ones. *)
LEMMA UpMore ==
  ASSUME NEW a \in Seq(Byte), NEW d \in End, NEW g \in Nat, NEW n \in Nat, Up(a, d, g)
  PROVE  Up(a \o After(d, g, n), d, g + n)
<1> DEFINE b == After(d, g, n)
<1>1. /\ b \in Seq(Byte) /\ DOMAIN b = 1 .. n
      /\ \A i \in 1 .. n : b[i][1] = d /\ b[i][2] = g + i
  BY AfterIs
<1> HIDE DEF b
<1>2. Up(b, d, g + n)
  BY <1>1 DEF Up
<1>3. \A i \in DOMAIN b : b[i][1] = d => b[i][2] > g
  BY <1>1
<1>4. g <= g + n /\ g + n \in Nat
  OBVIOUS
<1>5. Up(a \o b, d, g + n)
  BY <1>1, <1>2, <1>3, <1>4, UpJoin
<1>. QED BY <1>5 DEF b

(* Bytes of the other end do not matter. *)
LEMMA UpOther ==
  ASSUME NEW a \in Seq(Byte), NEW d, NEW e \in End, d # e, NEW g \in Nat, NEW m \in Nat,
         NEW n \in Nat, Up(a, d, m)
  PROVE  Up(a \o After(e, g, n), d, m)
<1> DEFINE b == After(e, g, n)
<1>1. /\ b \in Seq(Byte) /\ DOMAIN b = 1 .. n
      /\ \A i \in 1 .. n : b[i][1] = e /\ b[i][2] = g + i
  BY AfterIs
<1> HIDE DEF b
<1>2. Up(b, d, m)
  BY <1>1 DEF Up
<1>3. \A i \in DOMAIN b : b[i][1] = d => b[i][2] > m
  BY <1>1
<1>5. Up(a \o b, d, m)
  BY <1>1, <1>2, <1>3, UpJoin
<1>. QED BY <1>5 DEF b

(* All bytes so far and the next ones are all bytes. *)
LEMMA FullMore ==
  ASSUME NEW d \in End, NEW g \in Nat, NEW n \in Nat
  PROVE  Full(d, g) \o After(d, g, n) = Full(d, g + n)
<1> DEFINE a == Full(d, g)
           b == After(d, g, n)
           c == Full(d, g + n)
<1>0. ASSUME NEW k \in Nat
      PROVE  Full(d, k) \in Seq(Byte) /\ Len(Full(d, k)) = k /\ \A i \in 1 .. k : Full(d, k)[i] = <<d, i>>
  <2>1. \A i \in 1 .. k : <<d, i>> \in Byte
    BY DEF Byte
  <2>2. Full(d, k) \in [1 .. k -> Byte]
    BY <2>1 DEF Full
  <2>. QED BY <2>2 DEF Full
<1>1. a \in Seq(Byte) /\ Len(a) = g /\ \A i \in 1 .. g : a[i] = <<d, i>>
  BY <1>0
<1>2. c \in Seq(Byte) /\ Len(c) = g + n /\ \A i \in 1 .. g + n : c[i] = <<d, i>>
  BY <1>0
<1>3. b \in Seq(Byte) /\ Len(b) = n
  BY AfterIs
<1>3a. \A i \in 1 .. n : b[i] = <<d, g + i>>
  BY DEF After
<1>3b. a \in Seq(Byte) /\ Len(a) = g
  BY <1>1
<1> HIDE DEF a, b, c
<1>4. /\ a \o b \in Seq(Byte) /\ Len(a \o b) = g + n
      /\ \A i \in 1 .. g + n : (a \o b)[i] = IF i <= g THEN a[i] ELSE b[i - g]
  BY <1>3, <1>3b, ConcatProperties
<1>5. ASSUME NEW i \in 1 .. g + n PROVE (a \o b)[i] = c[i]
  <2>1. CASE i <= g
    <3>1. i \in 1 .. g
      BY <2>1
    <3>2. a[i] = <<d, i>> /\ c[i] = <<d, i>>
      BY <1>1, <1>2, <3>1
    <3>. QED BY <1>4, <2>1, <3>2
  <2>2. CASE ~(i <= g)
    <3>1. i - g \in 1 .. n /\ g + (i - g) = i
      BY <2>2
    <3>2. b[i - g] = <<d, i>>
      BY <1>3a, <3>1
    <3>. QED BY <1>2, <1>4, <2>2, <3>2
  <2>. QED BY <2>1, <2>2
<1>6. a \o b = c
  BY <1>2, <1>4, <1>5, SeqEqual
<1>. QED BY <1>6 DEF a, b, c

----------------------------------------------------------------------------
(* What holds of every session between two steps of the loop.                         *)

\* The bytes of direction d, in mode m.
Carries(m, x, d) ==
  /\ m = "copy" => /\ Up(Line(x, d), d, x.got[d])
                   /\ Excess(x) = 0 => Line(x, d) = Full(d, x.got[d])
  /\ m # "copy" => Pending(x, d) = <<>>
  /\ m = "splice" => Up(x.sent[To(d)] \o x.pipe, d, x.got[d])
  /\ m = "nb" => Up(x.sent[To(d)], d, x.got[d])

Good(m, x) == Fit(x) /\ \A d \in End : Waits(x, d) /\ Carries(m, x, d)

\* What result r of a handler of x must be.
Done(m, x, r) ==
  /\ r.ok \in BOOLEAN /\ r.n \in Int /\ r.n + Cnt(x.insend) >= 0
  /\ r.ok => Good(m, r.x) /\ Counts(x, r)

(* Sending keeps the order, and what it loses is missed. *)
LEMMA GoodSend ==
  ASSUME NEW x, NEW y, NEW d \in End, Fit(x), Waits(x, To(d)),
         Carries("copy", x, d), Carries("copy", x, To(d)), Passes(x, y, d), Waits(y, d)
  PROVE  Good("copy", y)
<1> DEFINE e == To(d)
<1>1. e \in End /\ e # d /\ To(e) = d /\ \A c \in End : c = d \/ c = e
  BY ToIs DEF End
<1>2. x \in Memory /\ y \in Memory /\ y.got = x.got /\ SameBut(x, y, d)
  BY DEF Fit, Passes
<1>3. Pending(y, e) = Pending(x, e) /\ Line(y, e) = Line(x, e)
  BY <1>2, OtherSame
<1>4. Waits(y, e)
  BY <1>1, <1>3 DEF Waits, Passes
<1>5. Excess(x) \in Nat /\ Excess(y) \in Nat
  <2>1. Kept(x) \in Nat /\ Kept(y) \in Nat
    BY <1>2, HeldIs
  <2>2. x.nalloced \in Int /\ y.nalloced \in Int /\ x.nalloced >= Kept(x) /\ y.nalloced >= Kept(y)
    BY <1>2 DEF Fit, Memory, Passes
  <2>. QED BY <2>1, <2>2 DEF Excess
<1>6. Excess(y) >= Excess(x)
  BY <1>5 DEF Passes, Keeps, Loses
<1>7. Carries("copy", y, e)
  <2>1. Up(Line(y, e), e, y.got[e])
    BY <1>2, <1>3 DEF Carries
  <2>2. Excess(y) = 0 => Line(y, e) = Full(e, y.got[e])
    BY <1>2, <1>3, <1>5, <1>6 DEF Carries
  <2>. QED BY <2>1, <2>2 DEF Carries
<1>8. Carries("copy", y, d)
  <2>1. CASE Keeps(x, y, d)
    BY <1>2, <2>1 DEF Carries, Keeps
  <2>2. CASE Loses(x, y, d)
    <3>1. PICK a, b, c \in Seq(Byte) : Line(x, d) = a \o (b \o c) /\ Line(y, d) = a \o c
      BY <2>2 DEF Loses
    <3>2. Up(a \o (b \o c), d, x.got[d])
      BY <3>1 DEF Carries
    <3>3. Up(a \o c, d, x.got[d])
      BY <3>2, UpMid
    <3>4. Excess(y) # 0
      BY <1>5, <2>2 DEF Loses
    <3>. QED BY <1>2, <3>1, <3>3, <3>4 DEF Carries
  <2>. QED BY <2>1, <2>2 DEF Passes
<1>9. Fit(y)
  BY DEF Passes
<1>. QED BY <1>1, <1>4, <1>7, <1>8, <1>9 DEF Good

----------------------------------------------------------------------------
(* Receiving.                                                                         *)

(* Bytes depends only on how many there were. *)
LEMMA BytesIs == \A x, d, n : Bytes(x, d, n) = After(d, x.got[d], n)
  BY DEF Bytes, After

\* What Receive makes of x: one packet more, or nothing.
Received(x, d, n, y) ==
  /\ y \in Memory
  /\ y.got[d] = x.got[d] + n /\ y.got[To(d)] = x.got[To(d)]
  /\ n = 0 => y.outq[d] = x.outq[d] /\ y.nalloced = x.nalloced
  /\ n # 0 => y.outq[d] = Append(x.outq[d], After(d, x.got[d], n)) /\ y.nalloced = x.nalloced + 1
  /\ y.blkpkt = x.blkpkt /\ y.sent = x.sent
  /\ y.insend = x.insend /\ y.blocked = x.blocked /\ y.svr = x.svr /\ y.wait = x.wait
  /\ SameBut(x, y, d)

(* Receive adds one packet or nothing. *)
LEMMA ReceiveShape ==
  ASSUME NEW x \in Memory, NEW d \in End, NEW n \in 0 .. Cap
  PROVE  Received(x, d, n, Receive(x, d, n))
<1> DEFINE new == After(d, x.got[d], n)
           u == IF n = 0 THEN x.outq[d] ELSE Append(x.outq[d], new)
           na == IF n = 0 THEN x.nalloced ELSE x.nalloced + 1
           ng == [x.got EXCEPT ![d] = x.got[d] + n]
           nq == [x.outq EXCEPT ![d] = u]
           y == [x EXCEPT !.got = ng, !.outq = nq, !.nalloced = na]
<1>1. To(d) \in End /\ To(d) # d /\ Cap \in Nat /\ n \in Nat
  BY ToIs, WorkAssumption
<1>2. x.got \in [End -> Nat] /\ x.outq \in [End -> Seq(Pkt)] /\ x.nalloced \in Int
  BY DEF Memory
<1>3. x.got[d] \in Nat /\ x.outq[d] \in Seq(Pkt)
  BY <1>2
<1>4. new \in Seq(Byte) /\ Len(new) = n
  BY <1>1, <1>3, AfterIs
<1>5. n # 0 => new \in Pkt
  BY <1>1, <1>4 DEF Pkt
<1>6. Receive(x, d, n) = y
  BY BytesIs, Zenon DEF Receive
<1> HIDE DEF new
<1>7. u \in Seq(Pkt)
  BY <1>3, <1>5
<1>8. na \in Int
  BY <1>2
<1>9. ng \in [End -> Nat] /\ ng[d] = x.got[d] + n /\ ng[To(d)] = x.got[To(d)]
  BY <1>1, <1>2, <1>3
<1>10. (n = 0 => u = x.outq[d] /\ na = x.nalloced) /\ (n # 0 => u = Append(x.outq[d], new) /\ na = x.nalloced + 1)
  OBVIOUS
<1> HIDE DEF u, na, ng
<1>11. nq \in [End -> Seq(Pkt)] /\ nq[d] = u /\ nq[To(d)] = x.outq[To(d)]
  BY <1>1, <1>2, <1>7
<1> HIDE DEF nq
<1>12. /\ y \in Memory /\ y.got = ng /\ y.outq = nq /\ y.nalloced = na
       /\ y.blkpkt = x.blkpkt /\ y.sent = x.sent /\ y.live = x.live /\ y.pipe = x.pipe
       /\ y.insend = x.insend /\ y.blocked = x.blocked /\ y.svr = x.svr /\ y.wait = x.wait
  BY <1>8, <1>9, <1>11 DEF Memory
<1> HIDE DEF y
<1>13. SameBut(x, y, d)
  BY <1>11, <1>12 DEF SameBut
<1>14. Received(x, d, n, y)
  BY <1>9, <1>10, <1>11, <1>12, <1>13 DEF Received, new
<1>. QED BY <1>6, <1>14

(* What has been received is queued behind all that is kept. *)
LEMMA ReceivedPending ==
  ASSUME NEW x \in Memory, NEW d \in End, NEW n \in 1 .. Cap, NEW y, Received(x, d, n, y)
  PROVE  LET new == After(d, x.got[d], n)
         IN  /\ Pending(y, d) = Append(Pending(x, d), new)
             /\ Line(y, d) = Line(x, d) \o new
<1> DEFINE new == After(d, x.got[d], n)
           q == x.outq[d]
           b == x.blkpkt[d]
<1>1. n \in Nat /\ n # 0 /\ x.got[d] \in Nat /\ q \in Seq(Pkt)
  BY WorkAssumption DEF Memory
<1>2. new \in Seq(Byte)
  BY <1>1, AfterIs
<1>3. y \in Memory /\ y.outq[d] = Append(q, new) /\ y.blkpkt[d] = b /\ y.sent[To(d)] = x.sent[To(d)]
  BY <1>1 DEF Received
<1> HIDE DEF new
<1>4. Pending(y, d) = Append(Pending(x, d), new)
  <2>1. CASE b = <<>>
    BY <1>3, <2>1, PendingIs
  <2>2. CASE b # <<>>
    <3>1. Pending(y, d) = <<b>> \o Append(q, new) /\ Pending(x, d) = <<b>> \o q
      BY <1>3, <2>2, PendingIs
    <3>2. q \in Seq(Seq(Byte)) /\ b \in Seq(Byte)
      <4>1. Pkt \subseteq Seq(Byte)
        BY DEF Pkt
      <4>2. b \in Pkt
        BY <2>2, PendingIs
      <4>. QED BY <1>1, <4>1, <4>2
    <3> HIDE DEF q, b
    <3>3. <<b>> \in Seq(Seq(Byte))
      BY <3>2
    <3>4. Append(q, new) = q \o <<new>> /\ Append(<<b>> \o q, new) = (<<b>> \o q) \o <<new>>
      BY <1>2, <3>2, <3>3, AppendIsConcat
    <3>5. (<<b>> \o q) \o <<new>> = <<b>> \o (q \o <<new>>)
      BY <1>2, <3>2, <3>3, ConcatAssociative
    <3>. QED BY <3>1, <3>4, <3>5
  <2>. QED BY <2>1, <2>2
<1>5. Pending(x, d) \in Seq(Seq(Byte)) /\ FlattenSeq(Pending(x, d)) \in Seq(Byte) /\ x.sent[To(d)] \in Seq(Byte)
  BY LineIs
<1>6. FlattenSeq(Append(Pending(x, d), new)) = FlattenSeq(Pending(x, d)) \o new
  BY <1>2, <1>5, FlattenAppend
<1>7. Line(y, d) = x.sent[To(d)] \o (FlattenSeq(Pending(x, d)) \o new)
  BY <1>3, <1>4, <1>6, Zenon DEF Line
<1>8. x.sent[To(d)] \o (FlattenSeq(Pending(x, d)) \o new) = (x.sent[To(d)] \o FlattenSeq(Pending(x, d))) \o new
  BY <1>2, <1>5, Assoc
<1>9. Line(y, d) = Line(x, d) \o new
  BY <1>7, <1>8, Zenon DEF Line
<1>. QED BY <1>4, <1>9 DEF new

\* How much may be received.
May(x, d) == 0 .. Least(Cap, N[d] - x.got[d])

(* What may be received fits into a packet and into the bound. *)
LEMMA MayIs ==
  ASSUME NEW x, Fit(x), NEW d \in End, NEW n \in May(x, d)
  PROVE  n \in 0 .. Cap /\ n \in Nat /\ x.got[d] \in Nat /\ N[d] \in Nat /\ x.got[d] + n <= N[d]
<1>1. N[d] \in Nat /\ Cap \in Nat /\ x.got[d] \in Nat /\ x.got[d] <= N[d]
  BY WorkAssumption DEF Fit, Memory
<1>. QED BY <1>1 DEF May, Least

(* A session that has received is fit to send. *)
LEMMA ReceiveFit ==
  ASSUME NEW x, Fit(x), NEW d \in End, NEW n \in May(x, d), Waits(x, To(d)),
         \A c \in End : Carries("copy", x, c)
  PROVE  LET y == Receive(x, d, n)
         IN  /\ Fit(y) /\ Waits(y, To(d)) /\ \A c \in End : Carries("copy", y, c)
             /\ y.insend = x.insend /\ y.svr = x.svr /\ y.wait = x.wait
<1> DEFINE y == Receive(x, d, n)
           e == To(d)
           new == After(d, x.got[d], n)
<1>1. x \in Memory /\ n \in 0 .. Cap /\ n \in Nat /\ x.got[d] \in Nat /\ N[d] \in Nat /\ x.got[d] + n <= N[d]
  BY MayIs DEF Fit
<1>2. Received(x, d, n, y)
  BY <1>1, ReceiveShape
<1>3. e \in End /\ e # d /\ To(e) = d /\ \A c \in End : c = d \/ c = e
  BY ToIs DEF End
<1> HIDE DEF y
<1>4. /\ y \in Memory /\ y.got[d] = x.got[d] + n /\ y.got[e] = x.got[e]
      /\ y.insend = x.insend /\ y.blocked = x.blocked /\ y.svr = x.svr /\ y.wait = x.wait
      /\ SameBut(x, y, d) /\ y.blkpkt = x.blkpkt /\ y.sent = x.sent
  BY <1>2 DEF Received
<1>5. Pending(y, e) = Pending(x, e) /\ Line(y, e) = Line(x, e)
  BY <1>4, OtherSame
<1>6. Excess(y) = Excess(x) /\ y.nalloced >= Kept(y)
  <2>1. Kept(x) = Len(Pending(x, d)) + Len(Pending(x, e)) /\ Len(Pending(x, e)) \in Nat
        /\ Len(Pending(x, d)) \in Nat /\ x.nalloced \in Int /\ x.nalloced >= Kept(x)
    BY <1>1, KeptIs DEF Fit
  <2>2. Kept(y) = Len(Pending(y, d)) + Len(Pending(x, e))
    BY <1>4, <1>5, KeptIs
  <2>3. CASE n = 0
    <3>1. y.outq[d] = x.outq[d] /\ y.nalloced = x.nalloced
      BY <1>2, <2>3 DEF Received
    <3>2. Pending(y, d) = Pending(x, d)
      BY <1>4, <3>1, Zenon DEF Pending
    <3>. QED BY <2>1, <2>2, <3>1, <3>2 DEF Excess
  <2>4. CASE n # 0
    <3>1. n \in 1 .. Cap
      BY <1>1, <2>4
    <3>2. Pending(y, d) = Append(Pending(x, d), new)
      BY <1>1, <1>2, <3>1, ReceivedPending
    <3>3. Pending(x, d) \in Seq(Seq(Byte)) /\ new \in Seq(Byte)
      BY <1>1, LineIs, AfterIs
    <3>4. Len(Append(Pending(x, d), new)) = Len(Pending(x, d)) + 1
      BY <3>3
    <3>5. y.nalloced = x.nalloced + 1
      BY <1>2, <2>4 DEF Received
    <3>6. Kept(y) = Kept(x) + 1
      BY <2>1, <2>2, <3>2, <3>4
    <3>. QED BY <2>1, <3>5, <3>6 DEF Excess
  <2>. QED BY <2>3, <2>4
<1>7. Carries("copy", y, e)
  BY <1>3, <1>4, <1>5, <1>6 DEF Carries
<1>8. Carries("copy", y, d)
  <2>1. CASE n = 0
    <3>1. y.outq[d] = x.outq[d]
      BY <1>2, <2>1 DEF Received
    <3>2. Pending(y, d) = Pending(x, d)
      BY <1>4, <3>1, Zenon DEF Pending
    <3>3. Line(y, d) = Line(x, d) /\ y.got[d] = x.got[d]
      BY <1>1, <1>4, <2>1, <3>2 DEF Line
    <3>. QED BY <1>6, <3>3 DEF Carries
  <2>2. CASE n # 0
    <3>1. n \in 1 .. Cap
      BY <1>1, <2>2
    <3>2. Line(y, d) = Line(x, d) \o new /\ Line(x, d) \in Seq(Byte)
      BY <1>1, <1>2, <3>1, ReceivedPending, LineIs
    <3>3. Up(Line(x, d), d, x.got[d]) /\ (Excess(x) = 0 => Line(x, d) = Full(d, x.got[d]))
      BY DEF Carries
    <3>4. Up(Line(x, d) \o new, d, x.got[d] + n)
      BY <1>1, <3>2, <3>3, UpMore
    <3>5. Excess(y) = 0 => Line(y, d) = Full(d, x.got[d] + n)
      BY <1>1, <1>6, <3>2, <3>3, FullMore
    <3>. QED BY <1>4, <3>2, <3>4, <3>5 DEF Carries
  <2>. QED BY <2>1, <2>2
<1>9. Fit(y)
  <2>1. \A c \in End : y.got[c] <= N[c]
    BY <1>1, <1>3, <1>4 DEF Fit
  <2>. QED BY <1>4, <1>6, <2>1 DEF Fit
<1>10. Waits(y, e)
  BY <1>4, <1>5 DEF Waits
<1>. QED BY <1>3, <1>4, <1>7, <1>8, <1>9, <1>10 DEF y

----------------------------------------------------------------------------
(* The server of a session.                                                           *)

\* Nothing changes but the server and who is waited for.
SameData(x, y) ==
  /\ y.live = x.live /\ y.outq = x.outq /\ y.blkpkt = x.blkpkt /\ y.nalloced = x.nalloced
  /\ y.pipe = x.pipe /\ y.got = x.got /\ y.sent = x.sent

(* The bytes of a session do not depend on its server. *)
LEMMA SameDataIs ==
  ASSUME NEW x, NEW y, SameData(x, y)
  PROVE  /\ Kept(y) = Kept(x) /\ Excess(y) = Excess(x)
         /\ \A d : Pending(y, d) = Pending(x, d)
         /\ \A d : Line(y, d) = Line(x, d)
         /\ \A d, m : Carries(m, x, d) => Carries(m, y, d)
         /\ \A d : SameBut(x, y, d)
<1>1. y.live = x.live /\ y.outq = x.outq /\ y.blkpkt = x.blkpkt /\ y.nalloced = x.nalloced
      /\ y.pipe = x.pipe /\ y.got = x.got /\ y.sent = x.sent
  BY DEF SameData
<1>2. \A d : Pending(y, d) = Pending(x, d)
  BY <1>1, Zenon DEF Pending
<1>3. Kept(y) = Kept(x)
  <2>1. Pending(y, "cli") = Pending(x, "cli") /\ Pending(y, "svr") = Pending(x, "svr")
    BY <1>2
  <2>. QED BY <2>1 DEF Kept
<1>4. Excess(y) = Excess(x)
  BY <1>1, <1>3, Zenon DEF Excess
<1>5. \A d : Line(y, d) = Line(x, d)
  BY <1>1, <1>2, Zenon DEF Line
<1>6. ASSUME NEW d, NEW m, Carries(m, x, d) PROVE Carries(m, y, d)
  BY <1>1, <1>2, <1>4, <1>5, <1>6 DEF Carries
<1>7. \A d : SameBut(x, y, d)
  BY <1>1, Zenon DEF SameBut
<1>. QED BY <1>2, <1>3, <1>4, <1>5, <1>6, <1>7

\* What asking for a server may give.
Served(x, u) ==
  /\ u.ok \in BOOLEAN /\ u.n \in Nat
  /\ u.ok => /\ Fit(u.x) /\ u.x.svr = TRUE /\ Counts(x, u) /\ SameData(x, u.x)
             /\ x.insend \subseteq u.x.insend /\ ("cli" \in u.x.insend <=> "cli" \in x.insend)
             /\ u.x.wait => "svr" \in u.x.insend

(* _work_get_server counts a server that is waited for, and takes no data away. *)
LEMMA GetServer ==
  ASSUME NEW x, Fit(x), NEW u \in _work_get_server(x)
  PROVE  Served(x, u)
<1>1. /\ x \in Memory /\ x.insend = x.blocked \cup (IF x.wait THEN {"svr"} ELSE {})
      /\ x.wait => x.svr /\ "svr" \notin x.blocked
      /\ "svr" \in x.blocked => x.svr
      /\ \A e \in End : x.got[e] <= N[e]
      /\ x.nalloced >= Kept(x)
  BY DEF Fit
<1>2. x.insend \in SUBSET End /\ "svr" \in End /\ x.svr \in BOOLEAN /\ x.wait \in BOOLEAN
  BY <1>1 DEF Memory, End
<1>3. Cnt(x.insend) \in Nat
  BY <1>2, CntIs
<1>4. CASE x.svr
  <2>1. u.x = x /\ u.n = 0 /\ u.ok = TRUE
    BY <1>4 DEF _work_get_server, Result
  <2>2. Counts(x, u)
    BY <1>3, <2>1 DEF Counts
  <2>3. SameData(x, u.x)
    BY <2>1, Zenon DEF SameData
  <2>4. x.wait => "svr" \in x.insend
    BY <1>1
  <2>5. x.svr = TRUE
    BY <1>2, <1>4
  <2>6. Fit(u.x) /\ u.x.svr = TRUE /\ x.insend \subseteq u.x.insend
        /\ ("cli" \in u.x.insend <=> "cli" \in x.insend) /\ (u.x.wait => "svr" \in u.x.insend)
    BY <2>1, <2>4, <2>5
  <2>7. u.n \in Nat /\ u.ok \in BOOLEAN
    <3>1. u.n = 0 /\ u.ok \in BOOLEAN
      BY <2>1, Zenon
    <3>. QED BY <3>1
  <2>. QED BY <2>2, <2>3, <2>6, <2>7, Zenon DEF Served
<1>5. CASE ~x.svr
  <2> DEFINE y == [x EXCEPT !.svr = TRUE, !.wait = TRUE, !.insend = @ \cup {"svr"}]
             z == [x EXCEPT !.svr = TRUE]
  <2>1. u = Result(y, 1, TRUE) \/ u = Result(z, 0, TRUE) \/ u = Result(x, 0, FALSE)
    BY <1>5, Zenon DEF _work_get_server, WaitServer
  <2>2. CASE u = Result(x, 0, FALSE)
    <3>1. u.n = 0 /\ u.ok = FALSE
      BY <2>2 DEF Result
    <3>2. u.n \in Nat /\ u.ok \in BOOLEAN /\ ~u.ok
      <4>1. u.n = 0 /\ u.ok \in BOOLEAN /\ ~u.ok
        BY <3>1, Zenon
      <4>. QED BY <4>1
    <3>. QED BY <3>2, Zenon DEF Served
  <2>3. CASE u = Result(y, 1, TRUE)
    <3>1. u.x = y /\ u.n = 1 /\ u.ok = TRUE
      BY <2>3 DEF Result
    <3>2. /\ y \in Memory /\ y.svr = TRUE /\ y.wait = TRUE /\ y.insend = x.insend \cup {"svr"}
          /\ y.blocked = x.blocked /\ SameData(x, y)
      BY <1>1, <1>2 DEF Memory, SameData
    <3> HIDE DEF y
    <3>3. "svr" \notin x.insend /\ ~x.wait
      BY <1>1, <1>5
    <3>4. Cnt(y.insend) = Cnt(x.insend) + 1
      BY <1>2, <3>2, <3>3, CntStep
    <3>5. Counts(x, u)
      BY <1>3, <3>1, <3>4 DEF Counts
    <3>6. y.nalloced >= Kept(y) /\ y.got = x.got
      BY <1>1, <3>2, SameDataIs DEF SameData
    <3>7. Fit(y)
      <4>1. y.insend = y.blocked \cup (IF y.wait THEN {"svr"} ELSE {})
        BY <1>1, <3>2, <3>3
      <4>2. "svr" \notin y.blocked
        BY <1>1, <1>5, <3>2
      <4>. QED BY <1>1, <3>2, <3>6, <4>1, <4>2 DEF Fit
    <3>8. u.n \in Nat /\ u.ok \in BOOLEAN
      <4>1. u.n = 1 /\ u.ok \in BOOLEAN
        BY <3>1, Zenon
      <4>. QED BY <4>1
    <3>9. /\ Fit(u.x) /\ u.x.svr = TRUE /\ Counts(x, u) /\ SameData(x, u.x)
          /\ x.insend \subseteq u.x.insend /\ ("cli" \in u.x.insend <=> "cli" \in x.insend)
          /\ u.x.wait => "svr" \in u.x.insend
      BY <3>1, <3>2, <3>5, <3>7
    <3>. QED BY <3>8, <3>9, Zenon DEF Served
  <2>4. CASE u = Result(z, 0, TRUE)
    <3>1. u.x = z /\ u.n = 0 /\ u.ok = TRUE
      BY <2>4 DEF Result
    <3>2. /\ z \in Memory /\ z.svr = TRUE /\ z.wait = x.wait /\ z.insend = x.insend
          /\ z.blocked = x.blocked /\ SameData(x, z)
      BY <1>1, <1>2 DEF Memory, SameData
    <3> HIDE DEF z
    <3>3. ~x.wait
      BY <1>1, <1>5
    <3>5. Counts(x, u)
      BY <1>3, <3>1, <3>2 DEF Counts
    <3>6. z.nalloced >= Kept(z) /\ z.got = x.got
      BY <1>1, <3>2, SameDataIs DEF SameData
    <3>7. Fit(z)
      BY <1>1, <3>2, <3>3, <3>6 DEF Fit
    <3>8. u.n \in Nat /\ u.ok \in BOOLEAN
      <4>1. u.n = 0 /\ u.ok \in BOOLEAN
        BY <3>1, Zenon
      <4>. QED BY <4>1
    <3>9. /\ Fit(u.x) /\ u.x.svr = TRUE /\ Counts(x, u) /\ SameData(x, u.x)
          /\ x.insend \subseteq u.x.insend /\ ("cli" \in u.x.insend <=> "cli" \in x.insend)
          /\ u.x.wait => "svr" \in u.x.insend
      BY <3>1, <3>2, <3>3, <3>5, <3>7
    <3>. QED BY <3>8, <3>9, Zenon DEF Served
  <2>. QED BY <2>1, <2>2, <2>3, <2>4
<1>. QED BY <1>4, <1>5

----------------------------------------------------------------------------
(* The handlers.                                                                      *)

(* A result that changes nothing. *)
LEMMA DoneSame ==
  ASSUME NEW m, NEW x, Fit(x), NEW r, r.x = x, r.n = 0, r.ok \in BOOLEAN, r.ok => Good(m, x)
  PROVE  Done(m, x, r)
<1>1. Cnt(x.insend) \in Nat
  BY CntIs DEF Fit, Memory
<1>2. r.n \in Int /\ r.n + Cnt(x.insend) >= 0 /\ Counts(x, r)
  BY <1>1 DEF Counts
<1>. QED BY <1>2, Zenon DEF Done

(* A failure ends the session: all it must not do is count down too far. *)
LEMMA DoneFails ==
  ASSUME NEW m, NEW x, NEW r, NEW q, Done(m, x, r), q = Result(r.x, r.n, FALSE)
  PROVE  Done(m, x, q)
<1>1. q.n = r.n /\ q.ok = FALSE
  BY DEF Result
<1>2. q.ok \in BOOLEAN /\ ~q.ok
  BY <1>1, Zenon
<1>. QED BY <1>1, <1>2, Zenon DEF Done

(* What sending makes of a session that can send. *)
LEMMA DoneSends ==
  ASSUME NEW x, NEW d \in End, NEW r, Fit(x), Waits(x, To(d)), \A c \in End : Carries("copy", x, c),
         Sends(x, r, d)
  PROVE  Done("copy", x, r)
<1>1. To(d) \in End
  BY ToIs
<1>2. r.ok => Good("copy", r.x)
  BY <1>1, GoodSend DEF Sends
<1>. QED BY <1>2, Zenon DEF Done, Sends

(* _work_sendto_client. *)
LEMMA SendClient ==
  ASSUME NEW x, Fit(x), Waits(x, "cli"), \A c \in End : Carries("copy", x, c),
         NEW r \in _work_sendto_client(x)
  PROVE  Done("copy", x, r)
<1>1. "svr" \in End /\ To("svr") = "cli" /\ \A c \in End : c = "cli" \/ c = "svr"
  BY ToIs DEF End
<1>2. CASE Pending(x, "svr") = <<>>
  <2>1. r = Result(x, 0, TRUE)
    BY <1>2, Zenon DEF _work_sendto_client
  <2>2. r.x = x /\ r.n = 0 /\ r.ok = TRUE
    BY <2>1 DEF Result
  <2>3. r.ok \in BOOLEAN
    BY <2>2, Zenon
  <2>4. Waits(x, "svr")
    BY <1>2 DEF Waits
  <2>5. Good("copy", x)
    BY <1>1, <2>4 DEF Good
  <2>. QED BY <2>2, <2>3, <2>5, DoneSame
<1>3. CASE Pending(x, "svr") # <<>>
  <2>1. r \in Sending(x, "svr")
    BY <1>3, Zenon DEF _work_sendto_client
  <2>2. MaySend(x, "svr")
    BY DEF MaySend
  <2>3. Sends(x, r, "svr")
    BY <1>1, <2>1, <2>2, SendingFit
  <2>. QED BY <1>1, <2>3, DoneSends
<1>. QED BY <1>2, <1>3

(* Going on after a result that was counted. *)
LEMMA DoneAfter ==
  ASSUME NEW m, NEW x, NEW u, NEW t, Fit(x), Fit(u.x), Counts(x, u), Done(m, u.x, t)
  PROVE  Done(m, x, Result(t.x, u.n + t.n, t.ok))
<1> DEFINE w == Result(t.x, u.n + t.n, t.ok)
<1>1. w.x = t.x /\ w.n = u.n + t.n /\ w.ok = t.ok
  BY DEF Result
<1>2. t.ok \in BOOLEAN /\ t.n \in Int /\ t.n + Cnt(u.x.insend) >= 0
      /\ u.n = Cnt(u.x.insend) - Cnt(x.insend)
  BY DEF Done, Counts
<1>3. Cnt(x.insend) \in Nat /\ Cnt(u.x.insend) \in Nat
  BY CntIs DEF Fit, Memory
<1>4. w.ok \in BOOLEAN
  BY <1>1, <1>2, Zenon
<1> HIDE DEF w
<1>5. w.n \in Int /\ w.n + Cnt(x.insend) >= 0
  BY <1>1, <1>2, <1>3
<1>6. ASSUME w.ok PROVE Good(m, w.x) /\ Counts(x, w)
  <2>1. Good(m, t.x) /\ t.n = Cnt(t.x.insend) - Cnt(u.x.insend)
    BY <1>1, <1>6, Zenon DEF Done, Counts
  <2>2. t.x.insend \in SUBSET End
    BY <2>1 DEF Good, Fit, Memory
  <2>3. Cnt(t.x.insend) \in Nat
    BY <2>2, CntIs
  <2>4. w.n = Cnt(t.x.insend) - Cnt(x.insend)
    BY <1>1, <1>2, <1>3, <2>1, <2>3
  <2>5. Counts(x, w)
    BY <1>1, <2>4, Zenon DEF Counts
  <2>. QED BY <1>1, <2>1, <2>5, Zenon
<1>. QED BY <1>4, <1>5, <1>6, Zenon DEF Done, w

(* _work_sendto_server, the connecting included. *)
LEMMA SendServer ==
  ASSUME NEW x, Fit(x), Waits(x, "svr"), \A c \in End : Carries("copy", x, c),
         NEW r \in _work_sendto_server(x)
  PROVE  Done("copy", x, r)
<1> DEFINE G(y) == IF y.wait THEN {Result(y, 0, TRUE)} ELSE Sending(y, "cli")
<1>1. "cli" \in End /\ To("cli") = "svr" /\ \A c \in End : c = "cli" \/ c = "svr"
  BY ToIs DEF End
<1>2. CASE Pending(x, "cli") = <<>>
  <2>1. r = Result(x, 0, TRUE)
    BY <1>2, Zenon DEF _work_sendto_server
  <2>2. r.x = x /\ r.n = 0 /\ r.ok = TRUE
    BY <2>1 DEF Result
  <2>3. r.ok \in BOOLEAN
    BY <2>2, Zenon
  <2>4. Waits(x, "cli")
    BY <1>2 DEF Waits
  <2>5. Good("copy", x)
    BY <1>1, <2>4 DEF Good
  <2>. QED BY <2>2, <2>3, <2>5, DoneSame
<1>3. CASE Pending(x, "cli") # <<>>
  <2>1. \E v \in _work_get_server(x) : r \in Then(v, G)
    BY <1>3, Zenon DEF _work_sendto_server
  <2>2. PICK v \in _work_get_server(x) : r \in Then(v, G)
    BY <2>1
  <2>3. Served(x, v)
    BY GetServer
  <2>4. CASE ~v.ok
    <3>1. r = v
      BY <2>2, <2>4, Zenon DEF Then
    <3>2. v.n \in Nat /\ v.ok \in BOOLEAN
      BY <2>3 DEF Served
    <3>3. Cnt(x.insend) \in Nat
      BY CntIs DEF Fit, Memory
    <3>4. v.n \in Int /\ v.n + Cnt(x.insend) >= 0
      BY <3>2, <3>3
    <3>. QED BY <2>4, <3>1, <3>2, <3>4, Zenon DEF Done
  <2>5. CASE v.ok
    <3>1. \E t \in G(v.x) : r = Result(t.x, v.n + t.n, t.ok)
      BY <2>2, <2>5, Zenon DEF Then
    <3>2. PICK t \in G(v.x) : r = Result(t.x, v.n + t.n, t.ok)
      BY <3>1
    <3> DEFINE y == v.x
    <3>3. /\ Fit(y) /\ y.svr = TRUE /\ Counts(x, v) /\ SameData(x, y)
          /\ x.insend \subseteq y.insend /\ (y.wait => "svr" \in y.insend)
      BY <2>3, <2>5, Zenon DEF Served
    <3>4. t \in IF y.wait THEN {Result(y, 0, TRUE)} ELSE Sending(y, "cli")
      BY <3>2
    <3> HIDE DEF y, G
    <3>5. /\ \A c \in End : Carries("copy", y, c)
          /\ \A c : Pending(y, c) = Pending(x, c)
      BY <3>3, SameDataIs
    <3>6. Waits(y, "svr")
      BY <3>3, <3>5 DEF Waits
    <3>7. Done("copy", y, t)
      <4>1. CASE y.wait
        <5>1. t = Result(y, 0, TRUE)
          BY <3>4, <4>1, Zenon
        <5>2. t.x = y /\ t.n = 0 /\ t.ok = TRUE
          BY <5>1 DEF Result
        <5>3. t.ok \in BOOLEAN
          BY <5>2, Zenon
        <5>4. Waits(y, "cli")
          BY <1>1, <3>3, <4>1 DEF Waits
        <5>5. Good("copy", y)
          BY <1>1, <3>3, <3>5, <3>6, <5>4 DEF Good
        <5>. QED BY <3>3, <5>2, <5>3, <5>5, DoneSame
      <4>2. CASE ~y.wait
        <5>1. t \in Sending(y, "cli")
          BY <3>4, <4>2, Zenon
        <5>2. MaySend(y, "cli")
          BY <3>3, <4>2 DEF MaySend
        <5>3. Sends(y, t, "cli")
          BY <1>1, <3>3, <5>1, <5>2, SendingFit
        <5>. QED BY <1>1, <3>3, <3>5, <3>6, <5>3, DoneSends
      <4>. QED BY <4>1, <4>2
    <3>. QED BY <3>2, <3>3, <3>7, DoneAfter DEF y
  <2>. QED BY <2>4, <2>5
<1>. QED BY <1>2, <1>3

(* Only the send epoll counts. *)
LEMMA DoneMoved ==
  ASSUME NEW m, NEW x, NEW y, NEW t, y.insend = x.insend, Done(m, y, t)
  PROVE  Done(m, x, t)
  BY Zenon DEF Done, Counts

(* Data of the client is received and sent on, or the session ends. *)
LEMMA RelayClient ==
  ASSUME NEW x, Good("copy", x), NEW r \in Relay(x, "cli", _work_sendto_server)
  PROVE  Done("copy", x, r)
<1>1. "cli" \in End /\ To("cli") = "svr" /\ "svr" \in End
  BY ToIs DEF End
<1>2. Fit(x) /\ Waits(x, "svr") /\ \A c \in End : Carries("copy", x, c)
  BY <1>1 DEF Good
<1>3. \/ r = Result(x, 0, FALSE)
      \/ \E n \in May(x, "cli") : \/ r \in _work_sendto_server(Receive(x, "cli", n))
                                  \/ \E t \in _work_sendto_server(Receive(x, "cli", n)) : r = Result(t.x, t.n, FALSE)
  BY Zenon DEF Relay, May
<1>4. CASE r = Result(x, 0, FALSE)
  <2>1. r.x = x /\ r.n = 0 /\ r.ok = FALSE
    BY <1>4 DEF Result
  <2>2. r.ok \in BOOLEAN
    BY <2>1, Zenon
  <2>. QED BY <1>2, <2>1, <2>2, DoneSame
<1>5. ASSUME NEW n \in May(x, "cli"), NEW t \in _work_sendto_server(Receive(x, "cli", n))
      PROVE  Done("copy", x, t)
  <2> DEFINE y == Receive(x, "cli", n)
  <2>1. /\ Fit(y) /\ Waits(y, "svr") /\ \A c \in End : Carries("copy", y, c)
        /\ y.insend = x.insend
    BY <1>1, <1>2, ReceiveFit
  <2> HIDE DEF y
  <2>2. t \in _work_sendto_server(y)
    BY DEF y
  <2>3. Done("copy", y, t)
    BY <2>1, <2>2, SendServer
  <2>. QED BY <2>1, <2>3, DoneMoved
<1>. QED BY <1>3, <1>4, <1>5, DoneFails

(* Data of the server is received and sent on, or the session ends. *)
LEMMA RelayServer ==
  ASSUME NEW x, Good("copy", x), NEW r \in Relay(x, "svr", _work_sendto_client)
  PROVE  Done("copy", x, r)
<1>1. "cli" \in End /\ To("svr") = "cli" /\ "svr" \in End
  BY ToIs DEF End
<1>2. Fit(x) /\ Waits(x, "cli") /\ \A c \in End : Carries("copy", x, c)
  BY <1>1 DEF Good
<1>3. \/ r = Result(x, 0, FALSE)
      \/ \E n \in May(x, "svr") : \/ r \in _work_sendto_client(Receive(x, "svr", n))
                                  \/ \E t \in _work_sendto_client(Receive(x, "svr", n)) : r = Result(t.x, t.n, FALSE)
  BY Zenon DEF Relay, May
<1>4. CASE r = Result(x, 0, FALSE)
  <2>1. r.x = x /\ r.n = 0 /\ r.ok = FALSE
    BY <1>4 DEF Result
  <2>2. r.ok \in BOOLEAN
    BY <2>1, Zenon
  <2>. QED BY <1>2, <2>1, <2>2, DoneSame
<1>5. ASSUME NEW n \in May(x, "svr"), NEW t \in _work_sendto_client(Receive(x, "svr", n))
      PROVE  Done("copy", x, t)
  <2> DEFINE y == Receive(x, "svr", n)
  <2>1. /\ Fit(y) /\ Waits(y, "cli") /\ \A c \in End : Carries("copy", y, c)
        /\ y.insend = x.insend
    BY <1>1, <1>2, ReceiveFit
  <2> HIDE DEF y
  <2>2. t \in _work_sendto_client(y)
    BY DEF y
  <2>3. Done("copy", y, t)
    BY <2>1, <2>2, SendClient
  <2>. QED BY <2>1, <2>3, DoneMoved
<1>. QED BY <1>3, <1>4, <1>5, DoneFails

----------------------------------------------------------------------------
(* Splicing.                                                                          *)

\* What the kernel moves changes the counts, the pipe and what was sent.
Spliced(x, y, d) ==
  /\ y \in Memory
  /\ y.outq = x.outq /\ y.blkpkt = x.blkpkt /\ y.nalloced = x.nalloced
  /\ y.insend = x.insend /\ y.blocked = x.blocked /\ y.svr = x.svr /\ y.wait = x.wait
  /\ y.got[To(d)] = x.got[To(d)] /\ y.sent[d] = x.sent[d]

(* A sequence is its first bytes and the others. *)
LEMMA SplitSeq ==
  ASSUME NEW w \in Seq(Byte), NEW k \in 0 .. Len(w)
  PROVE  SubSeq(w, 1, k) \o SubSeq(w, k + 1, Len(w)) = w
<1> DEFINE a == SubSeq(w, 1, k)
           b == SubSeq(w, k + 1, Len(w))
<1>1. Len(w) \in Nat /\ k \in Nat /\ k <= Len(w)
  OBVIOUS
<1>2. a \in Seq(Byte) /\ Len(a) = k /\ \A i \in 1 .. k : a[i] = w[i]
  BY <1>1
<1>3. b \in Seq(Byte) /\ Len(b) = Len(w) - k /\ \A i \in 1 .. Len(w) - k : b[i] = w[k + i]
  BY <1>1
<1> HIDE DEF a, b
<1>5. /\ a \o b \in Seq(Byte) /\ Len(a \o b) = Len(w)
      /\ \A i \in 1 .. Len(w) : (a \o b)[i] = IF i <= k THEN a[i] ELSE b[i - k]
  BY <1>1, <1>2, <1>3, ConcatProperties
<1>6. ASSUME NEW i \in 1 .. Len(w) PROVE (a \o b)[i] = w[i]
  <2>1. CASE i <= k
    BY <1>1, <1>2, <1>5, <2>1
  <2>2. CASE ~(i <= k)
    <3>1. i - k \in 1 .. Len(w) - k /\ k + (i - k) = i
      BY <1>1, <2>2
    <3>. QED BY <1>3, <1>5, <2>2, <3>1
  <2>. QED BY <2>1, <2>2
<1>7. a \o b = w
  BY <1>1, <1>5, <1>6, SeqEqual
<1>. QED BY <1>7 DEF a, b

\* The session with g bytes from d, pipe p, and v sent to the other end.
MovedTo(x, d, g, p, v) ==
  [x EXCEPT !.got = [x.got EXCEPT ![d] = g], !.pipe = p, !.sent = [x.sent EXCEPT ![To(d)] = v]]

(* The fields of a session after bytes were moved. *)
LEMMA SpliceShape ==
  ASSUME NEW x \in Memory, NEW d \in End, NEW g \in Nat, NEW p \in Seq(Byte), NEW v \in Seq(Byte),
         NEW y, y = MovedTo(x, d, g, p, v)
  PROVE  Spliced(x, y, d) /\ y.got[d] = g /\ y.pipe = p /\ y.sent[To(d)] = v
<1> DEFINE ng == [x.got EXCEPT ![d] = g]
           ns == [x.sent EXCEPT ![To(d)] = v]
<1>1. To(d) \in End /\ To(d) # d
  BY ToIs
<1>2. x.got \in [End -> Nat] /\ x.sent \in [End -> Seq(Byte)]
  BY DEF Memory
<1>3. ng \in [End -> Nat] /\ ng[d] = g /\ ng[To(d)] = x.got[To(d)]
  BY <1>1, <1>2
<1>4. ns \in [End -> Seq(Byte)] /\ ns[To(d)] = v /\ ns[d] = x.sent[d]
  BY <1>1, <1>2
<1> HIDE DEF ng, ns
<1>5. y = [x EXCEPT !.got = ng, !.pipe = p, !.sent = ns]
  BY DEF ng, ns, MovedTo
<1>6. /\ y \in Memory /\ y.got = ng /\ y.pipe = p /\ y.sent = ns
      /\ y.outq = x.outq /\ y.blkpkt = x.blkpkt /\ y.nalloced = x.nalloced
      /\ y.insend = x.insend /\ y.blocked = x.blocked /\ y.svr = x.svr /\ y.wait = x.wait
  BY <1>3, <1>4, <1>5 DEF Memory
<1>. QED BY <1>3, <1>4, <1>6 DEF Spliced

(* The rest of the session is as it was. *)
LEMMA SplicedFit ==
  ASSUME NEW x, Fit(x), NEW y, NEW d \in End, Spliced(x, y, d), y.got[d] <= N[d],
         \A c \in End : Pending(x, c) = <<>>
  PROVE  Fit(y) /\ \A c \in End : Pending(y, c) = <<>> /\ Waits(y, c)
<1>1. \A c : Pending(y, c) = Pending(x, c)
  BY Zenon DEF Spliced, Pending
<1>2. Kept(y) = Kept(x)
  <2>1. Pending(y, "cli") = Pending(x, "cli") /\ Pending(y, "svr") = Pending(x, "svr")
    BY <1>1
  <2>. QED BY <2>1 DEF Kept
<1>3. \A c \in End : c = d \/ c = To(d)
  BY ToIs DEF End
<1>4. \A c \in End : y.got[c] <= N[c]
  BY <1>3 DEF Spliced, Fit
<1>5. Fit(y)
  BY <1>2, <1>4 DEF Spliced, Fit
<1>. QED BY <1>1, <1>5 DEF Waits

\* What one call moves: n bytes in, k bytes out.
SpliceOut(x, d, n, k) ==
  [x EXCEPT !.got[d] = @ + n,
            !.pipe = SubSeq(@ \o Bytes(x, d, n), k + 1, Len(@) + n),
            !.sent[To(d)] = @ \o SubSeq(x.pipe \o Bytes(x, d, n), 1, k)]

(* The pipe is shared by both directions, and still each keeps its order. *)
LEMMA SpliceGood ==
  ASSUME NEW x, Good("splice", x), NEW d \in End, NEW n \in May(x, d), NEW k \in 1 .. n
  PROVE  LET y == SpliceOut(x, d, n, k)
         IN  Good("splice", y) /\ y.insend = x.insend
<1> DEFINE y == SpliceOut(x, d, n, k)
           e == To(d)
           g == x.got[d]
           new == After(d, g, n)
           w == x.pipe \o new
           out == SubSeq(w, 1, k)
           in == SubSeq(w, k + 1, Len(x.pipe) + n)
<1>1. Fit(x) /\ x \in Memory /\ n \in Nat /\ g \in Nat /\ g + n <= N[d] /\ g + n \in Nat /\ N[d] \in Nat
  BY MayIs DEF Good, Fit
<1>2. e \in End /\ e # d /\ To(e) = d /\ \A c \in End : c = d \/ c = e
  BY ToIs DEF End
<1>3. /\ x.pipe \in Seq(Byte) /\ x.sent[e] \in Seq(Byte) /\ x.sent[d] \in Seq(Byte)
      /\ Len(x.pipe) \in Nat /\ x.got[e] \in Nat
  BY <1>1, <1>2 DEF Memory
<1>4. new \in Seq(Byte) /\ Len(new) = n
  BY <1>1, AfterIs
<1>5. \A c \in End : Pending(x, c) = <<>> /\ Up(x.sent[To(c)] \o x.pipe, c, x.got[c])
  BY DEF Good, Carries
<1>6. y = MovedTo(x, d, g + n, in, x.sent[e] \o out)
  BY BytesIs, Zenon DEF SpliceOut, MovedTo
<1> HIDE DEF y, e, g, new
<1>7. w \in Seq(Byte) /\ Len(w) = Len(x.pipe) + n
  BY <1>3, <1>4, ConcatProperties
<1> HIDE DEF w
<1>8. k \in 0 .. Len(w) /\ k \in Nat
  BY <1>1, <1>3, <1>7
<1>9. out \in Seq(Byte) /\ in \in Seq(Byte) /\ in = SubSeq(w, k + 1, Len(w))
  BY <1>7, <1>8
<1>10. out \o in = w
  BY <1>7, <1>8, <1>9, SplitSeq
<1> HIDE DEF out, in
<1>11. x.sent[e] \o out \in Seq(Byte)
  BY <1>3, <1>9
<1>12. Spliced(x, y, d) /\ y.got[d] = g + n /\ y.pipe = in /\ y.sent[e] = x.sent[e] \o out
  <2>1. g + n \in Nat /\ x \in Memory /\ in \in Seq(Byte)
    BY <1>1, <1>9
  <2> DEFINE h == g + n
             v == x.sent[e] \o out
  <2>2. h \in Nat /\ v \in Seq(Byte) /\ y = MovedTo(x, d, h, in, v)
    BY <1>6, <1>11, <2>1
  <2> HIDE DEF h, v
  <2>3. Spliced(x, y, d) /\ y.got[d] = h /\ y.pipe = in /\ y.sent[To(d)] = v
    BY <2>1, <2>2, SpliceShape
  <2>. QED BY <2>3 DEF h, v, e
<1>13. Fit(y) /\ \A c \in End : Pending(y, c) = <<>> /\ Waits(y, c)
  BY <1>1, <1>5, <1>12, SplicedFit
<1>14. Up(y.sent[e] \o y.pipe, d, y.got[d])
  <2>1. (x.sent[e] \o out) \o in = x.sent[e] \o (out \o in)
    BY <1>3, <1>9, Assoc
  <2>2. x.sent[e] \o (x.pipe \o new) = (x.sent[e] \o x.pipe) \o new
    BY <1>3, <1>4, Assoc
  <2>3. Up(x.sent[e] \o x.pipe, d, g) /\ x.sent[e] \o x.pipe \in Seq(Byte)
    BY <1>3, <1>5 DEF e, g
  <2>4. Up((x.sent[e] \o x.pipe) \o new, d, g + n)
    BY <1>1, <2>3, UpMore DEF new
  <2>. QED BY <1>10, <1>12, <2>1, <2>2, <2>4 DEF w
<1>15. Up(y.sent[d] \o y.pipe, e, y.got[e])
  <2>1. y.sent[d] = x.sent[d] /\ y.got[e] = x.got[e]
    BY <1>12 DEF Spliced, e
  <2>2. Up(x.sent[d] \o x.pipe, e, x.got[e]) /\ x.sent[d] \o x.pipe \in Seq(Byte)
    BY <1>2, <1>3, <1>5
  <2>3. Up((x.sent[d] \o x.pipe) \o new, e, x.got[e])
    BY <1>1, <1>2, <1>3, <2>2, UpOther DEF new
  <2>4. (x.sent[d] \o x.pipe) \o new = x.sent[d] \o (x.pipe \o new)
    BY <1>3, <1>4, Assoc
  <2>5. Up(x.sent[d] \o (out \o in), e, x.got[e])
    BY <1>10, <2>3, <2>4 DEF w
  <2>6. Up(x.sent[d] \o in, e, x.got[e])
    BY <1>3, <1>9, <2>5, UpMid
  <2>. QED BY <1>12, <2>1, <2>6
<1>16. ASSUME NEW c \in End PROVE Carries("splice", y, c)
  <2>1. Up(y.sent[To(c)] \o y.pipe, c, y.got[c])
    BY <1>2, <1>14, <1>15 DEF e
  <2>. QED BY <1>13, <2>1 DEF Carries
<1>17. Good("splice", y) /\ y.insend = x.insend
  BY <1>12, <1>13, <1>16 DEF Good, Spliced
<1>. QED BY <1>17 DEF y

\* What the device moves.
NbOut(x, d, n) ==
  [x EXCEPT !.got[d] = @ + n, !.sent[To(d)] = @ \o Bytes(x, d, n)]

(* The device keeps the order. *)
LEMMA NbGood ==
  ASSUME NEW x, Good("nb", x), NEW d \in End, NEW n \in May(x, d)
  PROVE  LET y == NbOut(x, d, n)
         IN  Good("nb", y) /\ y.insend = x.insend
<1> DEFINE y == NbOut(x, d, n)
           e == To(d)
           g == x.got[d]
           new == After(d, g, n)
           ng == [x.got EXCEPT ![d] = g + n]
           ns == [x.sent EXCEPT ![e] = x.sent[e] \o new]
<1>1. Fit(x) /\ x \in Memory /\ n \in Nat /\ g \in Nat /\ g + n <= N[d] /\ g + n \in Nat /\ N[d] \in Nat
  BY MayIs DEF Good, Fit
<1>2. e \in End /\ e # d /\ To(e) = d /\ \A c \in End : c = d \/ c = e
  BY ToIs DEF End
<1>3. x.sent[e] \in Seq(Byte) /\ x.pipe \in Seq(Byte) /\ x.sent \in [End -> Seq(Byte)] /\ x.got \in [End -> Nat]
  BY <1>1, <1>2 DEF Memory
<1>4. new \in Seq(Byte) /\ Len(new) = n
  BY <1>1, AfterIs
<1>5. \A c \in End : Pending(x, c) = <<>> /\ Up(x.sent[To(c)], c, x.got[c])
  BY DEF Good, Carries
<1>6. y = [x EXCEPT !.got = ng, !.sent = ns]
  BY BytesIs, Zenon DEF NbOut
<1> HIDE DEF y, g, new
<1>7. x.sent[e] \o new \in Seq(Byte)
  BY <1>3, <1>4
<1>8. ng \in [End -> Nat] /\ ng[d] = g + n /\ ng[e] = x.got[e]
  BY <1>1, <1>2, <1>3
<1>9. ns \in [End -> Seq(Byte)] /\ ns[e] = x.sent[e] \o new /\ ns[d] = x.sent[d]
  BY <1>2, <1>3, <1>7
<1> HIDE DEF ng, ns
<1>10. /\ y \in Memory /\ y.got = ng /\ y.sent = ns
       /\ y.outq = x.outq /\ y.blkpkt = x.blkpkt /\ y.nalloced = x.nalloced
       /\ y.insend = x.insend /\ y.blocked = x.blocked /\ y.svr = x.svr /\ y.wait = x.wait
  BY <1>1, <1>6, <1>8, <1>9 DEF Memory
<1>11. Spliced(x, y, d) /\ y.got[d] <= N[d]
  BY <1>1, <1>8, <1>9, <1>10 DEF Spliced
<1>12. Fit(y) /\ \A c \in End : Pending(y, c) = <<>> /\ Waits(y, c)
  BY <1>1, <1>5, <1>11, SplicedFit
<1>13. Up(y.sent[e], d, y.got[d])
  <2>1. Up(x.sent[e], d, g)
    BY <1>5 DEF g
  <2>2. Up(x.sent[e] \o new, d, g + n)
    BY <1>1, <1>3, <2>1, UpMore DEF new
  <2>. QED BY <1>8, <1>9, <1>10, <2>2
<1>14. Up(y.sent[d], e, y.got[e])
  BY <1>2, <1>5, <1>8, <1>9, <1>10
<1>15. ASSUME NEW c \in End PROVE Carries("nb", y, c)
  <2>1. Up(y.sent[To(c)], c, y.got[c])
    BY <1>2, <1>13, <1>14
  <2>. QED BY <1>12, <2>1 DEF Carries
<1>16. Good("nb", y) /\ y.insend = x.insend
  BY <1>10, <1>12, <1>15 DEF Good
<1>. QED BY <1>16 DEF y

(* A handler that moves bytes and counts nothing. *)
LEMMA DoneCounted ==
  ASSUME NEW m, NEW x, Fit(x), NEW y, Good(m, y), y.insend = x.insend, NEW r, r = Result(y, 0, TRUE)
  PROVE  Done(m, x, r)
<1>1. r.x = y /\ r.n = 0 /\ r.ok = TRUE
  BY DEF Result
<1>2. Cnt(x.insend) \in Nat
  BY CntIs DEF Fit, Memory
<1>3. r.n \in Int /\ r.n + Cnt(x.insend) >= 0 /\ Counts(x, r)
  <2>1. r.n = 0 /\ r.x.insend = x.insend
    BY <1>1
  <2>2. 0 = Cnt(x.insend) - Cnt(x.insend) /\ 0 + Cnt(x.insend) >= 0
    BY <1>2
  <2>3. Counts(x, r)
    BY <2>1, <2>2, Zenon DEF Counts
  <2>4. r.n + Cnt(x.insend) >= 0
    BY <2>1, <2>2, Zenon
  <2>5. r.n \in Int
    <3>1. 0 \in Int
      OBVIOUS
    <3>. QED BY <2>1, <3>1, Zenon
  <2>. QED BY <2>3, <2>4, <2>5
<1>4. r.ok \in BOOLEAN
  <2>1. r.ok = TRUE
    BY <1>1
  <2>2. TRUE \in BOOLEAN
    OBVIOUS
  <2>. QED BY <2>1, <2>2
<1>5. Good(m, r.x)
  BY <1>1
<1>. QED BY <1>3, <1>4, <1>5, Zenon DEF Done

(* A handler that fails without having changed anything. *)
LEMMA DoneNothing ==
  ASSUME NEW m, NEW x, Fit(x), NEW r, r = Result(x, 0, FALSE)
  PROVE  Done(m, x, r)
<1>1. r.x = x /\ r.n = 0 /\ r.ok = FALSE
  BY DEF Result
<1>2. r.ok \in BOOLEAN /\ ~r.ok
  BY <1>1, Zenon
<1>. QED BY <1>1, <1>2, DoneSame

(* _work_splice_cli2svr and _work_splice_svr2cli. *)
LEMMA SpliceDone ==
  ASSUME NEW x, Good("splice", x), NEW d \in End, NEW r \in Splice(x, d)
  PROVE  Done("splice", x, r)
<1>1. Fit(x)
  BY DEF Good
<1> DEFINE P == {p \in (1 .. Least(Cap, N[d] - x.got[d])) \X (1 .. Cap) : p[2] <= p[1]}
<1>2. r = Result(x, 0, FALSE) \/ \E nm \in P : r = Result(SpliceOut(x, d, nm[1], nm[2]), 0, TRUE)
  BY Zenon DEF Splice, SpliceOut
<1>3. ASSUME NEW nm \in P PROVE nm[1] \in May(x, d) /\ nm[2] \in 1 .. nm[1]
  <2>1. nm[1] \in 1 .. Least(Cap, N[d] - x.got[d]) /\ nm[2] \in 1 .. Cap /\ nm[2] <= nm[1]
    OBVIOUS
  <2>2. N[d] \in Nat /\ Cap \in Nat /\ x.got[d] \in Nat
    BY <1>1, WorkAssumption DEF Fit, Memory
  <2>. QED BY <2>1, <2>2 DEF May, Least
<1>4. ASSUME NEW nm \in P, r = Result(SpliceOut(x, d, nm[1], nm[2]), 0, TRUE)
      PROVE  Done("splice", x, r)
  <2> DEFINE y == SpliceOut(x, d, nm[1], nm[2])
  <2>1. Good("splice", y) /\ y.insend = x.insend
    BY <1>3, SpliceGood
  <2> HIDE DEF y
  <2>2. r = Result(y, 0, TRUE)
    BY <1>4 DEF y
  <2>. QED BY <1>1, <2>1, <2>2, DoneCounted
<1> HIDE DEF P
<1>. QED BY <1>1, <1>2, <1>4, DoneNothing

(* nb_splice. *)
LEMMA NbSpliceDone ==
  ASSUME NEW x, Good("nb", x), NEW d \in End, NEW r \in NbSplice(x, d)
  PROVE  Done("nb", x, r)
<1>1. Fit(x)
  BY DEF Good
<1>2. r = Result(x, 0, FALSE) \/ \E n \in May(x, d) : r = Result(NbOut(x, d, n), 0, TRUE)
  BY Zenon DEF NbSplice, NbOut, May
<1>3. ASSUME NEW n \in May(x, d), r = Result(NbOut(x, d, n), 0, TRUE)
      PROVE  Done("nb", x, r)
  <2> DEFINE y == NbOut(x, d, n)
  <2>1. Good("nb", y) /\ y.insend = x.insend
    BY NbGood
  <2> HIDE DEF y
  <2>2. r = Result(y, 0, TRUE)
    BY <1>3 DEF y
  <2>. QED BY <1>1, <2>1, <2>2, DoneCounted
<1>. QED BY <1>1, <1>2, <1>3, DoneNothing

(* _work_process_client and _work_process_server, in every mode. *)
LEMMA ProcessClient ==
  ASSUME NEW x, mode \in {"copy", "splice", "nb"}, Good(mode, x), NEW r \in _work_process_client(x)
  PROVE  Done(mode, x, r)
<1>1. Fit(x) /\ "cli" \in End
  BY DEF Good, End
<1>2. CASE mode = "copy"
  <2>1. r \in Relay(x, "cli", _work_sendto_server)
    BY <1>2, Zenon DEF _work_process_client
  <2>2. Good("copy", x)
    BY <1>2
  <2>3. Done("copy", x, r)
    BY <2>1, <2>2, RelayClient
  <2>. QED BY <1>2, <2>3
<1>3. CASE x.wait /\ mode # "copy"
  <2>1. r = Result(x, 0, TRUE)
    BY <1>3, Zenon DEF _work_process_client
  <2>. QED BY <1>1, <2>1, DoneCounted
<1>4. CASE ~x.wait /\ mode = "splice"
  <2>1. r \in Splice(x, "cli")
    BY <1>4, Zenon DEF _work_process_client
  <2>. QED BY <1>1, <1>4, <2>1, SpliceDone
<1>5. CASE ~x.wait /\ mode = "nb"
  <2>1. r \in NbSplice(x, "cli")
    BY <1>5, Zenon DEF _work_process_client
  <2>. QED BY <1>1, <1>5, <2>1, NbSpliceDone
<1>. QED BY <1>2, <1>3, <1>4, <1>5

(* The same for the server's data. *)
LEMMA ProcessServer ==
  ASSUME NEW x, mode \in {"copy", "splice", "nb"}, Good(mode, x), NEW r \in _work_process_server(x)
  PROVE  Done(mode, x, r)
<1>1. Fit(x) /\ "svr" \in End
  BY DEF Good, End
<1>2. CASE mode = "copy"
  <2>1. r \in Relay(x, "svr", _work_sendto_client)
    BY <1>2, Zenon DEF _work_process_server
  <2>2. Good("copy", x)
    BY <1>2
  <2>3. Done("copy", x, r)
    BY <2>1, <2>2, RelayServer
  <2>. QED BY <1>2, <2>3
<1>4. CASE mode = "splice"
  <2>1. r \in Splice(x, "svr")
    BY <1>4, Zenon DEF _work_process_server
  <2>. QED BY <1>1, <1>4, <2>1, SpliceDone
<1>5. CASE mode = "nb"
  <2>1. r \in NbSplice(x, "svr")
    BY <1>5, Zenon DEF _work_process_server
  <2>. QED BY <1>1, <1>5, <2>1, NbSpliceDone
<1>. QED BY <1>2, <1>4, <1>5

(* The send handlers on a session that may have nothing to send. *)
LEMMA SendAny ==
  ASSUME NEW m, NEW x, Fit(x), \A c \in End : Carries(m, x, c),
         NEW r, \/ Waits(x, "cli") /\ r \in _work_sendto_client(x)
                \/ Waits(x, "svr") /\ r \in _work_sendto_server(x)
  PROVE  Done(m, x, r)
<1>1. CASE m = "copy"
  <2>1. \A c \in End : Carries("copy", x, c)
    BY <1>1
  <2>2. Done("copy", x, r)
    BY <2>1, SendClient, SendServer
  <2>. QED BY <1>1, <2>2
<1>2. CASE m # "copy"
  <2>1. "cli" \in End /\ "svr" \in End
    BY DEF End
  <2>2. \A c \in End : Pending(x, c) = <<>>
    BY <1>2 DEF Carries
  <2>3. Good(m, x)
    BY <2>2 DEF Good, Waits
  <2>4. r = Result(x, 0, TRUE)
    BY <2>1, <2>2, Zenon DEF _work_sendto_client, _work_sendto_server
  <2>. QED BY <2>3, <2>4, DoneCounted
<1>. QED BY <1>1, <1>2

(* The connection to the server is decided, and what was waiting for it is sent. *)
LEMMA CheckServer ==
  ASSUME NEW m, NEW x, Good(m, x), x.wait, NEW r \in _work_check_server(x),
         NEW t \in Then(r, _work_sendto_server)
  PROVE  Done(m, x, t)
<1> DEFINE y == [x EXCEPT !.wait = FALSE, !.insend = @ \ {"svr"}]
<1>1. Fit(x) /\ x \in Memory /\ x.insend \in SUBSET End /\ "svr" \in End
  BY DEF Good, Fit, Memory, End
<1>2. x.insend = x.blocked \cup {"svr"} /\ x.svr /\ "svr" \notin x.blocked
  BY <1>1 DEF Fit
<1>3. Cnt(x.insend) \in Nat /\ Cnt(x.insend) >= 1 /\ Cnt(x.insend \ {"svr"}) = Cnt(x.insend) - 1
  BY <1>1, <1>2, CntStep
<1>4. r = Result(y, -1, TRUE) \/ r = Result(x, 0, FALSE) \/ r = Result(y, -1, FALSE)
  BY Zenon DEF _work_check_server
<1>5. CASE r = Result(x, 0, FALSE)
  <2>1. ~r.ok
    BY <1>5 DEF Result
  <2>2. t = r
    BY <2>1, Zenon DEF Then
  <2>. QED BY <1>1, <1>5, <2>2, DoneNothing
<1>6. CASE r = Result(y, -1, FALSE)
  <2>1. r.n = -1 /\ r.ok = FALSE
    BY <1>6 DEF Result
  <2>2. ~r.ok /\ r.ok \in BOOLEAN
    BY <2>1, Zenon
  <2>3. t = r
    BY <2>2, Zenon DEF Then
  <2>4. r.n \in Int /\ r.n + Cnt(x.insend) >= 0
    BY <1>3, <2>1
  <2>. QED BY <2>2, <2>3, <2>4, Zenon DEF Done
<1>7. CASE r = Result(y, -1, TRUE)
  <2>1. r.x = y /\ r.n = -1 /\ r.ok = TRUE
    BY <1>7 DEF Result
  <2>2. \E u \in _work_sendto_server(r.x) : t = Result(u.x, r.n + u.n, u.ok)
    BY <2>1, Zenon DEF Then
  <2>3. PICK u \in _work_sendto_server(r.x) : t = Result(u.x, r.n + u.n, u.ok)
    BY <2>2
  <2>4. /\ y \in Memory /\ y.wait = FALSE /\ y.insend = x.insend \ {"svr"} /\ y.blocked = x.blocked
        /\ y.svr = x.svr /\ SameData(x, y)
    BY <1>1 DEF Memory, SameData
  <2> HIDE DEF y
  <2>5. /\ Kept(y) = Kept(x) /\ \A c \in End : Carries(m, y, c)
        /\ \A c : Pending(y, c) = Pending(x, c)
    BY <2>4, SameDataIs DEF Good
  <2>6. Fit(y)
    <3>1. y.insend = y.blocked \cup (IF y.wait THEN {"svr"} ELSE {})
      BY <1>2, <2>4
    <3>2. y.got = x.got /\ y.nalloced = x.nalloced
      BY <2>4 DEF SameData
    <3>. QED BY <1>1, <1>2, <2>4, <2>5, <3>1, <3>2 DEF Fit
  <2>7. Waits(y, "svr")
    <3>1. Waits(x, "svr") /\ To("svr") = "cli"
      BY <1>1, ToIs DEF Good
    <3>. QED BY <2>4, <2>5, <3>1 DEF Waits
  <2>8. Counts(x, r)
    BY <1>3, <2>1, <2>4 DEF Counts
  <2>9. u \in _work_sendto_server(y)
    BY <2>1, <2>3
  <2>10. Done(m, y, u)
    BY <2>5, <2>6, <2>7, <2>9, SendAny
  <2>11. Done(m, r.x, u) /\ Fit(r.x)
    BY <2>1, <2>6, <2>10
  <2>12. Done(m, x, Result(u.x, r.n + u.n, u.ok))
    BY <1>1, <2>8, <2>11, DoneAfter
  <2>. QED BY <2>3, <2>12
<1>. QED BY <1>4, <1>5, <1>6, <1>7

----------------------------------------------------------------------------
(* The send epoll, and the number of descriptors in it.                               *)

\* Who is in the send epoll when the sessions are f, and who of the others than s.
At(f) == {e \in Sess \X End : f[e[1]].live /\ e[2] \in f[e[1]].insend}
Others(f, s) == {e \in At(f) : e[1] # s}
Ends(x) == IF x.live THEN x.insend ELSE {}

(* The send epoll is finite. *)
LEMMA AtFinite ==
  ASSUME NEW f
  PROVE  IsFiniteSet(At(f)) /\ Cardinality(At(f)) \in Nat
<1>1. IsFiniteSet(Sess)
  BY WorkAssumption
<1>2. IsFiniteSet(End)
  <2>1. End \in SUBSET End
    OBVIOUS
  <2>. QED BY <2>1, CntIs
<1>3. IsFiniteSet(Sess \X End)
  BY <1>1, <1>2, FS_Product
<1>4. At(f) \subseteq Sess \X End
  BY DEF At
<1>5. IsFiniteSet(At(f))
  BY <1>3, <1>4, FS_Subset
<1>. QED BY <1>5, FS_CardinalityType

(* A step of session s does not change the descriptors of the others. *)
LEMMA OthersSame ==
  ASSUME NEW f, NEW g, NEW s \in Sess, \A t \in Sess : t # s => g[t] = f[t]
  PROVE  Others(g, s) = Others(f, s)
<1>2. ASSUME NEW e \in Sess \X End, e[1] # s
      PROVE  e \in At(g) <=> e \in At(f)
  <2>1. e[1] \in Sess
    OBVIOUS
  <2>2. g[e[1]] = f[e[1]]
    BY <1>2, <2>1
  <2>. QED BY <2>2, Zenon DEF At
<1>3. At(f) \subseteq Sess \X End /\ At(g) \subseteq Sess \X End
  BY DEF At
<1>4. Others(g, s) = Others(f, s)
  BY <1>2, <1>3, Zenon DEF Others
<1>. QED BY <1>4

(* The descriptors of one session and those of the others are all. *)
LEMMA CountIs ==
  ASSUME NEW f, NEW s \in Sess, Ends(f[s]) \in SUBSET End
  PROVE  Cardinality(At(f)) = Cardinality(Others(f, s)) + Cnt(Ends(f[s]))
<1> DEFINE S == Ends(f[s])
           O == Others(f, s)
           P == {s} \X S
<1>1. IsFiniteSet(S) /\ Cardinality(S) = Cnt(S) /\ Cnt(S) \in Nat
  BY CntIs
<1>2. IsFiniteSet({s}) /\ Cardinality({s}) = 1
  BY FS_Singleton
<1>3. IsFiniteSet(P) /\ Cardinality(P) = Cnt(S)
  <2>1. IsFiniteSet(P) /\ Cardinality(P) = Cardinality({s}) * Cardinality(S)
    BY <1>1, <1>2, FS_Product
  <2>. QED BY <1>1, <1>2, <2>1
<1>4. IsFiniteSet(O)
  <2>1. O \subseteq At(f)
    BY DEF Others
  <2>. QED BY <2>1, AtFinite, FS_Subset
<1>5. Cardinality(O) \in Nat
  BY <1>4, FS_CardinalityType
<1>6. O \cap P = {}
  BY DEF Others
<1>7. At(f) = O \cup P
  <2>1. ASSUME NEW e \in At(f) PROVE e \in O \cup P
    <3>1. e \in Sess \X End /\ f[e[1]].live /\ e[2] \in f[e[1]].insend
      BY DEF At
    <3>2. CASE e[1] # s
      BY <3>2 DEF Others
    <3>3. CASE e[1] = s
      <4>1. e[2] \in S
        BY <3>1, <3>3, Zenon DEF Ends
      <4>2. e = <<e[1], e[2]>>
        BY <3>1
      <4>. QED BY <3>3, <4>1, <4>2
    <3>. QED BY <3>2, <3>3
  <2>2. ASSUME NEW e \in P PROVE e \in At(f)
    <3>1. e[1] = s /\ e[2] \in S
      OBVIOUS
    <3>2. f[s].live /\ e[2] \in f[s].insend
      BY <3>1, Zenon DEF Ends
    <3>3. e \in Sess \X End
      OBVIOUS
    <3>. QED BY <3>1, <3>2, <3>3, Zenon DEF At
  <2>3. O \subseteq At(f)
    BY DEF Others
  <2>. QED BY <2>1, <2>2, <2>3
<1> HIDE DEF O, P, S
<1>8. Cardinality(O \cup P) = Cardinality(O) + Cardinality(P) - Cardinality(O \cap P)
  BY <1>3, <1>4, FS_Union
<1>9. Cardinality(O \cap P) = 0
  BY <1>6, FS_EmptySet
<1>10. Cardinality(At(f)) = Cardinality(O) + Cnt(S)
  BY <1>1, <1>3, <1>5, <1>7, <1>8, <1>9
<1>. QED BY <1>10 DEF O, S

----------------------------------------------------------------------------
(* The inductive invariant.                                                           *)

\* Every session is free or fit, in order and watched.
SessOK(f, m) ==
  /\ f \in [Sess -> Memory \cup {None}]
  /\ \A s \in Sess : f[s].live => Good(m, f[s])

\* nblocked does not fall below the number of descriptors in the send epoll.
CountOK(n, f) == n \in Nat /\ n >= Cardinality(At(f))

LoopOK ==
  /\ phase \in {"get", "send", "recv"} /\ mode \in Mode
  /\ todo \subseteq Sess \X End
  /\ up \in BOOLEAN /\ stale \in BOOLEAN

IInv == SessOK(sess, mode) /\ CountOK(nblocked, sess) /\ LoopOK

(* A free entry of the table is not live. *)
LEMMA NoneIs == None.live = FALSE
  BY DEF None

(* There are three ways of relaying. *)
LEMMA ModeIs == mode \in Mode => mode \in {"copy", "splice", "nb"}
  BY WorkAssumption

(* What Apply makes of the sessions and of the count, after a handler of x. *)
LEMMA ApplyKeeps ==
  ASSUME NEW s \in Sess, NEW x, NEW r, SessOK(sess, mode), CountOK(nblocked, sess), up \in BOOLEAN,
         Ends(sess[s]) = x.insend, x.insend \in SUBSET End, Done(mode, x, r), Apply(s, r)
  PROVE  SessOK(sess', mode) /\ CountOK(nblocked', sess') /\ up' \in BOOLEAN
<1>1. sess \in [Sess -> Memory \cup {None}] /\ DOMAIN sess = Sess
  BY DEF SessOK
<1>2. /\ nblocked \in Nat /\ nblocked >= Cardinality(At(sess))
      /\ r.ok \in BOOLEAN /\ r.n \in Int /\ r.n + Cnt(x.insend) >= 0 /\ Cnt(x.insend) \in Nat
  BY CntIs DEF CountOK, Done
<1>3. Cardinality(At(sess)) = Cardinality(Others(sess, s)) + Cnt(x.insend)
  BY CountIs
<1>4. Cardinality(Others(sess, s)) \in Nat
  <2>1. Others(sess, s) \subseteq At(sess)
    BY DEF Others
  <2>. QED BY <2>1, AtFinite, FS_Subset, FS_CardinalityType
<1>5. CASE r.ok
  <2>1. sess' = [sess EXCEPT ![s] = r.x] /\ nblocked' = nblocked + r.n /\ up' = up
    BY <1>5, Zenon DEF Apply
  <2>2. Good(mode, r.x) /\ r.n = Cnt(r.x.insend) - Cnt(x.insend)
    BY <1>5 DEF Done, Counts
  <2>3. r.x \in Memory /\ r.x.insend \in SUBSET End /\ r.x.live
    <3>1. r.x \in Memory
      BY <2>2 DEF Good, Fit
    <3>. QED BY <3>1 DEF Memory
  <2>4. Others(sess', s) = Others(sess, s) /\ sess'[s] = r.x
    <3>1. sess'[s] = r.x /\ \A t \in Sess : t # s => sess'[t] = sess[t]
      BY <1>1, <2>1
    <3>. QED BY <3>1, OthersSame
  <2>5. Ends(sess'[s]) = r.x.insend
    BY <2>3, <2>4 DEF Ends
  <2>6. Cardinality(At(sess')) = Cardinality(Others(sess, s)) + Cnt(r.x.insend)
    BY <2>3, <2>4, <2>5, CountIs
  <2>7. Cnt(r.x.insend) \in Nat
    BY <2>3, CntIs
  <2>8. CountOK(nblocked', sess')
    BY <1>2, <1>3, <1>4, <2>1, <2>2, <2>6, <2>7 DEF CountOK
  <2>9. SessOK(sess', mode)
    <3>1. sess' \in [Sess -> Memory \cup {None}]
      BY <1>1, <2>1, <2>3
    <3>2. ASSUME NEW t \in Sess, sess'[t].live PROVE Good(mode, sess'[t])
      <4>1. CASE t = s
        BY <2>2, <2>4, <4>1
      <4>2. CASE t # s
        <5>1. sess'[t] = sess[t]
          BY <1>1, <2>1, <4>2
        <5>. QED BY <3>2, <5>1 DEF SessOK
      <4>. QED BY <4>1, <4>2
    <3>. QED BY <3>1, <3>2 DEF SessOK
  <2>. QED BY <2>1, <2>8, <2>9
<1>6. CASE ~r.ok
  <2>1. sess' = [sess EXCEPT ![s] = None] /\ nblocked' = nblocked + r.n /\ up' \in BOOLEAN
    <3>1. sess' = [sess EXCEPT ![s] = None] /\ nblocked' = nblocked + r.n
          /\ up' = (r.x.nalloced = Held(r.x))
      BY <1>6, Zenon DEF Apply, Freed
    <3>. QED BY <3>1
  <2>4. Others(sess', s) = Others(sess, s) /\ sess'[s] = None
    <3>1. sess'[s] = None /\ \A t \in Sess : t # s => sess'[t] = sess[t]
      BY <1>1, <2>1
    <3>. QED BY <3>1, OthersSame
  <2>5. Ends(sess'[s]) = {} /\ Cnt({}) = 0
    BY <2>4, NoneIs DEF Ends, Cnt
  <2>6. Cardinality(At(sess')) = Cardinality(Others(sess, s)) + 0
    <3>1. Ends(sess'[s]) \in SUBSET End
      BY <2>5
    <3>2. Cardinality(At(sess')) = Cardinality(Others(sess', s)) + Cnt(Ends(sess'[s]))
      BY <3>1, CountIs
    <3>. QED BY <2>4, <2>5, <3>2
  <2>8. CountOK(nblocked', sess')
    BY <1>2, <1>3, <1>4, <2>1, <2>6 DEF CountOK
  <2>9. SessOK(sess', mode)
    <3>1. sess' \in [Sess -> Memory \cup {None}]
      BY <1>1, <2>1
    <3>2. ASSUME NEW t \in Sess, sess'[t].live PROVE Good(mode, sess'[t])
      <4>1. CASE t = s
        BY <2>4, <3>2, <4>1, NoneIs
      <4>2. CASE t # s
        <5>1. sess'[t] = sess[t]
          BY <1>1, <2>1, <4>2
        <5>. QED BY <3>2, <5>1 DEF SessOK
      <4>. QED BY <4>1, <4>2
    <3>. QED BY <3>1, <3>2 DEF SessOK
  <2>. QED BY <2>1, <2>8, <2>9
<1>. QED BY <1>2, <1>5, <1>6

(* A session that lives, for its handlers. *)
LEMMA LiveIs ==
  ASSUME NEW s \in Sess, SessOK(sess, mode), sess[s].live
  PROVE  /\ Good(mode, sess[s]) /\ Fit(sess[s])
         /\ sess[s].insend \in SUBSET End /\ Ends(sess[s]) = sess[s].insend
  BY DEF SessOK, Good, Fit, Memory, Ends

(* A session starts with nothing. *)
LEMMA NewGood ==
  /\ \A m : Good(m, New)
  /\ New.insend = {} /\ \A c \in End : Pending(New, c) = <<>>
<1>1. <<>> \in Seq(Pkt) /\ <<>> \in Seq(Byte)
  OBVIOUS
<1>2. /\ New.live = TRUE /\ New.svr = FALSE /\ New.wait = FALSE /\ New.blocked = {} /\ New.insend = {}
      /\ New.outq = [d \in End |-> <<>>] /\ New.blkpkt = [d \in End |-> <<>>] /\ New.nalloced = 0
      /\ New.pipe = <<>> /\ New.got = [d \in End |-> 0] /\ New.sent = [d \in End |-> <<>>]
  BY DEF New
<1>3. New \in Memory
  BY <1>1 DEF New, Memory
<1>4. ASSUME NEW c \in End
      PROVE  New.outq[c] = <<>> /\ New.blkpkt[c] = <<>> /\ New.got[c] = 0 /\ New.sent[c] = <<>>
  BY <1>2
<1>5. ASSUME NEW c \in End PROVE Pending(New, c) = <<>>
  BY <1>3, <1>4, PendingIs
<1>6. Kept(New) = 0
  <2>1. "cli" \in End /\ "svr" \in End
    BY DEF End
  <2>2. Pending(New, "cli") = <<>> /\ Pending(New, "svr") = <<>>
    BY <1>5, <2>1
  <2>3. Kept(New) = Len(<<>>) + Len(<<>>)
    BY <2>2, Zenon DEF Kept
  <2>. QED BY <2>3
<1>7. Fit(New)
  <2>1. \A c \in End : New.got[c] <= N[c]
    <3>1. \A c \in End : N[c] \in Nat
      BY WorkAssumption
    <3>. QED BY <1>4, <3>1
  <2>2. New.insend = New.blocked \cup (IF New.wait THEN {"svr"} ELSE {})
    BY <1>2
  <2>3. New.nalloced >= Kept(New)
    BY <1>2, <1>6
  <2>4. (New.wait => New.svr /\ "svr" \notin New.blocked) /\ ("svr" \in New.blocked => New.svr)
    BY <1>2
  <2>. QED BY <1>3, <2>1, <2>2, <2>3, <2>4 DEF Fit
<1>8. ASSUME NEW c \in End, NEW m PROVE Waits(New, c) /\ Carries(m, New, c)
  <2>1. To(c) \in End
    BY ToIs
  <2>2. <<>> \o <<>> = <<>>
    OBVIOUS
  <2>3. Line(New, c) = <<>>
    <3>1. New.sent[To(c)] = <<>> /\ Pending(New, c) = <<>>
      BY <1>4, <1>5, <2>1
    <3>. QED BY <2>2, <3>1, FlattenNone, Zenon DEF Line
  <2>4. Up(<<>>, c, 0)
    BY DEF Up
  <2>5. Full(c, 0) = <<>>
    BY DEF Full
  <2>6. New.sent[To(c)] \o New.pipe = <<>>
    BY <1>2, <1>4, <2>1, <2>2
  <2>7. Waits(New, c)
    BY <1>5 DEF Waits
  <2>8. New.got[c] = 0 /\ New.sent[To(c)] = <<>> /\ Pending(New, c) = <<>>
    BY <1>4, <1>5, <2>1
  <2>9. Carries(m, New, c)
    BY <2>3, <2>4, <2>5, <2>6, <2>8, Zenon DEF Carries
  <2>. QED BY <2>7, <2>9
<1>. QED BY <1>2, <1>5, <1>7, <1>8 DEF Good

(* A new session, and its server when splicing. *)
LEMMA NewDone ==
  ASSUME NEW m, NEW r \in _work_get_server(New)
  PROVE  Done(m, New, r)
<1>1. Good(m, New) /\ Fit(New) /\ New.insend = {} /\ \A c \in End : Pending(New, c) = <<>>
  BY NewGood DEF Good
<1>2. Served(New, r)
  BY <1>1, GetServer
<1>3. r.ok \in BOOLEAN /\ r.n \in Nat
  BY <1>2 DEF Served
<1>4. Cnt(New.insend) = 0
  BY <1>1 DEF Cnt
<1>5. r.n \in Int /\ r.n + Cnt(New.insend) >= 0
  BY <1>3, <1>4
<1>6. ASSUME r.ok PROVE Good(m, r.x) /\ Counts(New, r)
  <2>1. Fit(r.x) /\ Counts(New, r) /\ SameData(New, r.x)
    BY <1>2, <1>6, Zenon DEF Served
  <2>2. /\ \A c \in End : Pending(r.x, c) = <<>>
        /\ \A c \in End : Carries(m, r.x, c)
    BY <1>1, <2>1, SameDataIs DEF Good
  <2>. QED BY <2>1, <2>2 DEF Good, Waits
<1>. QED BY <1>3, <1>5, <1>6, Zenon DEF Done

(* No session, nobody blocked. *)
LEMMA InitInv == Init => IInv
<1> SUFFICES ASSUME Init PROVE IInv
  OBVIOUS
<1>1. sess = [s \in Sess |-> None]
  BY DEF Init
<1>2. \A s \in Sess : sess[s].live = FALSE
  BY <1>1, NoneIs
<1>3. SessOK(sess, mode)
  BY <1>1, <1>2 DEF SessOK
<1>4. At(sess) = {}
  <2>1. ASSUME NEW e \in At(sess) PROVE FALSE
    <3>1. e[1] \in Sess /\ sess[e[1]].live
      BY DEF At
    <3>. QED BY <1>2, <3>1
  <2>. QED BY <2>1
<1>5. Cardinality(At(sess)) = 0
  BY <1>4, FS_EmptySet
<1>6. nblocked = 0
  BY DEF Init
<1>7. CountOK(nblocked, sess)
  BY <1>5, <1>6 DEF CountOK
<1>8. LoopOK
  BY DEF Init, LoopOK
<1>. QED BY <1>3, <1>7, <1>8 DEF IInv

(* A step that handles an event of session s. *)
LEMMA HandledInv ==
  ASSUME IInv, NEW s \in Sess, sess[s].live, NEW r, Done(mode, sess[s], r), Apply(s, r),
         todo' \subseteq todo, phase' = phase, mode' = mode, stale' \in BOOLEAN
  PROVE  IInv'
<1>1. SessOK(sess, mode) /\ CountOK(nblocked, sess) /\ LoopOK /\ up \in BOOLEAN
  BY DEF IInv, LoopOK
<1>2. sess[s].insend \in SUBSET End /\ Ends(sess[s]) = sess[s].insend
  BY <1>1, LiveIs
<1>3. SessOK(sess', mode) /\ CountOK(nblocked', sess') /\ up' \in BOOLEAN
  BY <1>1, <1>2, ApplyKeeps
<1>4. LoopOK'
  BY <1>1, <1>3 DEF LoopOK
<1>. QED BY <1>3, <1>4 DEF IInv

(* A new client. *)
LEMMA GetSessionInv ==
  ASSUME IInv, NEW s \in Sess, _work_get_session(s)
  PROVE  IInv'
<1>1. SessOK(sess, mode) /\ CountOK(nblocked, sess) /\ LoopOK /\ up \in BOOLEAN
  BY DEF IInv, LoopOK
<1>2. ~sess[s].live /\ UNCHANGED <<phase, todo, mode, stale>>
  BY DEF _work_get_session
<1>3. Good(mode, New) /\ Fit(New) /\ New.insend = {}
  BY NewGood DEF Good
<1>4. Ends(sess[s]) = New.insend /\ New.insend \in SUBSET End
  BY <1>2, <1>3 DEF Ends
<1>5. \E r : Apply(s, r) /\ Done(mode, New, r)
  <2>1. CASE mode = "copy"
    <3>1. Apply(s, Result(New, 0, TRUE))
      BY <2>1, Zenon DEF _work_get_session
    <3>2. Done(mode, New, Result(New, 0, TRUE))
      BY <1>3, DoneCounted
    <3>. QED BY <3>1, <3>2
  <2>2. CASE mode # "copy"
    <3>1. \E r : Apply(s, r) /\ (r \in _work_get_server(New)
                                 \/ \E t \in _work_get_server(New) : r = Result(t.x, t.n, FALSE))
      BY <2>2, Zenon DEF _work_get_session
    <3>. QED BY <3>1, NewDone, DoneFails
  <2>. QED BY <2>1, <2>2
<1>6. SessOK(sess', mode) /\ CountOK(nblocked', sess') /\ up' \in BOOLEAN
  BY <1>1, <1>4, <1>5, ApplyKeeps
<1>7. LoopOK'
  BY <1>1, <1>2, <1>6 DEF LoopOK
<1>. QED BY <1>2, <1>6, <1>7 DEF IInv

(* An end that was blocked takes data. *)
LEMMA WritableInv ==
  ASSUME IInv, NEW s \in Sess, NEW e \in End, Writable(s, e)
  PROVE  IInv'
<1>1. SessOK(sess, mode) /\ sess[s].live /\ todo' \subseteq todo /\ phase' = phase /\ mode' = mode
      /\ stale' \in BOOLEAN
  BY DEF IInv, LoopOK, Writable
<1>2. Good(mode, sess[s])
  BY <1>1, LiveIs
<1>3. Fit(sess[s]) /\ Waits(sess[s], "cli") /\ Waits(sess[s], "svr") /\ \A c \in End : Carries(mode, sess[s], c)
  BY <1>2 DEF Good, End
<1>4. \E r : Apply(s, r) /\ (r \in _work_sendto_client(sess[s]) \/ r \in _work_sendto_server(sess[s]))
  BY Zenon DEF Writable
<1>5. PICK r : Apply(s, r) /\ (r \in _work_sendto_client(sess[s]) \/ r \in _work_sendto_server(sess[s]))
  BY <1>4
<1>6. Done(mode, sess[s], r)
  BY <1>3, <1>5, SendAny
<1>. QED BY <1>1, <1>5, <1>6, HandledInv

(* The server is connected, or is not. *)
LEMMA ConnectedInv ==
  ASSUME IInv, NEW s \in Sess, Connected(s)
  PROVE  IInv'
<1>1. SessOK(sess, mode) /\ sess[s].live /\ sess[s].wait /\ todo' \subseteq todo /\ phase' = phase /\ mode' = mode
  BY DEF IInv, Connected
<1>2. PICK r \in _work_check_server(sess[s]) :
        /\ \E t \in Then(r, _work_sendto_server) : Apply(s, t)
        /\ stale' = (stale \/ ~r.ok)
  BY DEF Connected
<1>3. PICK t \in Then(r, _work_sendto_server) : Apply(s, t)
  BY <1>2
<1>4. Good(mode, sess[s])
  BY <1>1, LiveIs
<1>5. Done(mode, sess[s], t)
  BY <1>1, <1>2, <1>3, <1>4, CheckServer
<1>6. stale' \in BOOLEAN
  BY <1>2
<1>. QED BY <1>1, <1>3, <1>5, <1>6, HandledInv

(* An error frees the session and leaves its blocked ends counted. *)
LEMMA ErrorInv ==
  ASSUME IInv, NEW s \in Sess, NEW e \in End, ErrorEvent(s, e)
  PROVE  IInv'
<1>1. SessOK(sess, mode) /\ sess[s].live /\ todo' \subseteq todo /\ phase' = phase /\ mode' = mode
      /\ stale' \in BOOLEAN /\ Apply(s, Result(sess[s], 0, FALSE))
  BY DEF IInv, LoopOK, ErrorEvent
<1>2. Fit(sess[s])
  BY <1>1, LiveIs
<1>3. Done(mode, sess[s], Result(sess[s], 0, FALSE))
  BY <1>2, DoneNothing
<1>. QED BY <1>1, <1>3, HandledInv

(* Data has come. *)
LEMMA ReadableInv ==
  ASSUME IInv, NEW s \in Sess, NEW e \in End, Readable(s, e)
  PROVE  IInv'
<1>1. SessOK(sess, mode) /\ sess[s].live /\ todo' \subseteq todo /\ phase' = phase /\ mode' = mode
      /\ stale' \in BOOLEAN /\ stale' = stale /\ mode \in {"copy", "splice", "nb"}
  BY ModeIs DEF IInv, LoopOK, Readable
<1>2. Good(mode, sess[s])
  BY <1>1, LiveIs
<1>3. CASE UNCHANGED <<sess, nblocked, up>>
  BY <1>1, <1>3 DEF IInv, LoopOK
<1>4. CASE \E r : Apply(s, r) /\ (r \in _work_process_client(sess[s]) \/ r \in _work_process_server(sess[s]))
  <2>1. PICK r : Apply(s, r) /\ (r \in _work_process_client(sess[s]) \/ r \in _work_process_server(sess[s]))
    BY <1>4
  <2>2. Done(mode, sess[s], r)
    BY <1>1, <1>2, <2>1, ProcessClient, ProcessServer
  <2>. QED BY <1>1, <2>1, <2>2, HandledInv
<1>5. \/ UNCHANGED <<sess, nblocked, up>>
      \/ \E r : Apply(s, r) /\ (r \in _work_process_client(sess[s]) \/ r \in _work_process_server(sess[s]))
  BY Zenon DEF Readable
<1>. QED BY <1>3, <1>4, <1>5

(* Steps that change no session. *)
LEMMA LoopInv ==
  ASSUME IInv, UNCHANGED <<sess, nblocked, mode, up, stale>>,
         phase' \in {"get", "send", "recv"}, todo' \subseteq Sess \X End
  PROVE  IInv'
<1>1. SessOK(sess, mode)' /\ CountOK(nblocked, sess)'
  BY DEF IInv, SessOK, CountOK, At
<1>2. LoopOK'
  BY DEF IInv, LoopOK
<1>. QED BY <1>1, <1>2 DEF IInv

(* Every step of the loop keeps the invariant. *)
LEMMA NextInv == IInv /\ [Next]_vars => IInv'
<1> SUFFICES ASSUME IInv, [Next]_vars PROVE IInv'
  OBVIOUS
<1>1. todo \subseteq Sess \X End /\ phase \in {"get", "send", "recv"}
  BY DEF IInv, LoopOK
<1>2. ASSUME NEW E \in SUBSET InSend, _work_send_data(E) PROVE IInv'
  <2>1. UNCHANGED <<sess, nblocked, mode, up, stale>> /\ phase' = "send" /\ todo' \subseteq Sess \X End
    BY <1>2 DEF _work_send_data, InSend
  <2>. QED BY <2>1, LoopInv
<1>3. ASSUME NEW E \in SUBSET InRecv, _work_recv_data(E) PROVE IInv'
  <2>1. UNCHANGED <<sess, nblocked, mode, up, stale>> /\ phase' = "recv" /\ todo' \subseteq Sess \X End
    BY <1>3 DEF _work_recv_data, InRecv
  <2>. QED BY <2>1, LoopInv
<1>4. CASE _work_loop
  <2>1. UNCHANGED <<sess, nblocked, mode, up, stale>> /\ phase' = "get" /\ todo' \subseteq Sess \X End
    BY <1>1, <1>4 DEF _work_loop
  <2>. QED BY <2>1, LoopInv
<1>5. ASSUME NEW s \in Sess, NEW e \in End, Skipped(s, e) PROVE IInv'
  <2>1. UNCHANGED <<sess, nblocked, mode, up, stale>> /\ phase' = phase /\ todo' \subseteq Sess \X End
    BY <1>1, <1>5 DEF Skipped
  <2>. QED BY <1>1, <2>1, LoopInv
<1>6. CASE UNCHANGED vars
  <2>1. UNCHANGED <<sess, nblocked, mode, up, stale>> /\ phase' = phase /\ todo' \subseteq Sess \X End
    BY <1>1, <1>6 DEF vars
  <2>. QED BY <1>1, <2>1, LoopInv
<1>. QED BY <1>2, <1>3, <1>4, <1>5, <1>6, GetSessionInv, WritableInv, ConnectedInv, ErrorInv, ReadableInv
         DEF Next, Loop

(* The inductive invariant of a work thread: every live session is fit, carries its bytes in
   order, keeps data only for ends in the send epoll, and nblocked covers them. *)
THEOREM InductiveInvariant == Spec => []IInv
  BY InitInv, NextInv, PTL DEF Spec

(* What Armed says follows from the invariant. *)
LEMMA ArmedHolds == IInv => Armed
<1> SUFFICES ASSUME IInv PROVE Armed
  OBVIOUS
<1>1. /\ SessOK(sess, mode) /\ nblocked \in Nat /\ nblocked >= Cardinality(At(sess)) /\ LoopOK
  BY DEF IInv, CountOK
<1>2. ASSUME NEW s \in Sess, sess[s].live
      PROVE  /\ sess[s] \in Memory /\ Fit(sess[s])
             /\ \A d \in End : Waits(sess[s], d)
             /\ sess[s].nalloced \in Nat
  <2>1. Good(mode, sess[s]) /\ Fit(sess[s])
    BY <1>1, <1>2, LiveIs
  <2>2. sess[s] \in Memory /\ sess[s].nalloced >= Kept(sess[s])
    BY <2>1 DEF Fit
  <2>3. Kept(sess[s]) \in Nat
    BY <2>2, HeldIs
  <2>4. sess[s].nalloced \in Int
    BY <2>2 DEF Memory
  <2>. QED BY <2>1, <2>2, <2>3, <2>4 DEF Good
<1>3. ASSUME NEW s \in Sess, sess[s].live
      PROVE  /\ sess[s].blocked \subseteq End /\ sess[s].insend \subseteq End
             /\ \A d \in End : /\ \A i \in DOMAIN sess[s].outq[d] : IsPacket(sess[s].outq[d][i])
                               /\ sess[s].blkpkt[d] = <<>> \/ IsPacket(sess[s].blkpkt[d])
                               /\ sess[s].got[d] \in 0 .. N[d]
  <2> DEFINE x == sess[s]
  <2>1. x \in Memory /\ Fit(x)
    BY <1>2, <1>3
  <2> HIDE DEF x
  <2>2. x.blocked \subseteq End /\ x.insend \subseteq End
    BY <2>1 DEF Memory
  <2>3. ASSUME NEW d \in End
        PROVE  /\ \A i \in DOMAIN x.outq[d] : IsPacket(x.outq[d][i])
               /\ x.blkpkt[d] = <<>> \/ IsPacket(x.blkpkt[d])
               /\ x.got[d] \in 0 .. N[d]
    <3>1. x.outq[d] \in Seq(Pkt) /\ x.blkpkt[d] \in Pkt \cup {<<>>} /\ x.got[d] \in Nat
      BY <2>1 DEF Memory
    <3>2. \A p \in Pkt : IsPacket(p)
      BY DEF Pkt, IsPacket, Byte
    <3>3. x.got[d] <= N[d] /\ N[d] \in Nat
      BY <2>1, WorkAssumption DEF Fit
    <3>4. \A i \in DOMAIN x.outq[d] : x.outq[d][i] \in Pkt
      BY <3>1
    <3>. QED BY <3>1, <3>2, <3>3, <3>4
  <2>. QED BY <2>2, <2>3 DEF x
<1>4. TypeOK
  BY <1>1, <1>2, <1>3 DEF TypeOK, LoopOK
<1>5. FlagsMatch
  BY <1>2 DEF FlagsMatch, Fit
<1>6. Watched
  BY <1>2 DEF Watched, Waits
<1>7. Counted
  BY <1>1 DEF Counted, InSend, At
<1>. QED BY <1>4, <1>5, <1>6, <1>7 DEF Armed

(* Armed, for every work thread: types, flags that match the send epoll, data kept only for *)
(* ends that are in it, and an nblocked that never hides them from _work_send_data.        *)
THEOREM ArmedCorrect == Spec => []Armed
  BY InductiveInvariant, ArmedHolds, PTL

(* What Stream says follows from the invariant. *)
LEMMA StreamHolds == IInv => Stream
<1> SUFFICES ASSUME IInv PROVE Stream
  OBVIOUS
<1>1. SessOK(sess, mode) /\ mode \in {"copy", "splice", "nb"}
  BY ModeIs DEF IInv, LoopOK
<1>2. ASSUME NEW s \in Sess, sess[s].live
      PROVE  sess[s] \in Memory /\ \A d \in End : Carries(mode, sess[s], d)
  BY <1>1, <1>2, LiveIs DEF Good, Fit
<1>3. ASSUME NEW s \in Sess, sess[s].live, NEW d \in End
      PROVE  Up(sess[s].sent[To(d)], d, sess[s].got[d])
  <2> DEFINE x == sess[s]
  <2>1. x \in Memory /\ Carries(mode, x, d)
    BY <1>2, <1>3
  <2> HIDE DEF x
  <2>2. x.sent[To(d)] \in Seq(Byte) /\ FlattenSeq(Pending(x, d)) \in Seq(Byte) /\ x.pipe \in Seq(Byte)
    BY <2>1, LineIs DEF Memory
  <2>3. CASE mode = "copy"
    <3>1. Up(x.sent[To(d)] \o FlattenSeq(Pending(x, d)), d, x.got[d])
      BY <2>1, <2>3 DEF Carries, Line
    <3>. QED BY <2>2, <3>1, UpPrefix DEF x
  <2>4. CASE mode = "splice"
    <3>1. Up(x.sent[To(d)] \o x.pipe, d, x.got[d])
      BY <2>1, <2>4 DEF Carries
    <3>. QED BY <2>2, <3>1, UpPrefix DEF x
  <2>5. CASE mode = "nb"
    BY <2>1, <2>5 DEF Carries, x
  <2>. QED BY <1>1, <2>3, <2>4, <2>5
<1>4. InOrder
  BY <1>3 DEF InOrder, Up
<1>5. ASSUME NEW s \in Sess, sess[s].live, mode = "copy", sess[s].nalloced = Held(sess[s]), NEW d \in End
      PROVE  sess[s].sent[To(d)] \o FlattenSeq(Pending(sess[s], d)) = [i \in 1 .. sess[s].got[d] |-> <<d, i>>]
  <2>1. sess[s] \in Memory /\ Carries("copy", sess[s], d)
    BY <1>2, <1>5
  <2>2. sess[s].nalloced = Kept(sess[s]) /\ Kept(sess[s]) \in Nat
    BY <1>5, <2>1, HeldIs
  <2>3. Excess(sess[s]) = 0
    BY <2>2 DEF Excess
  <2>4. Line(sess[s], d) = Full(d, sess[s].got[d])
    BY <2>1, <2>3 DEF Carries
  <2>. QED BY <2>4 DEF Line, Full
<1>6. Complete
  BY <1>5, Zenon DEF Complete
<1>. QED BY <1>4, <1>6 DEF Stream

(* Stream, for every work thread: what reaches one end is in order and without repetition *)
(* in every mode, and complete while no packet of a copying session was forgotten.        *)
THEOREM StreamCorrect == Spec => []Stream
  BY InductiveInvariant, StreamHolds, PTL
=============================================================================
