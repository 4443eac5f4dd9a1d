--------------------------- MODULE FdEpollProofs ---------------------------
(***************************************************************************)
(* Proofs about FdEpoll for every size of the table and of the update      *)
(* array, in every mode and with any epoll_ctl failing: epoll watches what *)
(* was asked for except where a call failed, nothing outside the array is  *)
(* used, and the table implements EventTable.                              *)
(***************************************************************************)
EXTENDS FdEpoll, SequenceTheorems, TLAPS

\* An item that is marked is in use, and listed unless a call failed on it;
\* pevents is what the kernel has.
ItemOK(fd) ==
  /\ item[fd].pevents = reg[fd]
  /\ item[fd].is_updated => item[fd].arg
  /\ fd \notin spoilt => (item[fd].is_updated => IsListed(fd))
  /\ fd \in spoilt => item[fd].is_updated /\ ~IsListed(fd)

\* An open socket has an item in use, whose changes are marked.
OpenOK(fd) ==
  /\ item[fd].ready /\ item[fd].arg /\ fd < MaxFd
  /\ item[fd].events # item[fd].pevents => item[fd].is_updated

\* A closed number is not watched; only TRAPT mode leaves an item in use.
ClosedOK(fd) == reg[fd] = NONE /\ (~Trapt => ~item[fd].arg)

FdOK(fd) == ItemOK(fd) /\ IF fd \in open THEN OpenOK(fd) ELSE ClosedOK(fd)

IInv ==
  /\ TypeOK
  /\ \A fd \in Fd : FdOK(fd)
  /\ \A n \in 1..Len(updates) : updates[n] < MaxFd
  /\ phase = "wait" => updates = <<>>

LEMMA ZeroItem ==
  /\ Zero \in Item /\ ~Zero.arg
  /\ Zero.events = NONE /\ Zero.pevents = NONE /\ ~Zero.is_updated
  BY DEF Zero, Item, Mask

LEMMA AskedItem ==
  ASSUME NEW i \in Item, NEW e \in Mask
  PROVE  /\ Asked(i, e) \in Item
         /\ Asked(i, e).events = e /\ Asked(i, e).is_updated
         /\ Asked(i, e).pevents = i.pevents
         /\ Asked(i, e).ready = i.ready /\ Asked(i, e).arg = i.arg
  BY DEF Asked, Item

LEMMA NewItem ==
  ASSUME NEW i \in Item
  PROVE  LET n == [i EXCEPT !.ready = TRUE, !.arg = TRUE]
         IN  /\ n \in Item /\ n.ready /\ n.arg /\ n.pevents = i.pevents
             /\ n.is_updated = i.is_updated
  BY DEF Item

\* Listing an item adds at most fd, and lists it when it was not marked.
LEMMA ListedKeeps ==
  ASSUME updates \in Seq(Fd), NEW fd \in Fd, NEW i \in Item, fd < MaxFd,
         \A n \in 1..Len(updates) : updates[n] < MaxFd,
         updates' = Listed(i, fd)
  PROVE  /\ updates' \in Seq(Fd)
         /\ \A x \in Fd : x # fd => (IsListed(x) <=> IsListed(x)')
         /\ i.is_updated => (IsListed(fd) <=> IsListed(fd)')
         /\ ~i.is_updated => IsListed(fd)'
         /\ \A n \in 1..Len(updates') : updates'[n] < MaxFd
<1>1. CASE i.is_updated
  BY <1>1 DEF Listed, IsListed
<1>2. CASE ~i.is_updated
  <2>1. updates' = Append(updates, fd)
    BY <1>2 DEF Listed
  <2>2. /\ updates' \in Seq(Fd) /\ Len(updates') = Len(updates) + 1
        /\ Len(updates) \in Nat
        /\ \A n \in 1..Len(updates) : updates'[n] = updates[n]
        /\ updates'[Len(updates) + 1] = fd
    BY <2>1
  <2>3. \A n \in 1..Len(updates') : n \in 1..Len(updates) \/ n = Len(updates) + 1
    BY <2>2
  <2>4. \A n \in 1..Len(updates) : n \in 1..Len(updates')
    BY <2>2
  <2>5. ASSUME NEW x \in Fd, x # fd PROVE IsListed(x) <=> IsListed(x)'
    BY <2>2, <2>3, <2>4, <2>5, Zenon DEF IsListed
  <2>6. IsListed(fd)'
    <3>1. Len(updates) + 1 \in 1..Len(updates')
      BY <2>2
    <3> QED  BY <2>2, <3>1, Zenon DEF IsListed
  <2>7. \A n \in 1..Len(updates') : updates'[n] < MaxFd
    BY <2>2, <2>3, Zenon
  <2> QED  BY <1>2, <2>2, <2>5, <2>6, <2>7, Zenon
<1> QED  BY <1>1, <1>2

\* fd_epoll_add_event on an item i keeps the invariant, with fd open after it,
\* or, in TRAPT mode, with fd closed.
LEMMA AddEventInv ==
  ASSUME IInv, NEW fd \in Fd, NEW i \in Item, NEW e \in Mask,
         i.ready, i.arg, i.pevents = reg[fd], fd < MaxFd,
         fd_epoll_add_event(i, fd, e),
         spoilt' \in SUBSET Fd, \A x \in Fd : x # fd => (x \in spoilt' <=> x \in spoilt),
         fd \notin spoilt' => (i.is_updated => IsListed(fd)),
         fd \in spoilt' => i.is_updated /\ ~IsListed(fd),
         \/ open' = open \union {fd}
         \/ Trapt /\ open' = open /\ fd \notin open,
         mapped' \in SUBSET Fd, reg' = reg, phase' = phase, phase = "run"
  PROVE  IInv'
<1>1. item' = [item EXCEPT ![fd] = Asked(i, e)] /\ updates' = Listed(i, fd)
  BY DEF fd_epoll_add_event
<1>2. /\ updates' \in Seq(Fd)
      /\ \A x \in Fd : x # fd => (IsListed(x) <=> IsListed(x)')
      /\ i.is_updated => (IsListed(fd) <=> IsListed(fd)')
      /\ ~i.is_updated => IsListed(fd)'
      /\ \A n \in 1..Len(updates') : updates'[n] < MaxFd
  BY <1>1, ListedKeeps DEF IInv, TypeOK
<1>3. /\ Asked(i, e) \in Item /\ Asked(i, e).is_updated
      /\ Asked(i, e).pevents = reg[fd] /\ Asked(i, e).ready /\ Asked(i, e).arg
  BY AskedItem
<1>4. item \in [Fd -> Item] /\ open \in SUBSET Fd
  BY DEF IInv, TypeOK
<1>5. TypeOK'
  <2>1. item' \in [Fd -> Item] /\ open' \in SUBSET Fd
    BY <1>1, <1>3, <1>4
  <2> QED  BY <1>2, <2>1 DEF IInv, TypeOK
<1>6. ASSUME NEW x \in Fd PROVE FdOK(x)'
  <2>1. CASE x = fd
    <3>1. item'[fd] = Asked(i, e)
      BY <1>1, <1>4
    <3>2. ItemOK(fd)'
      BY <1>2, <1>3, <3>1 DEF ItemOK
    <3>3. CASE fd \in open'
      BY <1>3, <2>1, <3>1, <3>2, <3>3 DEF FdOK, OpenOK
    <3>4. CASE fd \notin open'
      <4>1. Trapt /\ fd \notin open
        BY <3>4
      <4>2. reg[fd] = NONE
        BY <4>1 DEF IInv, FdOK, ClosedOK
      <4> QED  BY <2>1, <3>2, <3>4, <4>1, <4>2 DEF FdOK, ClosedOK
    <3> QED  BY <3>3, <3>4
  <2>2. CASE x # fd
    <3>1. /\ item'[x] = item[x] /\ (x \in open' <=> x \in open)
          /\ (IsListed(x) <=> IsListed(x)') /\ (x \in spoilt' <=> x \in spoilt)
          /\ reg'[x] = reg[x]
      BY <1>1, <1>2, <1>4, <2>2
    <3>2. FdOK(x)
      BY DEF IInv
    <3> QED  BY <3>1, <3>2 DEF FdOK, ItemOK, OpenOK, ClosedOK
  <2> QED  BY <2>1, <2>2
<1> QED  BY <1>2, <1>5, <1>6 DEF IInv

LEMMA AcceptInv ==
  ASSUME IInv, NEW fd \in Fd, Accept(fd) \/ AcceptFails(fd) PROVE IInv'
<1> DEFINE n == [item[fd] EXCEPT !.ready = TRUE, !.arg = TRUE]
<1>1. fd \notin open /\ fd < MaxFd /\ item[fd] \in Item /\ FdOK(fd)
  BY DEF IInv, TypeOK, Accept, AcceptFails, Free, InTable
<1>2. /\ n \in Item /\ n.ready /\ n.arg /\ n.pevents = item[fd].pevents
      /\ n.is_updated = item[fd].is_updated
  BY <1>1, NewItem
<1>3. /\ fd_epoll_add_event(n, fd, FD_IN)
      /\ open' = open \union {fd} \/ (Trapt /\ open' = open /\ fd \notin open)
      /\ mapped' \in SUBSET Fd /\ reg' = reg /\ phase' = phase /\ phase = "run"
      /\ spoilt' = spoilt
  BY <1>1 DEF Accept, AcceptFails, Users, IInv, TypeOK
<1>4. FD_IN \in Mask /\ spoilt' \in SUBSET Fd
  BY <1>3 DEF Mask, IInv, TypeOK
<1>5. /\ n.pevents = reg[fd]
      /\ fd \notin spoilt' => (n.is_updated => IsListed(fd))
      /\ fd \in spoilt' => n.is_updated /\ ~IsListed(fd)
  BY <1>1, <1>2, <1>3 DEF FdOK, ItemOK
<1> HIDE DEF n
<1> QED  BY <1>1, <1>2, <1>3, <1>4, <1>5, AddEventInv

LEMMA ConnectInv ==
  ASSUME IInv, NEW fd \in Fd, Connect(fd) PROVE IInv'
<1> DEFINE n == [Zero EXCEPT !.ready = TRUE, !.arg = TRUE]
<1>1. fd \notin open /\ fd < MaxFd /\ reg[fd] = NONE
  BY DEF IInv, Connect, Free, InTable, FdOK, ClosedOK
<1>2. /\ n \in Item /\ n.ready /\ n.arg /\ n.pevents = reg[fd]
      /\ ~n.is_updated
  BY <1>1 DEF Zero, Item, Mask
<1>3. PICK e \in {FD_IN, FD_OUT} : fd_epoll_add_event(n, fd, e)
  BY DEF Connect
<1>4. /\ open' = open \union {fd} /\ spoilt' = spoilt \ {fd}
      /\ mapped' \in SUBSET Fd /\ reg' = reg /\ phase' = phase /\ phase = "run"
  BY DEF Connect, Users, IInv, TypeOK
<1>5. e \in Mask /\ spoilt' \in SUBSET Fd
  BY <1>4 DEF Mask, IInv, TypeOK
<1> HIDE DEF n
<1> QED  BY <1>1, <1>2, <1>3, <1>4, <1>5, AddEventInv

LEMMA AskInv ==
  ASSUME IInv, NEW fd \in Fd, Ask(fd) PROVE IInv'
<1>1. fd \in open /\ item[fd] \in Item /\ OpenOK(fd) /\ ItemOK(fd)
  BY DEF IInv, Ask, TypeOK, FdOK
<1>2. PICK e \in Mask : fd_epoll_add_event(item[fd], fd, e)
  BY DEF Ask
<1>3. /\ open' = open \union {fd} /\ spoilt' = spoilt /\ spoilt' \in SUBSET Fd
      /\ mapped' \in SUBSET Fd /\ reg' = reg /\ phase' = phase /\ phase = "run"
  BY <1>1 DEF Ask, Users, IInv, TypeOK
<1>4. /\ item[fd].ready /\ item[fd].arg /\ item[fd].pevents = reg[fd] /\ fd < MaxFd
      /\ fd \notin spoilt' => (item[fd].is_updated => IsListed(fd))
      /\ fd \in spoilt' => item[fd].is_updated /\ ~IsListed(fd)
  BY <1>1, <1>3 DEF OpenOK, ItemOK
<1> QED  BY <1>1, <1>2, <1>3, <1>4, AddEventInv

LEMMA FreeInv ==
  ASSUME IInv, NEW fd \in Fd, conn_free(fd) PROVE IInv'
<1>1. item \in [Fd -> Item] /\ reg \in [Fd -> Mask] /\ open \in SUBSET Fd
  BY DEF IInv, TypeOK
<1>2. /\ item' = [item EXCEPT ![fd] = Zero] /\ reg' = [reg EXCEPT ![fd] = NONE]
      /\ open' = open \ {fd} /\ spoilt' = spoilt \ {fd}
      /\ updates' = updates /\ phase' = phase /\ mapped' = mapped
  BY DEF conn_free
<1>3. TypeOK'
  BY <1>1, <1>2, ZeroItem DEF IInv, TypeOK, Mask
<1>4. ASSUME NEW x \in Fd PROVE FdOK(x)'
  <2>1. CASE x = fd
    <3>1. item'[fd] = Zero /\ reg'[fd] = NONE /\ fd \notin open' /\ fd \notin spoilt'
      BY <1>1, <1>2
    <3> QED  BY <2>1, <3>1, ZeroItem DEF FdOK, ItemOK, ClosedOK
  <2>2. CASE x # fd
    <3>1. /\ item'[x] = item[x] /\ reg'[x] = reg[x] /\ (x \in open' <=> x \in open)
          /\ (x \in spoilt' <=> x \in spoilt) /\ (IsListed(x)' <=> IsListed(x))
      BY <1>1, <1>2, <2>2 DEF IsListed
    <3>2. FdOK(x)
      BY DEF IInv
    <3> QED  BY <3>1, <3>2 DEF FdOK, ItemOK, OpenOK, ClosedOK
  <2> QED  BY <2>1, <2>2
<1> QED  BY <1>2, <1>3, <1>4 DEF IInv

\* What a flush does to each item and to the kernel.
FlushOK(fd) ==
  /\ item'[fd] \in Item /\ reg'[fd] \in Mask
  /\ item'[fd].events = item[fd].events /\ item'[fd].pevents = reg'[fd]
  /\ item'[fd].arg = item[fd].arg /\ item'[fd].ready = item[fd].ready
  /\ fd \in spoilt' => reg'[fd] = reg[fd] /\ item'[fd].is_updated
  /\ fd \notin spoilt' => ~item'[fd].is_updated
  /\ fd \in open /\ fd \notin spoilt' => reg'[fd] = item[fd].events
  /\ fd \notin open => reg'[fd] = reg[fd]

\* The descriptors on which a change may be refused, as EventTable takes them.
Refusable == IF Trapt THEN Fd ELSE MayFail \intersect Fd

LEMMA FlushItems ==
  ASSUME IInv, fd_epoll_flush_events
  PROVE  /\ \A fd \in Fd : FlushOK(fd)
         /\ \E bad \in SUBSET Refusable : spoilt' = spoilt \union bad
<1>1. PICK nomem \in SUBSET (MayFail \intersect Fd) :
        LET refused == nomem \union {fd \in Fd : ~epoll_ctl(fd)}
        IN  /\ item' = [fd \in Fd |-> Flushed(fd, refused)]
            /\ reg' = [fd \in Fd |-> IF Changed(fd) /\ fd \notin refused
                                     THEN item[fd].events ELSE reg[fd]]
            /\ spoilt' = spoilt \union {fd \in refused : Changed(fd)}
  BY DEF fd_epoll_flush_events
<1> DEFINE refused == nomem \union {fd \in Fd : ~epoll_ctl(fd)}
<1>2. /\ \A fd \in Fd : item'[fd] = Flushed(fd, refused)
      /\ \A fd \in Fd : reg'[fd] = IF Changed(fd) /\ fd \notin refused
                                   THEN item[fd].events ELSE reg[fd]
      /\ spoilt' = spoilt \union {fd \in refused : Changed(fd)}
  BY <1>1
<1>3. refused \in SUBSET Fd
  OBVIOUS
<1>4. \A fd \in Fd : fd \notin open => fd \in refused
  BY DEF epoll_ctl
<1>5. \A fd \in Fd : fd \in refused => fd \in nomem \/ ~epoll_ctl(fd)
  OBVIOUS
<1> HIDE DEF refused
<1>6. ASSUME NEW fd \in Fd PROVE FlushOK(fd)
  <2> DEFINE i == item[fd]
             j == item'[fd]
  <2>1. /\ i \in Item /\ reg[fd] \in Mask /\ i.events \in Mask /\ FdOK(fd)
    BY DEF IInv, TypeOK, Item
  <2>2. i.pevents = reg[fd] /\ (i.is_updated => i.arg)
    BY <2>1 DEF FdOK, ItemOK
  <2>3. CASE Changed(fd) /\ fd \notin refused
    <3>1. j = [i EXCEPT !.pevents = i.events, !.is_updated = FALSE]
          /\ reg'[fd] = i.events
      BY <1>2, <2>3 DEF Flushed
    <3>2. /\ j \in Item /\ j.events = i.events /\ j.pevents = i.events
          /\ j.arg = i.arg /\ j.ready = i.ready /\ ~j.is_updated
      BY <2>1, <3>1 DEF Item
    <3>3. fd \in open
      BY <1>4, <2>3
    <3>4. fd \notin spoilt'
      BY <1>2, <2>1, <2>3 DEF Changed, FdOK, ItemOK
    <3> HIDE DEF i, j
    <3> QED  BY <2>1, <3>1, <3>2, <3>3, <3>4 DEF FlushOK, i, j
  <2>4. CASE Changed(fd) /\ fd \in refused
    <3>1. ~Settled(fd)
      BY <2>4 DEF Changed, Settled
    <3>2. j = i /\ reg'[fd] = reg[fd] /\ fd \in spoilt' /\ i.is_updated
      BY <1>2, <2>4, <3>1 DEF Flushed, Changed
    <3> QED  BY <2>1, <2>2, <3>2 DEF FlushOK
  <2>5. CASE ~Changed(fd) /\ Settled(fd)
    <3>1. j = [i EXCEPT !.is_updated = FALSE] /\ reg'[fd] = reg[fd]
      BY <1>2, <2>5 DEF Flushed
    <3>2. /\ j \in Item /\ j.events = i.events /\ j.pevents = i.pevents
          /\ j.arg = i.arg /\ j.ready = i.ready /\ ~j.is_updated
      BY <2>1, <3>1 DEF Item
    <3>3. fd \notin spoilt'
      BY <1>2, <2>1, <2>5 DEF Settled, FdOK, ItemOK
    <3>4. fd \in open => i.events = reg[fd]
      BY <2>1, <2>2, <2>5 DEF Settled, FdOK, OpenOK
    <3> HIDE DEF i, j
    <3> QED  BY <2>1, <2>2, <3>1, <3>2, <3>3, <3>4 DEF FlushOK, i, j
  <2>6. CASE ~Changed(fd) /\ ~Settled(fd)
    <3>1. j = i /\ reg'[fd] = reg[fd] /\ (fd \in spoilt' <=> fd \in spoilt)
      BY <1>2, <2>6 DEF Flushed
    <3>2. ~(IsListed(fd) /\ i.is_updated)
      BY <2>2, <2>6 DEF Changed, Settled
    <3>3. /\ fd \in spoilt => i.is_updated
          /\ fd \notin spoilt => ~i.is_updated
      BY <2>1, <3>2 DEF FdOK, ItemOK
    <3>4. fd \in open /\ fd \notin spoilt => i.events = reg[fd]
      BY <2>1, <2>2, <3>3 DEF FdOK, OpenOK
    <3> QED  BY <2>1, <2>2, <3>1, <3>3, <3>4 DEF FlushOK
  <2> QED  BY <2>3, <2>4, <2>5, <2>6
<1>7. \E bad \in SUBSET Refusable : spoilt' = spoilt \union bad
  <2>1. ASSUME NEW fd \in refused, Changed(fd) PROVE fd \in Refusable
    <3>1. fd \in Fd /\ FdOK(fd) /\ item[fd].arg
      BY <1>3, <2>1 DEF IInv, Changed
    <3>2. CASE Trapt
      BY <3>1, <3>2 DEF Refusable
    <3>3. CASE ~Trapt
      <4>1. fd \in open /\ item[fd].pevents = reg[fd]
        BY <3>1, <3>3 DEF FdOK, ClosedOK, ItemOK
      <4>2. epoll_ctl(fd)
        BY <4>1 DEF epoll_ctl
      <4> QED  BY <1>5, <3>1, <3>3, <4>2 DEF Refusable
    <3> QED  BY <3>2, <3>3
  <2>2. {fd \in refused : Changed(fd)} \in SUBSET Refusable
    BY <2>1
  <2> QED  BY <1>2, <2>2, Zenon
<1> QED  BY <1>6, <1>7

LEMMA FlushInv ==
  ASSUME IInv, fd_epoll_flush_events PROVE IInv'
<1>1. /\ open' = open /\ mapped' = mapped /\ updates' = <<>> /\ phase' = "wait"
  BY DEF fd_epoll_flush_events
<1>2. /\ \A fd \in Fd : FlushOK(fd)
      /\ \E bad \in SUBSET Refusable : spoilt' = spoilt \union bad
  BY FlushItems
<1>3. spoilt' \in SUBSET Fd
  BY <1>2 DEF IInv, TypeOK, Refusable
<1>4. item' \in [Fd -> Item] /\ reg' \in [Fd -> Mask]
  <2>1. \A fd \in Fd : item'[fd] \in Item /\ reg'[fd] \in Mask
    BY <1>2 DEF FlushOK
  <2> QED  BY <2>1 DEF fd_epoll_flush_events
<1>5. TypeOK'
  BY <1>1, <1>3, <1>4 DEF IInv, TypeOK
<1>6. ASSUME NEW x \in Fd PROVE FdOK(x)'
  <2>1. FlushOK(x) /\ FdOK(x)
    BY <1>2 DEF IInv
  <2>2. ~IsListed(x)'
    BY <1>1 DEF IsListed
  <2>3. ItemOK(x)'
    <3>1. item[x].is_updated => item[x].arg
      BY <2>1 DEF FdOK, ItemOK
    <3>2. item'[x].is_updated => item'[x].arg
      <4>1. CASE x \in spoilt
        BY <2>1, <3>1, <4>1 DEF FlushOK, FdOK, ItemOK
      <4>2. CASE x \notin spoilt /\ x \in spoilt'
        <5>1. Changed(x)
          BY <4>2 DEF fd_epoll_flush_events
        <5> QED  BY <2>1, <5>1 DEF FlushOK, Changed
      <4>3. CASE x \notin spoilt'
        BY <2>1, <4>3 DEF FlushOK
      <4> QED  BY <4>1, <4>2, <4>3
    <3> QED  BY <2>1, <2>2, <3>2 DEF FlushOK, ItemOK
  <2>4. CASE x \in open
    <3>1. OpenOK(x)
      BY <2>1, <2>4 DEF FdOK
    <3>2. item'[x].events # item'[x].pevents => item'[x].is_updated
      BY <2>1, <2>4 DEF FlushOK
    <3>3. OpenOK(x)'
      BY <2>1, <3>1, <3>2 DEF FlushOK, OpenOK
    <3> QED  BY <1>1, <2>3, <2>4, <3>3 DEF FdOK
  <2>5. CASE x \notin open
    <3>1. ClosedOK(x)'
      BY <2>1, <2>5 DEF FlushOK, FdOK, ClosedOK
    <3> QED  BY <1>1, <2>3, <2>5, <3>1 DEF FdOK
  <2> QED  BY <2>4, <2>5
<1> QED  BY <1>1, <1>5, <1>6 DEF IInv

LEMMA OtherInv ==
  ASSUME IInv, fd_epoll_poll \/ UNCHANGED vars \/ (\E fd \in Fd : AcceptBeyond(fd))
  PROVE  IInv'
<1>1. UNCHANGED <<item, updates, open, reg, spoilt>> /\ mapped' \in SUBSET Fd
      /\ (phase' = phase \/ phase' \in {"run", "down"})
  BY DEF fd_epoll_poll, vars, AcceptBeyond, IInv, TypeOK
<1>2. TypeOK'
  BY <1>1 DEF IInv, TypeOK
<1>3. ASSUME NEW x \in Fd PROVE FdOK(x)'
  BY <1>1 DEF IInv, FdOK, ItemOK, OpenOK, ClosedOK, IsListed
<1> QED  BY <1>1, <1>2, <1>3 DEF IInv

LEMMA NextCases ==
  ASSUME [Next]_vars
  PROVE  \/ fd_epoll_flush_events
         \/ fd_epoll_poll \/ UNCHANGED vars \/ \E fd \in Fd : AcceptBeyond(fd)
         \/ \E fd \in Fd : Accept(fd) \/ AcceptFails(fd)
         \/ \E fd \in Fd : Connect(fd)
         \/ \E fd \in Fd : Ask(fd)
         \/ \E fd \in Fd : conn_free(fd)
  BY Zenon DEF Next, Down

LEMMA InitInv == Init => IInv
<1> SUFFICES ASSUME Init PROVE IInv
  OBVIOUS
<1>1. TypeOK
  BY ZeroItem DEF Init, TypeOK, Mask
<1>2. ASSUME NEW fd \in Fd PROVE FdOK(fd)
  <2>1. item[fd] = Zero /\ reg[fd] = NONE /\ open = {} /\ spoilt = {}
    BY DEF Init
  <2> QED  BY <2>1, ZeroItem DEF FdOK, ItemOK, ClosedOK
<1> QED  BY <1>1, <1>2 DEF Init, IInv

\* The inductive invariant of the table: in every mode and whatever calls fail,
\* a marked item is listed or spoilt, and pevents is what the kernel has.
THEOREM TableInv == Spec => []IInv
<1>1. IInv /\ [Next]_vars => IInv'
  BY NextCases, FlushInv, OtherInv, AcceptInv, ConnectInv, AskInv, FreeInv, Zenon
<1> QED  BY <1>1, InitInv, PTL DEF Spec

\* Every item, the update array and the kernel's registrations keep their types.
THEOREM TypeCorrect == Spec => []TypeOK
<1>1. IInv => TypeOK
  BY DEF IInv
<1> QED  BY <1>1, TableInv, PTL

\* pevents of an open socket is what the kernel has, so that flush chooses the
\* right one of ADD, MOD and DEL.
THEOREM PeventsCorrect == Spec => []PeventsExact
<1>1. IInv => PeventsExact
  BY DEF IInv, TypeOK, FdOK, ItemOK, PeventsExact
<1> QED  BY <1>1, TableInv, PTL

\* A change that is not in the kernel yet is listed for the next flush.
THEOREM ChangeCorrect == Spec => []ChangeListed
<1>1. IInv => ChangeListed
  BY DEF IInv, TypeOK, FdOK, ItemOK, OpenOK, ChangeListed
<1> QED  BY <1>1, TableInv, PTL

\* While the worker is in epoll_wait, the kernel watches every open socket for
\* the events its handlers asked for last, unless a call failed on it: the table
\* itself loses no wake-up.
THEOREM SyncedCorrect == Spec => []Synced
<1>1. IInv => Synced
  <2> SUFFICES ASSUME IInv, phase = "wait", NEW fd \in open \ spoilt
               PROVE  reg[fd] = item[fd].events
    BY DEF Synced
  <2>1. updates = <<>> /\ fd \in Fd
    BY DEF IInv, TypeOK
  <2>2. ~IsListed(fd)
    BY <2>1 DEF IsListed
  <2>3. OpenOK(fd) /\ ItemOK(fd)
    BY <2>1 DEF IInv, FdOK
  <2> QED  BY <2>2, <2>3 DEF ItemOK, OpenOK
<1> QED  BY <1>1, TableInv, PTL

\* A step of the table is a step of the abstract one, or leaves it alone.
LEMMA TableStep ==
  ASSUME IInv, [Next]_vars
  PROVE  [T!TableNext]_(T!evars)
<1> DEFINE want == [fd \in Fd |-> IF fd \in open THEN item[fd].events ELSE NONE]
<1>0. item \in [Fd -> Item] /\ reg \in [Fd -> Mask] /\ open \in SUBSET Fd
  BY DEF IInv, TypeOK
<1>1. CASE fd_epoll_flush_events
  <2>0. open' = open
    BY <1>1 DEF fd_epoll_flush_events
  <2>1. /\ \A fd \in Fd : FlushOK(fd)
        /\ \E bad \in SUBSET Refusable : spoilt' = spoilt \union bad
    BY <1>1, FlushItems
  <2>2. want' = want
    BY <2>0, <2>1 DEF FlushOK
  <2>3. ASSUME NEW fd \in Fd
        PROVE  reg'[fd] = IF fd \in spoilt' THEN reg[fd] ELSE want[fd]
    <3>1. CASE fd \in open
      BY <2>1, <3>1 DEF FlushOK
    <3>2. CASE fd \notin open
      <4>1. reg[fd] = NONE
        BY <3>2 DEF IInv, FdOK, ClosedOK
      <4> QED  BY <2>1, <3>2, <4>1 DEF FlushOK
    <3> QED  BY <3>1, <3>2
  <2>4. reg' = [fd \in Fd |-> reg'[fd]]
    BY <1>1 DEF fd_epoll_flush_events
  <2>5. reg' = [fd \in Fd |-> IF fd \in spoilt' THEN reg[fd] ELSE want[fd]]
    BY <2>3, <2>4
  <2> HIDE DEF want
  <2>6. T!Flush
    BY <2>0, <2>1, <2>2, <2>5 DEF T!Flush, want, Refusable
  <2> QED  BY <2>6 DEF T!TableNext
<1>2. CASE fd_epoll_poll \/ UNCHANGED vars \/ \E fd \in Fd : AcceptBeyond(fd)
  <2>1. UNCHANGED <<item, open, reg, spoilt>>
    BY <1>2 DEF fd_epoll_poll, vars, AcceptBeyond
  <2> QED  BY <2>1 DEF T!evars
<1>3. ASSUME NEW fd \in Fd, Accept(fd) \/ Connect(fd)
      PROVE  T!TableNext
  <2>1. PICK i \in Item, e \in Mask : fd_epoll_add_event(i, fd, e)
    BY <1>0, <1>3, ZeroItem, NewItem DEF Accept, Connect, Mask
  <2>2. /\ fd \notin open /\ open' = open \union {fd} /\ reg' = reg
        /\ spoilt' \in {spoilt, spoilt \ {fd}}
    BY <1>3 DEF Accept, Connect, Free
  <2>3. item' = [item EXCEPT ![fd] = Asked(i, e)] /\ Asked(i, e).events = e
    BY <2>1, AskedItem DEF fd_epoll_add_event
  <2>4. want' = [want EXCEPT ![fd] = e]
    BY <1>0, <2>2, <2>3
  <2> HIDE DEF want
  <2>5. T!Opened(fd)
    BY <2>2, <2>4 DEF T!Opened, want
  <2> QED  BY <2>5 DEF T!TableNext
<1>4. ASSUME NEW fd \in Fd, Ask(fd)
      PROVE  T!TableNext
  <2>1. PICK e \in Mask : fd_epoll_add_event(item[fd], fd, e)
    BY <1>4 DEF Ask
  <2>2. /\ fd \in open /\ open' = open /\ reg' = reg /\ spoilt' = spoilt
    BY <1>4 DEF Ask
  <2>3. item' = [item EXCEPT ![fd] = Asked(item[fd], e)]
        /\ Asked(item[fd], e).events = e
    BY <1>0, <2>1, AskedItem DEF fd_epoll_add_event
  <2>4. want' = [want EXCEPT ![fd] = e]
    BY <1>0, <2>2, <2>3
  <2> HIDE DEF want
  <2>5. T!Ask(fd)
    BY <2>2, <2>4 DEF T!Ask, want
  <2> QED  BY <2>5 DEF T!TableNext
<1>5. ASSUME NEW fd \in Fd, conn_free(fd)
      PROVE  T!TableNext
  <2>1. /\ fd \in open /\ open' = open \ {fd} /\ spoilt' = spoilt \ {fd}
        /\ item' = [item EXCEPT ![fd] = Zero]
        /\ reg' = [reg EXCEPT ![fd] = NONE]
    BY <1>5 DEF conn_free
  <2>2. want' = [want EXCEPT ![fd] = NONE]
    BY <1>0, <2>1
  <2> HIDE DEF want
  <2>3. T!Closed(fd)
    BY <2>1, <2>2 DEF T!Closed, want
  <2> QED  BY <2>3 DEF T!TableNext
<1>6. ASSUME NEW fd \in Fd, AcceptFails(fd)
      PROVE  UNCHANGED T!evars
  <2>1. /\ fd \notin open /\ open' = open /\ reg' = reg /\ spoilt' = spoilt
        /\ \E v : item' = [item EXCEPT ![fd] = v]
    BY <1>6 DEF AcceptFails, Free, fd_epoll_add_event
  <2>2. \A x \in Fd : x # fd => item'[x] = item[x]
    BY <1>0, <2>1
  <2>3. want' = want
    BY <1>0, <2>1, <2>2
  <2> HIDE DEF want
  <2> QED  BY <2>1, <2>3 DEF T!evars, want
<1> QED  BY <1>1, <1>2, <1>3, <1>4, <1>5, <1>6, NextCases

\* The event table implements EventTable: Session may use the abstract one.
THEOREM TableCorrect == Spec => ImplementsTable
<1>1. Init => T!TableInit
  BY DEF Init, T!TableInit
<1>2. IInv /\ [Next]_vars => [T!TableNext]_(T!evars)
  BY TableStep
<1> QED  BY <1>1, <1>2, TableInv, PTL DEF Spec, ImplementsTable, T!TableSpec
=============================================================================
