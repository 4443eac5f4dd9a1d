------------------------------ MODULE FdEpoll ------------------------------
(***************************************************************************)
(* The event table of one worker: an item for every socket with the events *)
(* asked for and the events in epoll, and the array of sockets whose item  *)
(* has to be flushed.  The users are the accept, connect and delete paths  *)
(* of listener.c and session.c, in the order of _worker_loop: callbacks    *)
(* and tasks, then one flush, then epoll_wait.  Socket numbers are used    *)
(* again as soon as they are closed.                                       *)
(***************************************************************************)
EXTENDS Integers, Sequences

CONSTANTS
  MaxFd,      \* maxfd: length of the array maps
  Limit,      \* the kernel opens descriptors below this number
  MaxUpdate,  \* bound: entries in the array updates between two flushes
  Trapt,      \* TRUE: the policy's mode is PL_MODE_TRAPT
  MayFail     \* the descriptors on which epoll_ctl may run out of memory

ASSUME FdEpollAssumption ==
  /\ MaxFd \in Nat \ {0} /\ Limit \in Nat \ {0} /\ MaxUpdate \in Nat
  /\ Trapt \in BOOLEAN /\ MayFail \in SUBSET Nat

Fd     == 1..(Limit - 1)
NONE   == 0
FD_IN  == 1
FD_OUT == 4
Mask   == {NONE, FD_IN, FD_OUT}

VARIABLES
  item,       \* maps
  updates,    \* the first nupdate entries of updates
  open,       \* the descriptors that are open
  reg,        \* reg[fd]: the events epoll watches fd for
  phase,      \* "run": callbacks and tasks; "wait": in epoll_wait; "down"
  mapped,     \* the indexes for which fd_epoll_map returned an item
  spoilt      \* history: the numbers on which an epoll_ctl failed since
              \* their item was cleared last

vars == <<item, updates, open, reg, phase, mapped, spoilt>>

Zero == [events |-> NONE, pevents |-> NONE, ready |-> FALSE, arg |-> FALSE,
         is_updated |-> FALSE]

\* fd_epoll_map: NULL above maxfd.
fd_epoll_map(fd) == fd <= MaxFd

\* fd_epoll_add_event refuses what is not in the array.
InTable(fd) == fd < MaxFd

-----------------------------------------------------------------------------
(* fd_epoll_add_event on the item i of fd, for a descriptor in the table.  *)

Asked(i, e) == [i EXCEPT !.events = e, !.is_updated = TRUE]

\* Variant: an item that already asks for something is taken for listed.
Listed_IfAsked(i, fd) ==
  IF i.is_updated \/ i.events # NONE THEN updates ELSE Append(updates, fd)

Listed(i, fd) == IF i.is_updated THEN updates ELSE Append(updates, fd)

fd_epoll_add_event(i, fd, e) ==
  /\ item' = [item EXCEPT ![fd] = Asked(i, e)]
  /\ updates' = Listed(i, fd)

Free == {fd \in Fd : fd \notin open}

Users == phase = "run" /\ Len(updates) < MaxUpdate

-----------------------------------------------------------------------------

\* _ltn_accept: the item of the new socket is used as it is found.
Accept(fd) ==
  /\ Users /\ fd \in Free /\ InTable(fd)
  /\ fd_epoll_add_event([item[fd] EXCEPT !.ready = TRUE, !.arg = TRUE], fd, FD_IN)
  /\ open' = open \union {fd}
  /\ mapped' = mapped \union {fd}
  /\ UNCHANGED <<reg, phase, spoilt>>

\* In TRAPT mode the original address may not be found: the socket is closed
\* after it was added.
AcceptFails(fd) ==
  /\ Trapt
  /\ Users /\ fd \in Free /\ InTable(fd)
  /\ fd_epoll_add_event([item[fd] EXCEPT !.ready = TRUE, !.arg = TRUE], fd, FD_IN)
  /\ mapped' = mapped \union {fd}
  /\ UNCHANGED <<open, reg, phase, spoilt>>

\* A descriptor beyond the table: the item is written, then add_event fails and
\* the socket is closed; without an item assert(fi) ends the process.
AcceptBeyond(fd) ==
  /\ Users /\ fd \in Free /\ ~InTable(fd)
  /\ IF fd_epoll_map(fd) THEN mapped' = mapped \union {fd} /\ UNCHANGED phase
     ELSE phase' = "down" /\ UNCHANGED mapped
  /\ UNCHANGED <<item, updates, open, reg, spoilt>>

\* session_forward and _worker_add_policy clear the item first.
Connect(fd) ==
  /\ Users /\ fd \in Free /\ InTable(fd)
  /\ \E e \in {FD_IN, FD_OUT} :
       fd_epoll_add_event([Zero EXCEPT !.ready = TRUE, !.arg = TRUE], fd, e)
  /\ open' = open \union {fd}
  /\ mapped' = mapped \union {fd}
  /\ spoilt' = spoilt \ {fd}
  /\ UNCHANGED <<reg, phase>>

\* A handler asks for other events.
Ask(fd) ==
  /\ Users /\ fd \in open
  /\ \E e \in Mask : fd_epoll_add_event(item[fd], fd, e)
  /\ UNCHANGED <<open, reg, phase, mapped, spoilt>>

\* conn_free: the item is cleared but stays listed; the kernel forgets a closed
\* descriptor.
conn_free(fd) ==
  /\ phase = "run" /\ fd \in open
  /\ item' = [item EXCEPT ![fd] = Zero]
  /\ open' = open \ {fd}
  /\ reg' = [reg EXCEPT ![fd] = NONE]
  /\ spoilt' = spoilt \ {fd}
  /\ UNCHANGED <<updates, phase, mapped>>

\* What epoll_ctl needs: an open descriptor, registered unless it is to be added.
epoll_ctl(fd) == fd \in open /\ (item[fd].pevents = NONE <=> reg[fd] = NONE)

IsListed(fd) == \E n \in 1..Len(updates) : updates[n] = fd

\* The listed item has a change for the kernel.
Changed(fd) ==
  LET i == item[fd]
  IN  IsListed(fd) /\ i.arg /\ i.is_updated /\ i.ready /\ i.events # i.pevents

\* The listed item needs no call.
Settled(fd) ==
  LET i == item[fd]
  IN  IsListed(fd) /\ i.arg /\ (~i.ready \/ i.events = i.pevents)

\* Variant: the array is emptied but the flags stay.
Flushed_KeepFlag(fd, refused) ==
  IF Changed(fd) /\ fd \notin refused
  THEN [item[fd] EXCEPT !.pevents = item[fd].events] ELSE item[fd]

\* Variant: pevents is set before the result of epoll_ctl is looked at.
Flushed_Early(fd, refused) ==
  IF Changed(fd)
  THEN [item[fd] EXCEPT !.pevents = item[fd].events,
                        !.is_updated = fd \in refused]
  ELSE IF Settled(fd) THEN [item[fd] EXCEPT !.is_updated = FALSE]
  ELSE item[fd]

\* The item after the loop.  A second entry for the same descriptor finds
\* is_updated cleared, so the order of the entries does not matter.
Flushed(fd, refused) ==
  IF Changed(fd) /\ fd \notin refused
  THEN [item[fd] EXCEPT !.pevents = item[fd].events, !.is_updated = FALSE]
  ELSE IF Settled(fd) THEN [item[fd] EXCEPT !.is_updated = FALSE]
  ELSE item[fd]

\* A call that fails leaves is_updated set, but the array is emptied.
fd_epoll_flush_events ==
  /\ phase = "run"
  /\ \E nomem \in SUBSET (MayFail \intersect Fd) :
       LET refused == nomem \union {fd \in Fd : ~epoll_ctl(fd)}
       IN  /\ item' = [fd \in Fd |-> Flushed(fd, refused)]
           /\ reg' = [fd \in Fd |-> IF Changed(fd) /\ fd \notin refused
                                    THEN item[fd].events ELSE reg[fd]]
           /\ spoilt' = spoilt \union {fd \in refused : Changed(fd)}
  /\ updates' = <<>>
  /\ phase' = "wait"
  /\ UNCHANGED <<open, mapped>>

\* epoll_wait returns; the callbacks of ready sockets run.
fd_epoll_poll ==
  /\ phase = "wait" /\ phase' = "run"
  /\ UNCHANGED <<item, updates, open, reg, mapped, spoilt>>

\* The process was ended by an assertion.
Down == phase = "down" /\ UNCHANGED vars

Init ==
  /\ item = [fd \in Fd |-> Zero]
  /\ updates = <<>>
  /\ open = {}
  /\ reg = [fd \in Fd |-> NONE]
  /\ phase = "run"
  /\ mapped = {}
  /\ spoilt = {}

Next ==
  \/ fd_epoll_flush_events \/ fd_epoll_poll \/ Down
  \/ \E fd \in Fd : \/ Accept(fd) \/ AcceptFails(fd) \/ AcceptBeyond(fd)
                    \/ Connect(fd) \/ Ask(fd) \/ conn_free(fd)

Spec == Init /\ [][Next]_vars

-----------------------------------------------------------------------------
(* Properties.                                                             *)

Item == [events : Mask, pevents : Mask, ready : BOOLEAN, arg : BOOLEAN,
         is_updated : BOOLEAN]

\* Every item, the update array and the kernel's registrations have their types.
TypeOK ==
  /\ item \in [Fd -> Item]
  /\ updates \in Seq(Fd)
  /\ open \in SUBSET Fd
  /\ reg \in [Fd -> Mask]
  /\ phase \in {"run", "wait", "down"}
  /\ mapped \in SUBSET Fd
  /\ spoilt \in SUBSET Fd

\* When the worker waits, epoll watches each open socket for exactly what its
\* handlers asked for last, however often its number was used before, unless an
\* epoll_ctl failed on that number.
Synced ==
  phase = "wait" => \A fd \in open \ spoilt : reg[fd] = item[fd].events

\* pevents, from which flush chooses ADD, MOD or DEL, is what the kernel has,
\* also after calls that failed and numbers that were closed while listed.
PeventsExact == \A fd \in open : item[fd].pevents = reg[fd]

\* A change that is not in the kernel yet is listed for the next flush, unless
\* an epoll_ctl failed on that number.
ChangeListed ==
  \A fd \in open \ spoilt :
    item[fd].events # item[fd].pevents => item[fd].is_updated /\ IsListed(fd)

T == INSTANCE EventTable WITH
       None <- NONE, watched <- reg, lost <- spoilt,
       Faulty <- IF Trapt THEN Fd ELSE MayFail \intersect Fd,
       want <- [fd \in Fd |-> IF fd \in open THEN item[fd].events ELSE NONE]

\* The table implements the abstract one that Session relies on.
ImplementsTable == T!TableSpec

\* fd_epoll_map returns an item of the array, or NULL.
MapInTable == mapped \subseteq 0..(MaxFd - 1)

\* The change of an open socket goes into the kernel with the next flush.
OpenNotLost == open \intersect spoilt = {}
=============================================================================
