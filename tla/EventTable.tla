----------------------------- MODULE EventTable ----------------------------
(***************************************************************************)
(* What fd_epoll promises its users, and what the module Session takes for *)
(* granted: a socket is watched for the events last asked for, from the    *)
(* next flush on, and not at all when it is closed.  Where the kernel      *)
(* refuses a change the descriptor is lost: it is watched for what it was  *)
(* watched for before, until it is closed or opened afresh.                *)
(***************************************************************************)
CONSTANTS
  Fd, Mask,
  None,     \* the mask that asks for nothing
  Faulty    \* the descriptors on which a change may be refused

VARIABLES
  open,     \* the sockets that are open and handed to fd_epoll
  want,     \* want[fd]: the events last asked for
  watched,  \* watched[fd]: the events the kernel reports
  lost      \* the descriptors on which a change was refused

evars == <<open, want, watched, lost>>

TableInit ==
  /\ open = {} /\ lost = {}
  /\ want = [fd \in Fd |-> None]
  /\ watched = [fd \in Fd |-> None]

Opened(fd) ==
  /\ fd \notin open
  /\ open' = open \union {fd}
  /\ \E e \in Mask : want' = [want EXCEPT ![fd] = e]
  /\ lost' \in {lost, lost \ {fd}}
  /\ UNCHANGED watched

Ask(fd) ==
  /\ fd \in open
  /\ \E e \in Mask : want' = [want EXCEPT ![fd] = e]
  /\ UNCHANGED <<open, watched, lost>>

Closed(fd) ==
  /\ fd \in open
  /\ open' = open \ {fd}
  /\ want' = [want EXCEPT ![fd] = None]
  /\ watched' = [watched EXCEPT ![fd] = None]
  /\ lost' = lost \ {fd}

Flush ==
  /\ \E bad \in SUBSET Faulty : lost' = lost \union bad
  /\ watched' = [fd \in Fd |-> IF fd \in lost' THEN watched[fd] ELSE want[fd]]
  /\ UNCHANGED <<open, want>>

TableNext == Flush \/ \E fd \in Fd : Opened(fd) \/ Ask(fd) \/ Closed(fd)

TableSpec == TableInit /\ [][TableNext]_evars
=============================================================================
