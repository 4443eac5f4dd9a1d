# The fzsvn proxies: a verification project

The repository's network programs are a family of TCP proxies that grew out of each
other. This project models:

- `tproxyd` (`proxy/tproxy` and `proxy/utils`), the multi-threaded TCP/SSL proxy:
  it accepts clients on the listeners of its policies, chooses a server of the
  policy's pool, connects to it and relays the two byte streams;
- the thread proxy (`socket/proxy/pthread`): an accept thread hands clients to work
  threads, which relay by copying, by `splice` or by a device of their own;
- the process proxies `proxy/pproxy` and `socket/proxy/mprocess`: a main process with
  children that it stops by signals;
- the object pool (`code/basic/datastruct/objpool.c`) that all of them allocate from.

Paths below are relative to `src/code/network` unless they begin with `code`; those
that begin with `utils` or `tproxy`, and file names of tproxyd alone, are under `proxy`. The
rest of the repository (samples, kernel exercises, boot and management projects,
superseded proxies) is independent of these; section 5 says why it is left out.

## 1. Inventory

| part | state it keeps | operations |
|---|---|---|
| session engine (`utils/connection.c`, `session.c`, `task.h`, `packet.h`) | two connections with flags and packet queues, request and response queues, `nalloced`, two tasks, the worker's task queue | `conn_recv_data`, `conn_send_data`, `conn_handshake`, `conn_shutdown`, `session_run_task` (parse, send, delete), `session_forward`, `session_free` |
| event table (`utils/fd_epoll.c`) | an item per descriptor (asked events, registered events, callback, `is_updated`), the update array | `fd_epoll_add_event`, `fd_epoll_flush_events`, `fd_epoll_poll` |
| listener (`utils/listener.c`) | configuration, running data, per worker a `listener_fd` with its sessions | `_ltn_accept`, `listener_alloc_fd`, `listener_free_fd` |
| server pool (`utils/svrpool.c`) | `svrpool_data` (`rrpos`, `gcd`, reference count), `server_data` and `server` with counts | allocation, clone, free, the reverse and the transparent selection |
| policy (`utils/policy.c`) | listener, pool, running data, reference count | clone, free, `policy_clone_ltndata`, `policy_clone_spdata` |
| worker (`tproxy/worker.c`) | `worker_t`, command list with lock, listeners | `worker_run`, `_worker_loop`, `worker_add_cmd`, `_worker_free` |
| daemon (`tproxy/main.c`, `proxy.c`, `utils/thread.c`) | `g_stop`, lists of policies, listeners, pools, certsets, threads | `proxy_main`, `_py_loop`, `_sig_int`, `proxy_free` |
| configuration (`utils/proxy_config.c`, `certset.c`) | the section being parsed and the lists it fills | `cfg_load_file` and one parser per section |
| object pool (`objpool.c`) | caches of nodes, a free list linked through `next` and `pprev`, `nalloced`, `nfreed`, `nused`, the lock | `objpool_get`, `objpool_put`, `_op_alloc_cache`, `_op_free_cache` |
| thread proxy (`socket/proxy/pthread/*.c`, `socket/proxy/utils/session.c`) | `g_proxy` with `stop`, `nlive` and the threads; per work thread two queues of clients, a session table, two epolls, `nblocked` | `_accept_client`, `work_add_session`, `_work_get_session`, `_work_send_data`, `_work_recv_data`, `_work_free_session`, `_sig_int`, `thread_join` |
| process proxy worker (`proxy/pproxy/worker.c`, `fd_epoll.c`, `task.h`) | sessions with four packet queues and two tasks, the event table with `FD_STOP`, the task queue, `nlive` | `_worker_accept_client`, `_worker_handshake`, `_worker_recv_data`, `_worker_send_data`, `_worker_run_task`, `_worker_free_session` |
| process proxy main (`pproxy` and `mprocess`: `main.c`, `childproc.c`, `proxy.c`) | pids of the children, stop flags | `cproc_create`, `cproc_destroy`, `_sig_stop`, `_sig_int`, `proxy_main` |

**Interaction.** The main thread loads the configuration, allocates the running
data, creates the workers and hands every policy to every worker as a command
(shared memory, one mutex per worker). Each worker runs its own event loop:
flush the event table, `epoll_wait`, callbacks, then the task queue. Sessions
belong to one worker; policies, listener data and pool data are shared by all
workers and protected only by reference counts with atomic additions. A count
starts at 0 for the first owner, a clone adds one and the free that finds 0
releases.

In the thread proxy the accept thread puts a client into the queue of a work thread
(a mutex per queue) and counts it in `nlive` afterwards, without a lock; the work
thread swaps queues, and takes the session off `nlive` when it ends. In the process
proxies nothing is shared but signals. The object pool is called from several
threads under its own lock.

**What is hard here.** Inside a worker nothing runs concurrently, but events of
one `epoll_wait` are handled after earlier ones of the same batch changed the
session; data, FIN, reset, blocked sends, SSL handshakes that wait and tasks meet
in any order; descriptor numbers are reused while the update array still names
them. Between threads: commands race with the end of a worker, counts are
manipulated without locks, SIGINT may arrive in any phase, threads, listeners and
allocations fail one at a time. The `hazards` of `PROJECT.json` name each place
by its line.

**What makes each part correct.**

- *Session*: packets are counted exactly and all returned; a task is linked once;
  an event finds what it refers to; the streams are relayed in order and without
  gaps; the end of a stream follows its data; nothing is read while the other
  side cannot be written; a live session can be woken up, and ends.
- *Event table*: the kernel watches what was asked for last, whatever happened to
  the descriptor number before.
- *Pool*: the counts are the numbers of holders; nothing that is held is freed;
  everything is freed in the end; shares are balanced.
- *Daemon*: policies outlive their uses; every worker gets every policy; a stop
  request ends the process.
- *Object pool*: the free list is whole after every operation, a counter may be
  trusted for its head, an object has one holder and lives as long as it is held,
  idle memory goes back, the lock is released on every path.
- *Thread proxy*: never more than `max` sessions, one owner per descriptor, an id for
  everyone who was let in, every client served or closed, a stop ends all threads;
  bytes in order, and nobody waits in an epoll that is not looked at.
- *Process proxies*: a session and its packets go back once although two tasks may
  delete it; no event is served for a stopped descriptor; no child is left behind.
- *Configuration*: what is accepted is complete and unambiguous, and what was
  loaded is freed once.

## 2. Modules

| module | models | state |
|---|---|---|
| `Session` | one worker with one session slot, used by several clients one after the other | `w`, the worker's memory as a record; `k`, `sndq`, the kernel's sockets; `pev`, what epoll watches; `phase`, `batch`, the loop; `sent`, `hung`, `wrote`, `nsess`, what the remote programs did |
| `Relay` | abstract: what a session promises the two programs | bytes sent and delivered, hang-ups, ended streams |
| `FdEpoll` | the event table and its users | `item`, `updates`, the open descriptors, `reg` of the kernel |
| `EventTable` | abstract: what the event table promises; `Session` relies on it by flushing `ev` to `pev` | asked and watched events |
| `SvrPool` | the shared running data of one pool, workers in `session_get_server`, main thread at start and stop | counters, what is allocated, each session's position in the lock-free steps |
| `Daemon` | main thread, signal and workers from start to exit | program counters, `priv`, `worker_t`, lock, command lists, listeners, sessions, policy counts |
| `Config` | the load of one configuration file and `proxy_free` | section, four lists of objects, status |
| `ObjPool` | the object pool under any number of threads | `node_list`, `next`, `pprev`, caches, counters, lock, what each thread is doing, `out` |
| `ObjectPool` | abstract: an allocator whose objects have one holder | the objects held, the memory there is |
| `ThreadProxy` | main, accept and work threads of the thread proxy | thread states, `stop`, `nlive`, the accept thread's place, queues, session tables, descriptors |
| `ThreadWork` | the relaying of one work thread | sessions with queues and flags, `nblocked`, the two epolls as sets, the mode |
| `ProcWork` | one worker process of pproxy | the session with its two items and tasks, the task queue, the batch, `nlive` |
| `ProcMain` | main process and children of pproxy and mprocess | main's place, `_g_workers`, the process table, stop flags |
| `MC*` | instances for TLC | |
| `SessionProofs`, `FdEpollProofs`, `SvrPoolProofs` (with `Config`), `ObjPoolProofs`, `DaemonProofs`, `ThreadProxyProofs`, `ThreadWorkProofs`, `ProcWorkProofs` (with `ProcMain`) | theorems and proofs | |

### Session

A handler is an operator from the worker's memory to the worker's memory
(`conn_recv_data(s, c, o)`, `conn_send_data(...)`, `session_run_task` as
`TaskParse`, `TaskSend`, `TaskDelete`), applied by one action per callback or
task. The outcome of a system call is a parameter: how many bytes a receive or a
send takes, whether it would block, failed or met the end. `Called` and `Ran` are
the loop around them: the callbacks of a batch in order, then the task queue until
it is empty, then the flush. Bytes are numbers in the order they were sent, packets hold
`PktMax` of them, a socket's send buffer `SndBuf`.

The memory of a deleted session is handed to the next client as it is, because
`objpool_put` clears nothing and `session_init` does not set `nalloced`; the task
queue of the worker outlives the session too: that is why runs have two sessions.

The remote programs (`Environment`) send, hang up, read, reset and answer a
connect at any moment between two steps of the worker.

### FdEpoll

The users of the table are the paths of `listener.c` and `session.c` that call it:
`Accept` (also `AcceptFails`, TRAPT's failure after the socket was listed, and
`AcceptBeyond`, a descriptor the table refuses, which trips the assertion in
`_ltn_accept`), `Connect`, `Ask` for a re-arm, `conn_free`. The kernel gives out any
closed number again. `epoll_ctl` may fail for the descriptors in `MayFail`, and fails for
one that an accept closed behind the table's back; `spoilt` are the descriptors whose
change was lost that way, about which `Synced` and `EventTable` promise nothing until they
are closed. `mapped` records what `fd_epoll_map` returned.

### SvrPool

A worker takes a server in five atomic steps: it reads the pool's pointer, counts
it, draws a position, counts the `server_data`, gives the pool back. Workers
interleave between any two. `Wrap` and `Rem` are C's int addition and remainder.
A server index outside the array ends the process. The main thread frees the data
after all workers were joined (`policy_free_data` waits for their sessions).
When `listener_alloc_data` fails after the pool was allocated (`policy.c:77`) there are no workers, and
`policy_free` frees the pool before its data (phases `unwind` and `freed`).

### Daemon

One action per step of the main thread between two points another thread can see,
with `worker_add_cmd` split at its look at `ti->priv`, the assertion, the lock, the
append and the unlock. The end of a worker is split at the freeing of each
listener, the clearing of `ti->priv` and the freeing of `worker_t`. A session is here
only its reference to its policy.

### Config

A line is a keyword with a class of argument. Every accepted line is a disjunct of
its section's parser; every other one is `Reject`. `proxy_free` computes for each
listener and pool whether the frees that reach it reach the last reference.

### ObjPool

A thread's call is a sequence of steps under the lock: `objpool_get` finds a node, or
grows the pool by a cache whose nodes are pushed one by one, or fails; `objpool_put`
pushes its node and, if the cache has become idle and `nfreed > 2 * incsize`, unlinks
the cache's nodes one by one and frees it. `next` and `pprev` are the pointers of the code,
`LIST` the address of the head. A freed cache's address may come back from malloc.

### ThreadProxy

One action per step between two points another thread can see. The accept thread
polls, tests `nlive`, accepts, reads `priv` of the work thread, locks and queues, and then
counts. A work thread swaps its queues, makes a session of each client (with the
three ways of failing, each of which gives up something else), serves, and frees.
`nlive` is an unsigned counter of `Word` values. `_sig_int` runs in whichever thread
gets the signal.

### ThreadWork

A handler is an operator from a session to the set of results it may have, each with
the change of `nblocked` and whether the session goes on. Bytes carry the side
they came from and their number. A round is `_work_send_data` over a set of ready
descriptors, `_work_recv_data` over another, and new sessions. `up` becomes FALSE when an assertion
of the code fails. `nb_splice` stands for a kernel module.

### ProcWork

As in `Session`, a handler is an operator on the session with the result of the system
call as a parameter. The event table is part of the module, since pproxy's differs
from tproxyd's: an item has a state, `fd_epoll_poll` calls only `FD_READY` ones, and
`fd_epoll_flush_update` keeps `is_updated` of the others. One session lives at a
time; the next has the same memory and the same descriptors.

### ProcMain

The process table says for each pid whether it is free, another program's, or a
child that is starting or running. SIGCHLD is ignored, so the pid of a child that has ended is free at once.
The two proxies differ in what a child does with SIGINT and SIGUSR1 (`StopChild`, `SigInt`).

## 3. Runs

| run | instance | states | shows |
|---|---|---|---|
| `session_plain` | plain TCP, one session, the client sends 3 bytes and the server 2, packets of 2, send buffers of 1, batches of 2, resets | 125 423 | a connection that waits to send has stopped its peer, end of stream after its data, refinement of `Relay`, end of the session |
| `session_ssl` | SSL on both sides, packets of 1 byte, server sends 2 | 160 934 | accounting, task queue, events and references through handshakes and shutdowns |
| `daemon_life` | 2 policies, 2 workers, 2 sessions per policy and worker, one SIGINT, failures | 97 274 | reference counts, lifetime, delivery, stop |
| `fdepoll_table` | a table of 4 items, descriptors up to 5, 4 entries between two flushes, TRAPT failures, `epoll_ctl` failing for one descriptor | 218 838 | epoll watches what was asked; `pevents` is what the kernel has; refinement of `EventTable` |
| `svrpool_pool` | 3 servers, 2 workers of 2 sessions, `INT_MAX` = 3, 5 draws, both modes, failing allocations | 416 088 | counts and lifetime, past the wrap; balance before it; nothing left at the end |
| `config_load` | 2 names, 1 certset, 2 listeners, 1 pool, 2 policies | 1 371 048 | accepted files are complete and unambiguous, no double free |
| `objpool_use` | 2 threads, 3 caches of 2 nodes, failing malloc | 129 928 | the free list, its head, idle memory, the lock; refinement of `ObjectPool` |
| `threads_life` | 2 work threads, 3 descriptors, `max` = 2, failures everywhere | 222 288 | the limit, ownership, ids; every client handled, every stop completed |
| `work_relay` | 2 sessions, the client sends 3 bytes and the server 1, packets of 2, all three modes | 111 100 | order and completeness of the bytes, the send epoll, connects |
| `proc_work` | 2 successive sessions, 3 bytes each way, packets of 2, failures | 65 201 | lifetimes, relay, stopped descriptors, end of sessions |
| `proc_life` | 2 children, 3 pids, both proxies, crashes | 7 436 | no child left, every stop completed |

One run is expected to find a violation of a statement the repository makes:
`session_blocked`. When both directions of a session are blocked, the second block takes
the write event of the first away (`proxy/utils/connection.c:325`).

Invariants that are parts of another one have definitions of their own: `Alive` is the
types, `PolicyAlive` and `DataAlive`; `Accepted` is `UniqueNames`, `Complete` and `Exclusive`;
`Limited` is the types, `NliveCovers` and `Admitted`; `Owned` is `OneOwner` and
`OwnedQueue`; `Armed` is the types, `FlagsMatch`, `Watched` and `Counted`; `Stream` is `InOrder` and `Complete`;
`Lifetimes` is the types, `NallocedExact`, `FreedOnce` and `TasksSound`.

Configurations beside the runs that also pass: `Session_more` (the accounting and
reference properties of `session_ssl`, with `NoOrphan`, on the plain instance), `SvrPool_more`
(`DrawnIndex`, past the wrap of `rrpos`, and `GcdExact`: `_spdata_calc_gcd` against the definition of a
greatest common divisor), `ObjPool_more` (`Reachable`: walking the list finds every free node; `Counted`,
`HeldAlive`).

### Bounds, and why they are enough

- *Session.* The bounds make each case happen once or twice: a response of 3 bytes
  needs two packets of 2 and does not fit the send buffer of 2, so a packet is
  split, a send blocks, and the rest waits for a write event; a second session
  starts on the memory the first left, with failing connects and allocations (`Session_more`). In `session_plain`
  the client's 3 bytes are two packets and the server's 2 bytes one, with send buffers of 1: either direction blocks, and both
  at once. The server's socket opens with the client's first data, so fewer bytes would not do. `MaxWait` = 2 lets both sockets'
  events be in one batch, as on a worker with fewer than 200 sockets ready; `RefsHeld`
  holds in that case only (`Session_freetwice` has the other). The theorems hold without these bounds, but
  for the hypotheses they name.
- *Daemon.* Two workers and two policies are the least for a command to be
  outstanding in one worker while another stops; a second SIGINT sets the same flag.
- *FdEpoll.* Four items and four entries allow a number to be listed, closed, reused
  and listed again beside others; `Limit` lets the kernel give out the first
  descriptors beyond the table. `MaxUpdate` bounds the array the code grows on demand.
- *SvrPool.* `INT_MAX` = 3 stands for 2^31 - 1: the position passes it after four
  draws.
- *Config.* Maxima of 0 and 1: the code compares with `>`, so a list holds one object
  more than its maximum. `MaxRef` caps the clones of one object, `MaxServer` the
  server lines of a pool.

- *ObjPool.* Caches of two nodes: `2 * incsize` is passed when a third cache is idle,
  so caches are freed while nodes of others stand before and behind theirs.
- *ThreadProxy.* `max` = 2 and three descriptors: one client too many, and numbers that
  come back. `Word` = 8 stands for 2^64: the counter passes below zero and back.
- *ThreadWork.* Three bytes and packets of two: a packet that is sent in part, one
  that waits behind it, and one that arrives then.
- *ProcWork.* The same, and a second client on what the first left. `MaxLive` = 1 is
  the number of sessions the model has.
- *ProcMain.* One pid more than children, so that another program can take the pid
  of a child that has ended.

### Fairness

- `Session`: the worker thread keeps running (it is a loop around `epoll_wait` and
  no handler waits); the remote programs keep reading, get an answer to a connect,
  and hang up in the end. Nothing is assumed about what the remote programs send,
  and the code has no timer: without a hang-up a session rightly stays.
  `SessionEnds` is stated of behaviours in which the two directions of a session are never blocked at
  once (`[]OneWay`): a session that is may keep data for ever, which `session_blocked` shows. The other
  properties of `session_plain` are not restricted in this way.
- `Daemon`: threads are scheduled and a pending signal is delivered.
- `ObjPool`: a thread that is in a call goes on (the lock is held for a bounded
  number of steps).
- `ThreadProxy`: threads are scheduled; `poll` has a timeout, so no thread waits for
  ever in it.
- `ThreadWork`: the loop goes on, and epoll reports some time, again and again, the
  socket of a connect that has been decided.
- `ProcWork`: the loop goes on, the remote programs hang up in the end, and epoll
  reports that. `SessionEnds` is stated for sessions that never block, because of
  `FD_STOP` (section 6).
- `ProcMain`: processes are scheduled, and other programs end.

## 4. Proofs

Proved with TLAPS for every value of the constants allowed by the named `ASSUME`s:

- **`SessionProofs`**: `TypeCorrect`, `NallocedCorrect`, `FreedCleanCorrect`,
  `TaskLinkedOnceCorrect`, for any packet and buffer size, any number of bytes and
  sessions, SSL on any side. None of the four is inductive: a packet count is kept
  only if queues have their types, a task is linked once only if the running task was
  unlinked before its handler and if the handlers look before they link, and the error path
  of `conn_send_data` links without looking, which is harmless only because a
  connection in a callback or a running task has none queued. The invariant
  therefore joins types, exact count, cleanliness of a free slot, single linking,
  that events in the batch belong to open, different sockets without a queued task
  (`BatchOK`), and what is empty in which phase of the loop (`PhaseOK`). Lemmas say what each handler
  keeps (`Keeps`) and compose along the handler's definition.
  `EventStillValidCorrect` has an invariant of its own, `EInv` (theorem `ArmedCorrect`). A
  callback could take away the callback of the other socket, whose event is in the same
  batch, and `fd_epoll_poll` would exit the process: `Block` does that to the peer. It cannot
  happen from a callback, because only a blocked connection has the send callback (`Armed`), and on a
  blocked connection `Block` does nothing; the tasks, which block too, run when the batch is
  empty. `Heard` says that the events in the batch have their callbacks.
  `RelayRefined` (`Spec => ImplementsRelay`) and `ShutdownAfterDataCorrect` rest on a third invariant, `SInv`
  (theorem `StreamsCorrect`). As long as a session is `Intact` (none of its sockets was closed), `Flows` says
  that what the kernel took on a connection, its output, what was read from the peer and not parsed
  yet, and what waits in the peer's socket are consecutive pieces of what the peer's program
  sent (after a reset, which drops what is unread, all but the last). `Base` says that a session that lost a socket has
  one task left, its deletion, so that nothing is sent from a half-freed session, and that what was read
  has a task that will parse it, whose type no handler replaces by `TASK_SEND`. `Net` and `Poll` tie the end of a stream to the program's hang-up. Each action is then shown
  to keep `SInv`, to be a step of `Relay` or to change none of its variables, and to shut down no write side
  before its data (`StreamStep`). `Contig` describes the bytes of a queue by the positions at which its
  packets are cut, and `FlattenRun` says what the concatenation of such packets is, by a least
  counterexample, which needs no induction theorem with an operator parameter.
  `RefsHeldCorrect` assumes `MaxWait >= 2`, that one `epoll_wait` may report both sockets of the session;
  the code's array has 200 entries (`fd_epoll.c:81`), and `Session_freetwice` shows that the assumption is
  needed when other sockets fill it. The danger is `TASK_PARSE` after a failed send: `session_free` was called and the check
  at the end calls it again if both sides are closed. The invariant `RInv` says that this finds a
  session whose deletion was only delayed. `Orderly` says in which order the two sides close and which callbacks they
  have meanwhile: a side is shut down for writing after the peer's read side, nothing is read from
  a plain connection while its peer waits to send, and a server that is not connected sent nothing.
  `Closing` says that a session both of whose sides are shut (`Shut`) has both sockets armed for reading, then both of
  their events in the batch, then a task for each: the first task deletes it, and the task of the other is what
  delays the deletion. `Late` says that no task is queued for a connection that is not read from.
  `StallCorrect` (`StallStopsPeer`) follows from the same invariant: a connection without SSL whose peer has the send
  callback has no callback (`Orderly`), and with `Armed` no events. It holds while both sides are blocked too, because
  the end of a block takes the send callback of both. What is false then is `BackPressure`, about the flag instead
  of the callback: the other side stays `CONN_F_BLOCKED` while its peer is read (section 6). A connection with SSL is excepted, since
  its shutdown arms it for reading, blocked peer or not. `MaxWait >= 2` is assumed as for `RefsHeldCorrect`.
- **`FdEpollProofs`**: `TypeCorrect`, `PeventsCorrect`, `ChangeCorrect`,
  `SyncedCorrect` and the refinement `TableCorrect`, for any number of descriptors and
  entries, with TRAPT and with `epoll_ctl` failing anywhere. The invariant: an open
  descriptor's item has the registered events and, if it differs from them, is
  marked, and then it is listed or spoilt; a closed descriptor's item is zero and
  unregistered, unless an accept closed it behind the table's back. The second half is what
  makes the reuse of a number safe.
- **`SvrPoolProofs`**: `TypeCorrect`, `RefsCorrect`, `ReleasedCorrect`, `HeldCorrect`, for any number
  of servers, workers, sessions and any `INT_MAX`. The counters are related to the
  cardinality of sets of sessions; each atomic step moves one session in or out of
  a set. `PhaseInv` says what exists in each phase of the main thread.
  A start that fails after the pool was allocated goes back through the same counters, in the order
  of `policy_free`.
  `IndexCorrect` is about `rrpos` as the int it is: either it has not wrapped yet and is the number of sessions that
  asked, or more than `INT_MAX` have; a C remainder stays between `1 - nserver` and `nserver - 1`
  and is negative in the second case only. That it may be negative is a defect (section 6).
  `BalancedCorrect` assumes `MaxGet <= INT_MAX`: up to the wrap every server has the same share, after
  it servers are drawn from before the array and there is no share to speak of.

- **`ObjPoolProofs`**: `ExclusiveCorrect`, `WellLinkedCorrect`, `CountedCorrect`,
  `HeadThereCorrect`, `HeldAliveCorrect`, `FewIdleCorrect` and the refinement `PoolRefines` of
  `ObjectPool`, for any number of threads, caches and nodes per cache. The list is described
  without walking it: `next` and `pprev` of the free nodes are inverse to each other
  (`Linked`), and `next` leads down a rank (`Ranked`), so that there is no cycle apart from
  the head. A non-empty set of free nodes then has one of greatest rank, which nobody
  points to but the head: that is `HeadThere`, and why `objpool_get` may trust `nfreed`. Push,
  Behead and Unlink each keep both. The counters are tied to cardinalities, corrected by what
  the thread in the lock has still to do.
- **`DaemonProofs`**: `RefsCorrect`, `AliveCorrect`, `DeliveredCorrect`, for any number of policies,
  workers and sessions, failures, and a SIGINT at any moment. A reference to a policy has
  a place: an entry of one of a worker's command lists, a listener, a session. `RefInv` equates
  `refcnt` with the number of places over all workers, plus the reference in the hand
  of the main thread and those lost; each step changes the places of one worker, and
  lemmas say by how much. `OnceInv` (a policy gets to a worker once) is what allows
  listeners to be a set; it needs the order in which `_py_loop` goes through the pairs of
  policy and worker (`Sent`), and so does `SentInv`, from which `Delivered` follows. `MainInv` says
  which workers have ended when the main thread frees.
- **`ThreadProxyProofs`**: `LimitedCorrect`, `RoomCorrect`, `OwnedCorrect`, for any number of
  descriptors, work threads and sessions, and any width of `nlive` that can count one
  client more than `max`. `Total(S)` counts the places (entries of queues and tables) with a client
  of S; each action moves one place. For all clients this is what `nlive` must bound:
  `CountInv` says that there is a number v from 0 to `max`, at least the number of places, that leaves
  room for a client who has been let in, such that `nlive` is v, or v - 1, wrapped below zero, between the hand-over and
  the counting. v may be larger than the number of places, since a client without a
  session stays counted. For one client `Total` is the number of owners of its
  descriptor (`OwnerInv`), at most one when it is open and none when it is closed. At a stop
  some descriptors are left open without owner, which is why equality holds only before it.
- **`ProcWorkProofs`**: `LifetimesCorrect`, `EventFitsCorrect`, `RelayedCorrect`, for any packet size, number of bytes
  and of clients, whatever fails. `Wired` ties flags, callback, item and packets of
  each end (`Sound` without the stop of a blocked end's peer, which `_worker_send_data` does not come to when the
  update fails, and which closing either end makes void); `Linked` says what a linked task says of its session; `Loop` what holds in each
  phase. `_worker_run_task` looks at the flags after every task, so a session with a linked
  task and both ends shut would be freed under it. The heart is that this does not
  happen: no task is linked once both ends are shut, and none is linked afterwards,
  because the only callback such a session can have is a send callback with nothing left
  to send, which cannot fail. For `Relayed`, `Streams` says of each direction that what was
  sent, what waits in `out` and what is not parsed yet are consecutive pieces of what the remote
  sent, with `Contig` and `FlattenRun` as in `SessionProofs`.
- **`ProcWorkProofs`**, last part, about `ProcMain`: `NoneLeftCorrect`, for any number of
  children and pids. The invariant
  `Owned`: every child that lives stands in `_g_workers`, below the loop variable while the loop of
  `_create_workers` runs and from it on in the loop of `_destroy_workers`; entries whose
  pid went to another program may stand anywhere.
- **`SvrPoolProofs`**, last part, about `Config`, the load of the file that defines the pools:
  `AcceptedCorrect` and `NoOverFreeCorrect`, for any names, numbers, limits and files of any length, whatever fails.
  Neither is inductive. `Accepted` is about the end of a load, when the check of the last section has passed;
  during it, `Checked` says that every object has passed its check except the last of the list of the section
  that is open. That is kept because a keyword changes only that object, a header checks it before the next one
  is opened, and all that a policy changes elsewhere is a refcnt. `ObjCloned` says that a policy refers to objects that are
  there and that the refcnt of a listener or pool is at least the number of policies that point to it; a
  repeated keyword makes it larger (section 6), never smaller, which is why `proxy_free` frees nothing twice.
- **`ThreadWorkProofs`**: `ArmedCorrect` and `StreamCorrect`, for any number of sessions and of bytes, any packet
  size, in the three modes, whatever fails. A handler of `ThreadWork` is a set of results. `Done` says what
  a result must be for the loop to go on with it, `Sends` the same of the sending of one direction; the lemmas go along
  the calls of `_work_send_data` and `_work_recv_data` and are joined in `IInv`. In it `Fit` ties the flags to the send epoll and
  the packets held to `nalloced`; `Waits` says that data is kept only for an end that is in the send epoll; `Carries` says of
  each direction that what was sent, then what is kept, are bytes of the other end in rising order, and all of
  them if no packet was lost. `CountOK` has `nblocked` at least, not equal to, the number of descriptors in the send
  epoll: a freed session stays counted (section 6), which costs a look at the send epoll and hides nothing.
  That a packet sent in several parts is the packet, and what `FlattenSeq` makes of a queue, is shown by a least counterexample
  from the well-foundedness of the natural numbers.

Every inductive invariant was checked by TLC on the instances of section 3 before it was
proved.

Only model-checked, and why:

- liveness (`SessionEnds`, `Stops`, `Handled`, `WaitEnds`, `Unlocks`): fairness is out
  of the prover's reach;
- `Reachable`, a walk along a list, and `GcdExact`, a recursive computation;
- `BackPressure`, `IndexInRange`, and `RefsHeld` when a batch may hold only one of the two events
  of a session, are no theorems because they are false (above, and section 6).

## 5. Not modelled

- `iptables`, kernel-module and CPU-binding calls; command line and printing: pure I/O.
- The error return of `fd_epoll_add_event` inside a session handler (it takes a
  descriptor beyond the table, which `FdEpoll` has).
- In TRAPT mode `session_forward` (`session.c:326-345`) ignores the result of `sk_tcp_connect` and goes on as
  if connected when the connect failed or is in progress. `Session` has the socket connected then; the first
  read or write that fails is there as a reset.
- `assert(fi)` for a listening socket beyond the table (`tproxy/worker.c:240`) and the second read of `ti->priv`
  in `_worker_lock` (`:190`), which may see NULL after the assertion of the line before saw the
  pointer: `Daemon` has the test, the assertion and the use of the `worker_t` as steps, and `WorkerAlive` is
  violated already between the first two.
- The content of certificates and SSL contexts; SSL is the set of outcomes of
  handshake, read, write and shutdown.
- Code without a caller: `WORKER_CMD_DEL_POLICY`, `server_inc_conn` and `server_dec_conn`,
  pproxy's `fd_epoll_alloc_task`, `fd_epoll_flush_task` and `thread.c`, mprocess's
  `proxy_event.c`; `utils/sockpool.c`, `session_old.c`, `packet_old.c`, `epoll_event.c` are not linked
  into tproxyd.
- The relaying functions of `socket/proxy/mprocess/proxy.c` and `single/proxy.c`: earlier
  copies of the functions of `pthread/work.c` that `ThreadWork` models.
- `proxy/oldproxy` and `socket/proxy/offline`: superseded versions, the latter mostly
  third-party stream reassembly; together they are a large part of the lines.
- `code/basic` apart from the pool: sequential containers and algorithms with no state
  of their own. `code/kernel`, `code/project`, `code/book`, `code/database`, `code/gui`, `code/language`, `code/security`,
  `code/system`, `code/tool`: separate programs, exercises and vendored sources with
  nothing shared with the proxies. They are most of the repository; a model of each
  would be a project of its own, not an extension of this one.

## 6. Further disagreements

The modules also state what the source says in these places, and the configuration
named shows how the code departs from it (`tlc -config X.cfg MC...`). Where a
configuration has several statements, each is violated on its own: TLC stops at the
first, and shows the next when that one is taken out.

| configuration | statement | what the code does |
|---|---|---|
| `Session_docs` | `BackPressure`; `connection.c:322` "delete events update for peer read" | with both sides blocked, the end of one block arms both sockets for reading (`connection.c:355`, `:367`) while the other side is still `CONN_F_BLOCKED` and has lost its write event |
| `Session_docs` | `ShutReadAfterData`; `connection.c:186` "recv closed and not recv data" | a FIN seen with more than one packet of data closes the read side; the rest is never forwarded |
| `Session_docs` | `ErrorIsFailure`; `connection.h:26` "recv/send error" | `errno != EINTR \|\| errno != EAGAIN` is always true: a full send buffer is an error and ends the session |
| `Session_docs` | `ShutdownComplete`; `connection.c:502` "add task to send data if have data." | the task is added without data too. When the connect is done in the same batch as the client's last data and FIN, it runs first, finds the client's read side closed and shuts the write side of the server down; the data, parsed next, cannot be sent and the session is deleted (`connection.c:388`) |
| `Session_sslend` | `SSLFreed`; `connection.h:66` "Free connection @c resource" | `conn_free` never frees `c->ssl` |
| `Session_sslend` | `NoOrphan` with SSL; `connection.h:136` | `conn_shutdown` schedules nothing when it is done; the session may stay for ever |
| `Session_freetwice` | `RefsHeld`; `policy.h:74` | a failing send in `TASK_PARSE` with both sides closed frees the session twice (`session.c:149`, `:171`); it takes a batch with only one of the session's two events, as on a worker with more than 200 ready sockets (`MaxWait` = 1) |
| `Daemon_docs` | `WorkerAlive`; the assertions at `worker.c:189` and `:204` | a SIGINT while policies are handed out clears `ti->priv` between the test and the lock, or frees the `worker_t` |
| `Daemon_docs` | `LoopsUntilStop`; `proxy.c:125` "until @g_stop is set" | a worker that is not ready after `sleep(1)` makes `_py_loop` return |
| `Daemon_docs` | `CommandsFreed`; `worker.h:49` "need free in worker thread" | commands left in the list are leaked with their references |
| `FdEpoll_docs` | `MapInTable`; `fd_epoll.h:70` | `fd > maxfd` lets `fd = maxfd` through |
| `FdEpoll_docs` | `OpenNotLost`; `fd_epoll.h:99` "Flush the fd update into epoll socket" | a TRAPT accept that fails leaves `is_updated` set, and the next client with that number is never registered (`listener.c:130`) |
| `SvrPool_docs` | `IndexInRange`; `svrpool.h:226` "Return pointer if success, NULL on error" | after 2^31 sessions the index is negative |
| `SvrPool_docs` | `AllocReturns`; `svrpool.h:199` | a NULL `server_data` is read by `_spdata_calc_gcd` |
| `SvrPool_docs` | `CtxFreed`; `svrpool.h:154` | `server_free_data` leaves `sslctx` |
| `SvrPool_wrr` | `WeightedShare`; `svrpool.h:38` "weight for WRR algorithm" | weights and algorithm are never looked at |
| `Config_docs` | `AllFreed`; `proxy.h:91` "free all listeners/svrpools/policies" | a repeated `listener` or `svrpool` keyword overwrites a counted pointer |
| `Config_docs` | `DocAccepted`; `proxy_config.txt:36` | a server line with a certset is refused |
| `Config_docs` | `Pkcs12Type`; `certset.h:32` | `pkcs12` never sets the type |
| `Config_docs` | `NiceIsNumber`; `proxy_config.c:47` "check all char is digit" | -1, the error value, is a legal nice value |
| `ThreadProxy_docs` | `NliveExact`; `pthread/proxy.h` "live session number" | a client for whom no session could be allocated stays counted (`work.c:542`) |
| `ThreadProxy_docs` | `NoUseAfterFree` | during a stop the accept thread may lock a queue that its owner has freed (`work.c:1548`) |
| `ThreadWork_docs` | `CleanFree`; the assertion at `work.c:488` | a second partial send to a side that is blocked takes the packet off the queue and keeps it nowhere (`work.c:935`) |
| `ThreadWork_docs` | `NblockedExact`; `thread.h:74` "number of blocked" | a blocked session that is freed is never taken off |
| `ThreadWork_docs` | `NoEcho` | with `splice`, both directions share one pipe: what is left in it goes to the other side |
| `ThreadWork_docs` | `NoStaleUse` | an event of the same batch is served for a session that was freed |
| `ProcWork_docs` | `NliveExact`; `pproxy/proxy.h:30` "live session number" | a failed connect takes a session off that was never put on; the unsigned count wraps and every client is refused |
| `ProcWork_docs` | `Synced`; `fd_epoll.h` "Flush the fd update into epoll socket" | an item in state `FD_STOP` is not flushed |
| `ProcWork_docs` | `Unblocks` | nothing sets `FD_STOP` back to `FD_READY` (`worker.c:765`) |
| `ProcMain_docs` | `OwnOnly`; `childproc.h:40` "Destroy a child process." | SIGUSR1 goes to whoever has the pid |
| `ProcMain_docs` | `StopsByFlag`; `pproxy/proxy.c:28` "will check @g_proxy.stop" | pproxy's children have no handler for SIGUSR1 and die of it |

Also seen while reading: `_worker_add_policy` loses the policy's reference when its
listener fails (`lost` in `Daemon`); `proxy_free` does not walk
`certlist`; `servers[]` is filled without a look at its size; TPROXY mode opens a
descriptor per session and overwrites it (`session.c:314`); an SSL server connection
whose connect waits is never given its descriptor.

## 7. Plan

Done: the session engine, the event table, the server pool, the daemon, the
configuration, the object pool, the thread proxy and the process proxies, with the proofs
of section 4. Left, should the project go on: action properties of *Daemon* and *ObjPool* from the
invariants that are proved, such as that a policy's running data is never taken back while a worker runs.
