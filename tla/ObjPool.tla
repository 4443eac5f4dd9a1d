------------------------------ MODULE ObjPool -------------------------------
(***************************************************************************)
(* The object pool of packets and sessions (objpool.c).  The pool takes    *)
(* memory from malloc in caches of Inc nodes, keeps the free nodes of all  *)
(* caches in one list with back pointers, and gives a cache back when none *)
(* of its nodes is used and more than two caches' worth of nodes is free.  *)
(* A call runs under op->lock; a pool without a lock (need_lock = 0, the   *)
(* pools of a worker) is used by one thread.  The loops that thread a      *)
(* cache into the list and out of it take one step per node, so that the   *)
(* pointers are seen in between.                                           *)
(*                                                                         *)
(* A node is the pair of its cache and its index in it; a cache stands for *)
(* the memory at one address, which malloc may return again after free.    *)
(* The list of caches is its set: only its members matter.                 *)
(***************************************************************************)
EXTENDS Integers, FiniteSets

CONSTANTS Thread,     \* the threads that call the pool
          Cache,      \* the addresses malloc can return for a cache
          Inc,        \* op->incsize
          NeedLock,   \* op->need_lock
          NULL, LIST  \* the null pointer, and the address of op->node_list

Index == 0 .. Inc - 1
Node == Cache \X Index
CacheOf(n) == n[1]

ASSUME PoolAssumption ==
  /\ IsFiniteSet(Cache) /\ IsFiniteSet(Thread) /\ Cache # {}
  /\ Inc \in Nat \ {0}
  /\ NeedLock \in BOOLEAN
  /\ NeedLock \/ \A t, u \in Thread : t = u
  /\ NULL \notin Node \cup Cache \cup Thread /\ LIST \notin Node /\ LIST # NULL

VARIABLES node_list,   \* op->node_list: the first free node, or NULL
          next, pprev, \* node->next, and what node->pprev points into
          is_used,     \* node->is_used
          nused,       \* cache->nused
          caches,      \* op->cache_list
          nalloced, nfreed,
          lock,        \* the thread that has op->lock, or NULL
          job,         \* job[t]: how far the call of thread t is
          out,         \* the objects the callers hold
          open         \* objpool_free has not been called

list == <<node_list, next, pprev>>
vars == <<node_list, next, pprev, is_used, nused, caches, nalloced, nfreed,
          lock, job, out, open>>

Idle == [op |-> "idle", c |-> NULL, i |-> 0]
At(op, c, i) == [op |-> op, c |-> c, i |-> i]

(* The caches whose memory belongs to the pool: listed, or on the way in or out. *)
Taken == caches \cup {job[t].c : t \in Thread}

----------------------------------------------------------------------------
(* The node list.  *)

(* Node n becomes the head of the list. *)
Push(n) ==
  /\ next' = [next EXCEPT ![n] = node_list]
  /\ pprev' = [m \in Node |-> IF m = n THEN LIST
                              ELSE IF m = node_list THEN n ELSE pprev[m]]
  /\ node_list' = n

(* Node n is unlinked through its own pointers. *)
Unlink(n) ==
  /\ pprev' = [m \in Node |-> IF m = next[n] THEN pprev[n] ELSE pprev[m]]
  /\ next' = [m \in Node |-> IF m = pprev[n] THEN next[n] ELSE next[m]]
  /\ node_list' = IF pprev[n] = LIST THEN next[n] ELSE node_list

----------------------------------------------------------------------------
(* The lock.  *)

_OP_LOCK_RET(t) == IF NeedLock THEN lock = NULL /\ lock' = t ELSE UNCHANGED lock

_OP_UNLOCK(t) == IF NeedLock THEN lock' = NULL ELSE UNCHANGED lock

----------------------------------------------------------------------------
(* objpool_get.  *)

(* A call finds a free node, or starts a cache, or gets no memory and returns NULL. *)
objpool_get_Finds(t) ==
  /\ nfreed # 0
  /\ job' = [job EXCEPT ![t] = At("take", NULL, 0)]
  /\ _OP_LOCK_RET(t)
  /\ UNCHANGED <<list, is_used, nused, caches, nalloced, nfreed, out>>

objpool_get_Grows(t) ==
  /\ nfreed = 0
  /\ \E c \in Cache \ Taken : job' = [job EXCEPT ![t] = At("fill", c, 0)]
  /\ _OP_LOCK_RET(t)
  /\ UNCHANGED <<list, is_used, nused, caches, nalloced, nfreed, out>>

(* Variant: the error return keeps the lock. *)
objpool_get_Fails_KeepsLock(t) ==
  /\ nfreed = 0
  /\ _OP_LOCK_RET(t)
  /\ UNCHANGED <<list, is_used, nused, caches, nalloced, nfreed, job, out>>

objpool_get_Fails(t) ==
  /\ nfreed = 0
  /\ job' = [job EXCEPT ![t] = At("leave", NULL, 0)]
  /\ _OP_LOCK_RET(t)
  /\ UNCHANGED <<list, is_used, nused, caches, nalloced, nfreed, out>>

objpool_get(t) ==
  /\ open
  /\ job[t] = Idle
  /\ objpool_get_Finds(t) \/ objpool_get_Grows(t) \/ objpool_get_Fails(t)
  /\ UNCHANGED open

(* The loops over the nodes of a cache go on after node i. *)
More(i) == i + 1 < Inc

(* One round of the loop of _op_alloc_cache; the last one counts the cache. *)
_op_alloc_cache(t) ==
  LET c == job[t].c
      i == job[t].i
  IN /\ job[t].op = "fill"
     /\ Push(<<c, i>>)
     /\ is_used' = [is_used EXCEPT ![<<c, i>>] = FALSE]
     /\ IF More(i)
        THEN /\ job' = [job EXCEPT ![t] = At("fill", c, i + 1)]
             /\ UNCHANGED <<nused, caches, nalloced, nfreed>>
        ELSE /\ nused' = [nused EXCEPT ![c] = 0]
             /\ caches' = caches \cup {c}
             /\ nalloced' = nalloced + Inc
             /\ nfreed' = nfreed + Inc
             /\ job' = [job EXCEPT ![t] = At("take", NULL, 0)]
     /\ UNCHANGED <<lock, out, open>>

(* Variant: the new head keeps its back pointer to the node taken. *)
Behead_OneWay ==
  /\ node_list' = next[node_list]
  /\ next' = [next EXCEPT ![node_list] = NULL]
  /\ pprev' = [pprev EXCEPT ![node_list] = NULL]

(* The second node becomes the head and points back to node_list. *)
Behead ==
  /\ node_list' = next[node_list]
  /\ next' = [next EXCEPT ![node_list] = NULL]
  /\ pprev' = [m \in Node |-> IF m = node_list THEN NULL
                              ELSE IF m = next[node_list] THEN LIST ELSE pprev[m]]

(* The head of the list becomes the caller's; without one the thread would fault. *)
Take(t) ==
  /\ job[t].op = "take"
  /\ node_list # NULL
  /\ Behead
  /\ is_used' = [is_used EXCEPT ![node_list] = TRUE]
  /\ nused' = [nused EXCEPT ![CacheOf(node_list)] = @ + 1]
  /\ nfreed' = nfreed - 1
  /\ out' = out \cup {node_list}
  /\ job' = [job EXCEPT ![t] = Idle]
  /\ _OP_UNLOCK(t)
  /\ UNCHANGED <<caches, nalloced, open>>

----------------------------------------------------------------------------
(* objpool_put.  *)

(* Variants: the pool keeps everything, or looks at the free nodes only. *)
Spare_Never(c) == FALSE
Spare_InUse(c) == nfreed' > 2 * Inc

(* After a put, cache c has nothing in use and the pool has plenty without it. *)
Spare(c) == nused'[c] = 0 /\ nfreed' > 2 * Inc

(* Any holder gives back node n (_op_put_node); a spare cache leaves the cache list. *)
objpool_put(t, n) ==
  LET c == CacheOf(n)
  IN /\ open
     /\ job[t] = Idle
     /\ n \in out
     /\ _OP_LOCK_RET(t)
     /\ Push(n)
     /\ is_used' = [is_used EXCEPT ![n] = FALSE]
     /\ nfreed' = nfreed + 1
     /\ nused' = [nused EXCEPT ![c] = @ - 1]
     /\ out' = out \ {n}
     /\ IF Spare(c)
        THEN caches' = caches \ {c} /\ job' = [job EXCEPT ![t] = At("drop", c, 0)]
        ELSE UNCHANGED caches /\ job' = [job EXCEPT ![t] = At("leave", NULL, 0)]
     /\ UNCHANGED <<nalloced, open>>

(* Variant: the nodes of the cache still count as free. *)
Discount_Alloced == nalloced' = nalloced - Inc /\ UNCHANGED nfreed

(* The counters of the pool without a cache. *)
Discount == nalloced' = nalloced - Inc /\ nfreed' = nfreed - Inc

(* One round of the loop of _op_free_cache; the last one discounts and frees it. *)
_op_free_cache(t) ==
  LET c == job[t].c
      i == job[t].i
  IN /\ job[t].op = "drop"
     /\ Unlink(<<c, i>>)
     /\ IF More(i)
        THEN /\ job' = [job EXCEPT ![t] = At("drop", c, i + 1)]
             /\ UNCHANGED <<nalloced, nfreed>>
        ELSE Discount /\ job' = [job EXCEPT ![t] = At("leave", NULL, 0)]
     /\ UNCHANGED <<is_used, nused, caches, lock, out, open>>

(* The last step of a put, and of a get without memory. *)
Leave(t) ==
  /\ job[t].op = "leave"
  /\ job' = [job EXCEPT ![t] = Idle]
  /\ _OP_UNLOCK(t)
  /\ UNCHANGED <<list, is_used, nused, caches, nalloced, nfreed, out, open>>

(* The owner of the pool frees it once no call is under way, held objects or not. *)
objpool_free ==
  /\ open
  /\ \A t \in Thread : job[t] = Idle
  /\ open' = FALSE
  /\ caches' = {}
  /\ UNCHANGED <<list, is_used, nused, nalloced, nfreed, lock, job, out>>

----------------------------------------------------------------------------
Step(t) == _op_alloc_cache(t) \/ Take(t) \/ _op_free_cache(t) \/ Leave(t)

Next == \/ \E t \in Thread : \/ objpool_get(t)
                             \/ \E n \in Node : objpool_put(t, n)
                             \/ Step(t)
        \/ objpool_free

(* objpool_alloc: a pool starts with one cache, filled from its first node to its last. *)
Init ==
  \E c \in Cache :
    /\ caches = {c}
    /\ node_list = <<c, Inc - 1>>
    /\ next = [n \in Node |-> IF n[1] = c /\ n[2] > 0 THEN <<c, n[2] - 1>> ELSE NULL]
    /\ pprev = [n \in Node |-> IF n[1] # c THEN NULL
                               ELSE IF n[2] = Inc - 1 THEN LIST ELSE <<c, n[2] + 1>>]
    /\ is_used = [n \in Node |-> FALSE]
    /\ nused = [d \in Cache |-> 0]
    /\ nalloced = Inc
    /\ nfreed = Inc
    /\ lock = NULL
    /\ job = [t \in Thread |-> Idle]
    /\ out = {}
    /\ open = TRUE

Spec == Init /\ [][Next]_vars
(* A thread inside the pool runs on: it never waits there. *)
FairSpec == Spec /\ \A t \in Thread : WF_vars(Step(t))

----------------------------------------------------------------------------
(* Properties.  *)

(* The nodes that are in the list: the free nodes of the caches, and of a cache on   *)
(* its way in or out the part its loop has put in already or not yet taken out.      *)
InList ==
  {n \in Node : \/ CacheOf(n) \in caches /\ n \notin out
                \/ \E t \in Thread : \/ job[t].op = "fill" /\ job[t].c = n[1] /\ n[2] < job[t].i
                                     \/ job[t].op = "drop" /\ job[t].c = n[1] /\ n[2] >= job[t].i}

(* The types of the state. *)
TypeOK ==
  /\ node_list \in Node \cup {NULL}
  /\ next \in [Node -> Node \cup {NULL}]
  /\ pprev \in [Node -> Node \cup {NULL, LIST}]
  /\ is_used \in [Node -> BOOLEAN]
  /\ nused \in [Cache -> 0 .. Inc]
  /\ caches \subseteq Cache
  /\ nalloced \in Nat /\ nfreed \in Nat
  /\ lock \in Thread \cup {NULL}
  /\ job \in [Thread -> [op : {"idle", "fill", "take", "drop", "leave"}, c : Cache \cup {NULL}, i : Index]]
  /\ out \subseteq Node
  /\ open \in BOOLEAN

(* At most one thread is inside the pool, although it works in several steps. *)
Exclusive == \A t, u \in Thread : job[t] # Idle /\ job[u] # Idle => t = u

(* The free list is well linked while any number of nodes come and go: it stays      *)
(* within the free nodes, never leads into memory that was freed, and the back       *)
(* pointers are the inverse of the forward ones (objpool.c 133-136, 190-192, 388).   *)
WellLinked ==
  open =>
    /\ node_list \in InList \cup {NULL}
    /\ \A n \in InList : /\ next[n] \in InList \cup {NULL}
                         /\ pprev[n] \in InList \cup {LIST}
                         /\ pprev[n] = LIST <=> node_list = n
                         /\ \A m \in InList : next[m] = n <=> pprev[n] = m

(* The counters agree with the list and the caches, so that nfreed = 0, the test of  *)
(* objpool_get, really means that there is no free node (objpool.c 381).             *)
Counted ==
  open =>
    /\ \A c \in caches : nused[c] = Cardinality({n \in out : CacheOf(n) = c})
    /\ (\A t \in Thread : job[t] = Idle) =>
          nfreed = Cardinality(InList) /\ nalloced = Inc * Cardinality(caches)

(* Every free node can be reached from node_list: no object is lost for good.        *)
Reachable ==
  LET walk[k \in 0 .. Cardinality(Node)] ==
        IF k = 0 THEN node_list
        ELSE IF walk[k - 1] = NULL THEN NULL ELSE next[walk[k - 1]]
  IN open => {walk[k] : k \in 0 .. Cardinality(Node)} \ {NULL} = InList

(* objpool_get takes the head without looking whether there is one (objpool.c 388).  *)
HeadThere == \A t \in Thread : job[t].op = "take" => node_list # NULL

(* As long as the pool is open, the memory of an object a caller holds is there, and *)
(* is_used, which _op_put_node and _op_free_cache assert, marks exactly these objects. *)
HeldAlive ==
  open => /\ \A n \in out : CacheOf(n) \in caches
          /\ \A n \in Node : CacheOf(n) \in Taken /\ (n \in InList \cup out)
                               => (is_used[n] <=> n \in out)

(* Memory goes back to the system: no more than two caches lie idle, whatever the    *)
(* order in which objects come back (objpool.c 293).                                 *)
FewIdle == (\A t \in Thread : job[t] = Idle) => Cardinality({c \in caches : nused[c] = 0}) <= 2

(* A thread that entered the pool leaves it and unlocks it, the error return included. *)
Unlocks == \A t \in Thread : lock = t ~> lock # t

(* The pool implements its interface: what objpool_get returns nobody holds, and the *)
(* two counters differ by the number of objects in use.                              *)
Abstract == INSTANCE ObjectPool WITH Object <- Node, number <- nalloced - nfreed
ImplementsPool == Abstract!Spec
=============================================================================
