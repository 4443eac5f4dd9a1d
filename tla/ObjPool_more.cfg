SPECIFICATION Spec
CONSTANTS
  NULL = NULL
  LIST = LIST
  c1 = c1
  c2 = c2
  c3 = c3
  t1 = t1
  t2 = t2
  Thread <- Threads2
  Cache <- Caches3
  Inc = 2
  NeedLock = TRUE
CHECK_DEADLOCK FALSE
INVARIANTS TypeOK Exclusive Counted Reachable HeldAlive
