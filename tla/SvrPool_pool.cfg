SPECIFICATION Spec
CONSTANTS
  w1 = w1
  w2 = w2
  a = a
  b = b
  Worker <- MCWorker
  Slot <- MCSlot
  NServer = 3
  INT_MAX = 3
  MaxGet = 5
  MayFail = TRUE
  Conf <- MCConf
  Address <- Addresses
INVARIANTS HeldAlive RefsExact Balanced Released
