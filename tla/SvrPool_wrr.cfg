SPECIFICATION Spec
CONSTANTS
  w1 = w1
  w2 = w2
  a = a
  b = b
  Worker <- MCWorker
  Slot <- MCSlot
  NServer = 3
  INT_MAX = 7
  MaxGet = 8
  MayFail = FALSE
  Conf <- Uneven
  Address <- Addresses
INVARIANT WeightedShare
