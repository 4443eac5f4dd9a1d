SPECIFICATION FairSpec
CONSTANTS
  NPolicy = 2
  NWorker = 2
  MaxSsn = 2
  MaxInt = 1
  MayFail = TRUE
INVARIANTS RefsExact Alive Delivered
PROPERTIES Stops
