SPECIFICATION Spec
CONSTANTS
  NPolicy = 1
  NWorker = 1
  MaxSsn = 1
  MaxInt = 1
  MayFail = FALSE
INVARIANTS WorkerAlive LoopsUntilStop
PROPERTY CommandsFreed
