SPECIFICATION Spec
CONSTANTS
  MaxFd = 4
  Limit = 6
  MaxUpdate = 4
  Trapt = TRUE
  MayFail = {1}
INVARIANTS Synced PeventsExact
PROPERTIES ImplementsTable
