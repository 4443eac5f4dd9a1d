SPECIFICATION Spec
CONSTANTS
  MaxFd = 3
  Limit = 5
  MaxUpdate = 3
  Trapt = TRUE
  MayFail = {}
INVARIANTS MapInTable OpenNotLost
