\* A server with two io loops, or with none, while descriptors run out.
CONSTANTS
  ThreadNums = {0, 2}
  FdLimit = 3
  MaxOpens = 1
  MaxConns = 3
  PeersClose = TRUE
  StartsElsewhere = TRUE
  ServerDies = TRUE
SPECIFICATION FairSpec
INVARIANTS NoAssertFails ConnectionsKept
PROPERTIES DestructorReturns BacklogServed
CHECK_DEADLOCK FALSE
