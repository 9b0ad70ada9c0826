SPECIFICATION LoopPoolFairSpec
CONSTANTS
  numThreads_ = 2
  InitQuits = TRUE
  CreateFails = TRUE
  MaxTurns = 5
INVARIANT PointersToLoops
PROPERTY StartReturns
CHECK_DEADLOCK FALSE
