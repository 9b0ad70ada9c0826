\* Both threads start and stop the client, and the loop thread may destruct it.
CONSTANTS
  kInitRetryDelayMs = 500
  kMaxRetryDelayMs = 1500
  retry_ = TRUE
  LoopOps <- WithDestroy
  ThreadOps <- ConnectsAndStops
  EarlyDestroy = FALSE
  SlowLoop = FALSE
  MaxConnects = 1
SPECIFICATION Spec
INVARIANTS NoAssertFails SocketsAccounted NeverForgotten NoLateAttempt
