CONSTANTS
  Workers = {w1, w2, w3}
  Callers = {c1, c2}
  TasksCall = TRUE
  Stops = TRUE
  maxQueueSize_ = 2
  MaxTasks = 6
SPECIFICATION TaskPoolFairSpec
INVARIANT NoWaiterForgotten
PROPERTIES StopReturns WorkGoesOn
CHECK_DEADLOCK FALSE
