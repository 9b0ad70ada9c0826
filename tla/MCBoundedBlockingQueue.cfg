CONSTANTS
  Producers = {p1, p2, p3}
  Consumers = {c1, c2, c3}
  maxSize = 2
  MaxItems = 6
SPECIFICATION QueueSpec
INVARIANT NoWaiterForgotten
CHECK_DEADLOCK FALSE
