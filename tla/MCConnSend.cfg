\* Violation: a thread sends, then shuts down.
CONSTANTS
  Threads = {t1}
  LoopUser = io
  Usages <- SendThenShutdown
  DropsEarly = FALSE
  MsgLen = 2
  highWaterMark_ = 3
  MaxSends = 2
  MaxIn = 0
  MaxPending = 2
SPECIFICATION Spec
INVARIANT FinAfterSends
