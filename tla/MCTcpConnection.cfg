CONSTANTS
  Threads = {t1}
  LoopUser = io
  Usages <- Sound
  DropsEarly = FALSE
  MsgLen = 2
  highWaterMark_ = 3
  MaxSends = 1
  MaxIn = 1
  MaxPending = 2
SPECIFICATION FairSpec
INVARIANTS NoAssertFails StreamIntact EventsAgree FinAfterSends
PROPERTIES ShutdownCompletes ClosedIsFreed
