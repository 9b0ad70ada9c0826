SPECIFICATION FairSpec
CONSTANTS
  Callers = {t1, t2}
  Channels = {c1}
  WakeupChannel = wake
  MaxFunctors = 3
INVARIANTS NoLostWakeup QuitWakesPoll
PROPERTIES ImplementsExecutor QueuedFunctorRuns
