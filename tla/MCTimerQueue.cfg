SPECIFICATION Spec
CONSTANTS
  Callers = {t1}
  Addresses = {1, 2}
  Intervals = {1}
  MinDelay = 1
  Horizon = 3
  MaxTimers = 3
  MaxPending = 1
INVARIANTS OneOwner NoTimerLost ArmedForEarliest CancelledStaysOut
CHECK_DEADLOCK FALSE
