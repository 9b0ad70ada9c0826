CONSTANTS
  NumThreads = {0, 2}
  Batches <- SmallBatches
  kCells = 2
  MaxLine = 6
  NoSolution = 1
  Refusal = 1
SPECIFICATION FairSpec
INVARIANTS AnsweredRightly QuitsWhenDone
PROPERTIES BatchFinishes
CHECK_DEADLOCK FALSE
