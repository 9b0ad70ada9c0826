SPECIFICATION SequentialSpec
CONSTANTS
  kCheapPrepend = 2
  kInitialSize = 1
  kExtraBuf = 2
  Base = 2
  CR = 0
  LF = 1
  Widths = {1, 2}
  MaxLen = 2
  MaxReadable = 4
\* The years Date is documented for, and boards of 4 x 4 cells.
  FirstYear = 1900
  LastYear = 2500
  FirstJulianDay = 2415021
  FirstWeekDay = 1
  Clock <- TurnOvers
  UtcYears <- SmallSeconds
  Offsets <- WestAndEast
  Spans = {5400, 7200, 90000}
  MaxTransitions = 3
  ZoneDays <- YearEndAndLeapDay
  Passed <- HalfHours
  BoxSide = 2
  Puzzles <- SmallPuzzles
INVARIANTS SizeBounded CalendarAgrees LinksAreWhatIsLeft SolvesPuzzle
PROPERTIES ImplementsByteQueue CallsActOnContent
CHECK_DEADLOCK FALSE
