---------------------------- MODULE MCSequential ----------------------------
(***************************************************************************)
(* The parts that run in one thread and share nothing, for TLC: Buffer,    *)
(* Date and TimeZone, and the Sudoku solver.                               *)
(***************************************************************************)
EXTENDS Buffer, TimeZone, SudokuSolver

VARIABLE part   \* the part that a behaviour is of

\* The times of day at which a field of the time turns over.
TurnOvers ==
  {[hour |-> t[1], min |-> t[2], sec |-> t[3]] :
     t \in {<<0, 0, 0>>, <<0, 0, 1>>, <<0, 59, 59>>, <<1, 0, 0>>, <<12, 34, 56>>, <<23, 59, 59>>}}

\* The years whose seconds TLC's 32-bit integers hold.
SmallSeconds == 1902 .. 2037

\* New York, London and India.
WestAndEast == {-18000, 0, 19800}

\* The end of a year, of a leap day's month and of the seconds before 1970.
YearEndAndLeapDay == {<<1969, 12, 31>>, <<2000, 2, 28>>}

\* Two and a half days, by the half hour.
HalfHours == {1800 * i : i \in 0 .. 120}

\* A board of 4 x 4 cells, and what is left of it when some cells are blank.
Board ==
  LET values == <<1, 2, 3, 4,  3, 4, 1, 2,  2, 1, 4, 3,  4, 3, 2, 1>>
  IN  [i \in Cells |-> values[i + 1]]
Without(cells) == [i \in Cells |-> IF i \in cells THEN 0 ELSE Board[i]]

\* Puzzles with one solution and with several, up to the empty board; puzzles with one
\* given changed to another digit or to no digit.
SmallPuzzles ==
  {Without(b) : b \in SUBSET {0, 1, 4, 5, 6, 7, 8, 12, 15}} \cup
  {Without(Cells \ b) : b \in {{}, {0, 5, 10}, {1, 7, 14}, {0, 7, 9, 14}, {3, 6, 8}}} \cup
  {[Without(b) EXCEPT ![i] = v] : b \in SUBSET {0, 1, 4, 6, 15}, i \in {2, 5, 9}, v \in 1 .. 5}

NoPuzzle ==
  /\ puzzle = <<>> /\ inout_ = <<>> /\ matrix = <<>> /\ stack_ = <<>>
  /\ at = "none" /\ cursor = None

\* A behaviour is one of the buffer, of the calendar or of the solver.
SequentialInit ==
  /\ BufferInit /\ CalendarInit
  /\ \/ part \in {"buffer", "calendar"} /\ NoPuzzle
     \/ part = "solver" /\ SolverInit

BufferStep == part = "buffer" /\ BufferNext /\ UNCHANGED <<part, calendarVars, solverVars>>
CalendarStep == part = "calendar" /\ CalendarNext /\ UNCHANGED <<part, bufferVars, solverVars>>
SolverStep == part = "solver" /\ SolverNext /\ UNCHANGED <<part, bufferVars, calendarVars>>

SequentialSpec ==
  /\ SequentialInit
  /\ [][BufferStep \/ CalendarStep \/ SolverStep]_<<part, bufferVars, calendarVars, solverVars>>
=============================================================================
