---------------------------- MODULE SudokuSolver ----------------------------
(***************************************************************************)
(* solveSudoku() (net/sudoku/sudoku.cc): a puzzle becomes an exact cover   *)
(* problem, a sparse matrix of linked nodes, and solve() searches it by    *)
(* covering and uncovering columns in place.                               *)
(*                                                                         *)
(* A column stands for a constraint that the givens leave open (a cell is  *)
(* filled; a row, a column or a box has a value) and a row of four nodes   *)
(* for a value in a cell.  The recursion of solve() is a search with       *)
(* stack_: a frame's column is the column of the node it pushed.           *)
(***************************************************************************)
EXTENDS DancingLinks, Integers, FiniteSets, SequencesExt, TLC

CONSTANTS
  BoxSide,    \* 3 in the code: boxes of 3 x 3 cells
  Puzzles     \* the puzzles given; a value above Side is a character that is no digit

ASSUME SolverAssumption == BoxSide \in 1 .. 3

Side == BoxSide * BoxSide
kCells == Side * Side
kMaxNodes == 1 + 4 * kCells + 4 * Side * kCells

VARIABLES
  puzzle,
  inout_,    \* the board, and the solution when there is one
  matrix,    \* nodes_ in rings of rows (h) and of columns (v), col, name and size of each
  stack_,
  at,        \* where the innermost solve() is: start, enter, rows, back, true, false, assert
  cursor     \* its col and row, in its loop over the rows

solverVars == <<puzzle, inout_, matrix, stack_, at, cursor>>

Cells == 0 .. kCells - 1
Values == 1 .. Side

Row(i) == i \div Side
Col(i) == i % Side
Box(i) == BoxSide * (Row(i) \div BoxSide) + Col(i) \div BoxSide

kRow == 100
kCol == 200
kBox == 300
get_row_col(row, v) == kRow + row * 10 + v
get_col_col(col, v) == kCol + col * 10 + v
get_box_col(box, v) == kBox + box * 10 + v
-----------------------------------------------------------------------------
(* The constructor. *)

\* A value that the givens use in a row, a column or a box.
Used(board, unit(_), n, v) == \E i \in Cells : unit(i) = n /\ board[i] = v

root == 1

Empty == [next |-> <<>>, prev |-> <<>>]

\* A new node, in its two rings by itself.
NewNode(m, c, n) ==
  [m EXCEPT !.h = Alone(@), !.v = Alone(@), !.col = Append(@, c), !.name = Append(@, n),
            !.size = Append(@, 0), !.ok = @ /\ Len(m.name) < kMaxNodes]

new_column(m, n) == NewNode(m, Len(m.name) + 1, n)

append_column(m, n) ==
  LET c == Len(m.name) + 1
  IN  [new_column(m, n) EXCEPT !.h = PutBefore(@, root, c), !.columns = @ @@ (n :> c),
                               !.ok = @ /\ n \notin DOMAIN m.columns]

\* new_row() with put_up(): a node at the bottom of column n.
new_row(m, n) ==
  LET c == m.columns[n]
      r == Len(m.name) + 1
  IN  IF n \notin DOMAIN m.columns THEN [m EXCEPT !.ok = FALSE]
      ELSE [NewNode(m, c, n) EXCEPT !.v = PutBefore(@, c, r), !.size[c] = @ + 1]

\* The columns in the order of the constructor's loops.
ColumnNames(board) ==
  SelectSeq([i \in 1 .. kCells |-> i - 1], LAMBDA i : board[i] = 0) \o
  FlattenSeq([k \in 1 .. kCells |->
    LET i == (k - 1) \div Side
        v == 1 + ((k - 1) % Side)
    IN  (IF Used(board, Row, i, v) THEN <<>> ELSE <<get_row_col(i, v)>>) \o
        (IF Used(board, Col, i, v) THEN <<>> ELSE <<get_col_col(i, v)>>) \o
        (IF Used(board, Box, i, v) THEN <<>> ELSE <<get_box_col(i, v)>>)])

\* The values that the constructor tries, cell by cell.
Candidates(board) ==
  SelectSeq(
    [k \in 1 .. kCells * Side |-> <<(k - 1) \div Side, 1 + ((k - 1) % Side)>>],
    LAMBDA iv : LET i == iv[1]
                    v == iv[2]
                IN  /\ board[i] = 0
                    /\ ~Used(board, Row, Row(i), v)
                    /\ ~Used(board, Col, Col(i), v)
                    /\ ~Used(board, Box, Box(i), v))

\* The four nodes of a choice, put to the left of the first one in turn.
AppendRow(m, iv) ==
  LET i == iv[1]
      v == iv[2]
      n0 == Len(m.name) + 1
      m1 == new_row(new_row(new_row(new_row(m, i), get_row_col(Row(i), v)),
                            get_col_col(Col(i), v)), get_box_col(Box(i), v))
  IN  IF ~m1.ok THEN m1
      ELSE [m1 EXCEPT !.h = PutBefore(PutBefore(PutBefore(@, n0, n0 + 1), n0, n0 + 2), n0, n0 + 3)]

RECURSIVE AppendColumns(_, _)
AppendColumns(m, names) ==
  IF names = <<>> \/ ~m.ok THEN m ELSE AppendColumns(append_column(m, Head(names)), Tail(names))

RECURSIVE AppendRows(_, _)
AppendRows(m, choices) ==
  IF choices = <<>> \/ ~m.ok THEN m ELSE AppendRows(AppendRow(m, Head(choices)), Tail(choices))

\* SudokuSolver::SudokuSolver(); ok: no assertion has failed.
Matrix(board) ==
  LET none == [h |-> Empty, v |-> Empty, col |-> <<>>, name |-> <<>>, size |-> <<>>,
               columns |-> <<>>, ok |-> TRUE]
  IN  AppendRows(AppendColumns(new_column(none, 0), ColumnNames(board)), Candidates(board))
-----------------------------------------------------------------------------
(* The search. *)

\* The nodes met from n along the links, until n is reached again.
Ring(link, n) ==
  LET RECURSIVE From(_)
      From(x) == IF x = n THEN <<>> ELSE <<x>> \o From(link[x])
  IN  From(link[n])

\* The other nodes of every row of a column, rows and nodes along the given links.
RowNodes(m, c, vertical, horizontal) ==
  FlattenSeq([i \in DOMAIN Ring(vertical, c) |-> Ring(horizontal, Ring(vertical, c)[i])])

CoverNode(m, j) == [m EXCEPT !.v = Unlink(@, j), !.size[m.col[j]] = @ - 1]
UncoverNode(m, j) == [m EXCEPT !.v = Relink(@, j), !.size[m.col[j]] = @ + 1]

cover(m, c) ==
  FoldLeft(CoverNode, [m EXCEPT !.h = Unlink(@, c)], RowNodes(m, c, m.v.next, m.h.next))

uncover(m, c) ==
  [FoldLeft(UncoverNode, m, RowNodes(m, c, m.v.prev, m.h.prev)) EXCEPT !.h = Relink(@, c)]

\* The first column of at most one row, or else the first of the smallest.
get_min_column(m) ==
  LET columns == Ring(m.h.next, root)
      Size(i) == m.size[columns[i]]
      Taken(i) == IF Size(i) <= 1 THEN \A k \in 1 .. i - 1 : Size(k) > 1
                  ELSE /\ \A k \in DOMAIN columns : Size(k) >= Size(i)
                       /\ \A k \in 1 .. i - 1 : Size(k) > Size(i)
  IN  columns[CHOOSE i \in DOMAIN columns : Taken(i)]

\* Mutant: the tens of a name are taken for its value.
CellAndTens(m, n) ==
  LET names == <<m.name[n]>> \o [i \in DOMAIN Ring(m.h.next, n) |-> m.name[Ring(m.h.next, n)[i]]]
  IN  [cell |-> SelectSeq(names, LAMBDA x : x < 100)[1],
       val |-> (SelectSeq(names, LAMBDA x : x >= 100)[1] \div 10) % 10]

\* The cell and the value of a row, read off its nodes from n on; the first name
\* above 100 that is met has the value.
CellAndValue(m, n) ==
  LET names == <<m.name[n]>> \o [i \in DOMAIN Ring(m.h.next, n) |-> m.name[Ring(m.h.next, n)[i]]]
  IN  [cell |-> SelectSeq(names, LAMBDA x : x < 100)[1],
       val |-> SelectSeq(names, LAMBDA x : x >= 100)[1] % 10]

None == [col |-> 0, row |-> 0]

SolverInit ==
  /\ puzzle \in Puzzles
  /\ inout_ = puzzle /\ matrix = <<>> /\ stack_ = <<>> /\ at = "start" /\ cursor = None

\* solveSudoku() up to the call of solve(): a puzzle with another character than a
\* digit has no solution.
Start ==
  /\ at = "start"
  /\ IF \A i \in Cells : puzzle[i] \in 0 .. Side
     THEN /\ matrix' = Matrix(puzzle)
          /\ at' = IF matrix'.ok THEN "enter" ELSE "assert"
     ELSE at' = "false" /\ UNCHANGED matrix
  /\ UNCHANGED <<puzzle, inout_, stack_, cursor>>

\* No column is left: the stack is the solution.
Solved ==
  /\ at = "enter" /\ matrix.h.prev[root] = root
  /\ inout_' = FoldLeft(LAMBDA b, n : [b EXCEPT ![CellAndValue(matrix, n).cell] =
                                                  CellAndValue(matrix, n).val],
                        inout_, stack_)
  /\ at' = "true"
  /\ UNCHANGED <<puzzle, matrix, stack_, cursor>>

Enter ==
  /\ at = "enter" /\ matrix.h.prev[root] # root
  /\ LET c == get_min_column(matrix)
     IN  /\ matrix' = cover(matrix, c)
         /\ cursor' = [col |-> c, row |-> matrix'.v.next[c]]
  /\ at' = "rows"
  /\ UNCHANGED <<puzzle, inout_, stack_>>

\* One row of the loop: it is pushed, the columns of its other nodes are covered and
\* solve() is called.
TryRow ==
  /\ at = "rows" /\ cursor.row # cursor.col
  /\ stack_' = Append(stack_, cursor.row)
  /\ matrix' = FoldLeft(LAMBDA m, j : cover(m, m.col[j]), matrix, Ring(matrix.h.next, cursor.row))
  /\ at' = "enter" /\ cursor' = None
  /\ UNCHANGED <<puzzle, inout_>>

\* The rows are done: solve() returns false, to solve() or to solveSudoku().
NoRowLeft ==
  /\ at = "rows" /\ cursor.row = cursor.col
  /\ matrix' = uncover(matrix, cursor.col)
  /\ at' = IF stack_ = <<>> THEN "false" ELSE "back"
  /\ cursor' = None
  /\ UNCHANGED <<puzzle, inout_, stack_>>

\* Mutant: the columns are uncovered in the order in which they were covered.
BackInOrder ==
  /\ at = "back"
  /\ LET row == Last(stack_)
     IN  /\ matrix' = FoldLeft(LAMBDA m, j : uncover(m, m.col[j]), matrix, Ring(matrix.h.next, row))
         /\ cursor' = [col |-> matrix.col[row], row |-> matrix'.v.next[row]]
  /\ stack_' = Front(stack_)
  /\ at' = "rows"
  /\ UNCHANGED <<puzzle, inout_>>

\* solve() returned false: the row is taken back, and the loop goes on.
Back ==
  /\ at = "back"
  /\ LET row == Last(stack_)
     IN  /\ matrix' = FoldLeft(LAMBDA m, j : uncover(m, m.col[j]), matrix, Ring(matrix.h.prev, row))
         /\ cursor' = [col |-> matrix.col[row], row |-> matrix'.v.next[row]]
  /\ stack_' = Front(stack_)
  /\ at' = "rows"
  /\ UNCHANGED <<puzzle, inout_>>

SolverNext == Start \/ Solved \/ Enter \/ TryRow \/ NoRowLeft \/ Back

SolverSpec == SolverInit /\ [][SolverNext]_solverVars
-----------------------------------------------------------------------------
RowOf(n) == {n} \cup Range(Ring(matrix.h.next, n))
ColumnsOf(n) == {matrix.col[j] : j \in RowOf(n)}

\* The columns that solve() has covered: those of the rows it has chosen, and the one
\* whose rows it is trying.
Covered == UNION {ColumnsOf(n) : n \in Range(stack_)} \cup {cursor.col}

Header == Cardinality(DOMAIN matrix.columns) + 1

\* A ring holds the given nodes, in both directions.
Holds(ring, n, nodes) == Ring(ring.next, n) = nodes /\ Ring(ring.prev, n) = Reverse(nodes)

\* Covering and uncovering in place keeps the links equal to the problem that is left
\* for the rows on the stack, whatever was tried and taken back before: the columns
\* not covered, each with the rows that touch no covered column and with their count.
LinksAreWhatIsLeft ==
  matrix # <<>> /\ at # "assert" =>
    LET covered == Covered
        Left(c) == SelectSeq([i \in 1 .. Len(matrix.col) - Header |-> Header + i],
                             LAMBDA n : /\ matrix.col[n] = c
                                        /\ ColumnsOf(n) \cap (covered \ {c}) = {})
    IN  /\ Holds(matrix.h, root,
                 SelectSeq([i \in 1 .. Header - 1 |-> i + 1], LAMBDA c : c \notin covered))
        /\ \A c \in 2 .. Header :
             c \notin covered \/ c = cursor.col =>
               Holds(matrix.v, c, Left(c)) /\ matrix.size[c] = Len(Left(c))

Blank == {i \in Cells : puzzle[i] = 0}

\* The rules of the game.
Legal(board) ==
  /\ \A i \in Cells : board[i] \in Values
  /\ \A i, j \in Cells :
       i < j /\ (Row(i) = Row(j) \/ Col(i) = Col(j) \/ Box(i) = Box(j)) => board[i] # board[j]

\* solveSudoku() returns a legal board with the givens in their places, and NoSolution
\* only for a puzzle that has none: also for givens that contradict each other, which
\* it does not look for, and for a board without room for one node more.
SolvesPuzzle ==
  /\ at = "true" => Legal(inout_) /\ \A i \in Cells \ Blank : inout_[i] = puzzle[i]
  /\ at = "false" => ~\E fill \in [Blank -> Values] : Legal(fill @@ puzzle)
  /\ at # "assert"
=============================================================================
