--------------------------- MODULE MCSudokuService ---------------------------
(***************************************************************************)
(* SudokuService for TLC.                                                  *)
(***************************************************************************)
EXTENDS SudokuService

Line(len, id, solvable) == [len |-> len, id |-> id, solvable |-> solvable]
Plain == Line(kCells, 0, TRUE)
WithId == Line(kCells + 2, 2, TRUE)
Unsolvable == Line(kCells, 0, FALSE)
Bad == Line(kCells + 1, 0, TRUE)
Long == Line(MaxLine + 1, MaxLine + 1 - kCells, TRUE)

Files(n) == [1 .. n -> {Plain, WithId, Unsolvable, Bad}] \cup {<<Long, Plain>>}

\* Up to three requests on one connection, and one request on each of two.
SmallBatches ==
  [input : Files(3), conn : {1}] \cup [input : [1 .. 1 -> {Plain, Bad}], conn : {2}]
=============================================================================
