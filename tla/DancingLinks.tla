---------------------------- MODULE DancingLinks ----------------------------
(***************************************************************************)
(* The doubly linked rings that the Sudoku solver (net/sudoku/sudoku.cc)   *)
(* is built from.  Nodes are numbers; a ring is the pair of links of every *)
(* node, right and left within a row, down and up within a column.  Unlink *)
(* takes a node out of its ring and leaves the node's own links in place,  *)
(* which is what lets Relink put it back.                                 *)
(***************************************************************************)
EXTENDS Naturals, Sequences

\* new_column() and new_row(): one more node, linked to itself.
Alone(ring) ==
  LET n == Len(ring.next) + 1
  IN  [next |-> Append(ring.next, n), prev |-> Append(ring.prev, n)]

\* put_left() and the links of put_up(): nnew goes before old.
PutBefore(ring, old, nnew) ==
  [next |-> [ring.next EXCEPT ![nnew] = old, ![ring.prev[old]] = nnew],
   prev |-> [ring.prev EXCEPT ![nnew] = ring.prev[old], ![old] = nnew]]

\* What cover() does to one node.
Unlink(ring, x) ==
  [next |-> [ring.next EXCEPT ![ring.prev[x]] = ring.next[x]],
   prev |-> [ring.prev EXCEPT ![ring.next[x]] = ring.prev[x]]]

\* What uncover() does to one node.
Relink(ring, x) ==
  [next |-> [ring.next EXCEPT ![ring.prev[x]] = x],
   prev |-> [ring.prev EXCEPT ![ring.next[x]] = x]]
-----------------------------------------------------------------------------
\* The rings over a set of nodes.
Rings(Nodes) == [next : [Nodes -> Nodes], prev : [Nodes -> Nodes]]

\* The neighbours of a node point back at it.
Linked(ring, x) == ring.next[ring.prev[x]] = x /\ ring.prev[ring.next[x]] = x
=============================================================================
