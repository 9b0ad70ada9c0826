------------------------------ MODULE ByteQueue ------------------------------
(***************************************************************************)
(* What Buffer promises its users: a queue of bytes that is extended at    *)
(* either end and shortened at either end, with no capacity and no indices.*)
(***************************************************************************)
EXTENDS Integers, Sequences

CONSTANTS
  Data   \* the byte strings that callers store

VARIABLE content

Init == content = <<>>

Append_(data) == content' = content \o data

Prepend(data) == content' = data \o content

Retrieve(n) == content' = SubSeq(content, n + 1, Len(content))

Unwrite(n) == content' = SubSeq(content, 1, Len(content) - n)

Next ==
  \/ \E data \in Data : Append_(data) \/ Prepend(data)
  \/ \E n \in 0..Len(content) : Retrieve(n) \/ Unwrite(n)

Spec == Init /\ [][Next]_content
=============================================================================
