--------------------------- MODULE SerialExecutor ---------------------------
(***************************************************************************)
(* What EventLoop promises to the threads that queue functors, with no     *)
(* poller, no eventfd and no batches: functors run one at a time, each     *)
(* exactly once, in the order in which they were queued, and only while    *)
(* the executor is open; while it stays open it does not leave one waiting.*)
(***************************************************************************)
EXTENDS Integers, Sequences

CONSTANT MaxFunctors

VARIABLES
  queue,      \* functors not yet started
  ran,        \* functors started, in order
  executing,  \* a functor is running
  open        \* loop() is running

vars == <<queue, ran, executing, open>>

Init ==
  /\ queue = <<>>
  /\ ran = <<>>
  /\ executing = FALSE
  /\ open = FALSE

Submit ==
  /\ Len(ran) + Len(queue) < MaxFunctors
  /\ queue' = Append(queue, Len(ran) + Len(queue) + 1)
  /\ UNCHANGED <<ran, executing, open>>

Start ==
  /\ open
  /\ ~executing
  /\ queue # <<>>
  /\ ran' = Append(ran, Head(queue))
  /\ queue' = Tail(queue)
  /\ executing' = TRUE
  /\ UNCHANGED open

Finish ==
  /\ executing
  /\ executing' = FALSE
  /\ UNCHANGED <<queue, ran, open>>

\* loop() is entered or returns, never from inside a functor.
Toggle ==
  /\ ~executing
  /\ open' = ~open
  /\ UNCHANGED <<queue, ran, executing>>

Next == Submit \/ Start \/ Finish \/ Toggle

Spec == Init /\ [][Next]_vars

Fairness == WF_vars(Start) /\ WF_vars(Finish)
=============================================================================
