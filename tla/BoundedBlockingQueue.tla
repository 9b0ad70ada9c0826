------------------------- MODULE BoundedBlockingQueue -------------------------
(***************************************************************************)
(* base/bounded_blocking_queue.h, and base/blocking_queue.h as the case    *)
(* maxSize = 0, a queue that is never full; with the mutex and the         *)
(* condition variables of base/mutex.h and base/condition.h.               *)
(*                                                                         *)
(* put() and take() hold mutex_ from their first line to their last, except*)
(* inside Condition::wait(): each stretch between is one step.  A thread   *)
(* is woken when a notify() or a spurious wakeup took it out of the wait   *)
(* and it has not yet got the mutex back.  Items are 1, 2, 3, ... in the   *)
(* order of the put() calls.                                               *)
(***************************************************************************)
EXTENDS Integers, Sequences, FiniteSets

CONSTANTS
  Producers, Consumers,
  maxSize,    \* capacity; 0: unbounded
  MaxItems    \* bound: calls of put()

ASSUME QueueAssumption ==
  /\ IsFiniteSet(Producers) /\ IsFiniteSet(Consumers)
  /\ Producers \cap Consumers = {}
  /\ maxSize \in Nat /\ MaxItems \in Nat

VARIABLES
  queue_,
  onNotFull,   \* producers in notFull_.wait()
  onNotEmpty,  \* consumers in notEmpty_.wait()
  woken,       \* threads that left a wait() and are about to test again
  count,       \* items put so far
  taken        \* history: items taken, in order

blockingVars == <<queue_, onNotFull, onNotEmpty, woken, count, taken>>

QueueTypeOK ==
  /\ queue_ \in Seq(Nat) /\ taken \in Seq(Nat) /\ count \in Nat
  /\ onNotFull \subseteq Producers /\ onNotEmpty \subseteq Consumers
  /\ woken \subseteq (Producers \cup Consumers) \ (onNotFull \cup onNotEmpty)

QueueInit ==
  /\ queue_ = <<>> /\ taken = <<>> /\ count = 0
  /\ onNotFull = {} /\ onNotEmpty = {} /\ woken = {}

full == maxSize > 0 /\ Len(queue_) >= maxSize
empty == queue_ = <<>>

\* A thread of a set that waits is woken, if there is one; t itself goes on.
Notified(waiting, rest, t) ==
  IF waiting = {}
  THEN rest = waiting /\ woken' = woken \ {t}
  ELSE \E u \in waiting : rest = waiting \ {u} /\ woken' = (woken \ {t}) \cup {u}

\* put() finds the queue full, for the first time or again.
PutWait(p) ==
  /\ p \notin onNotFull /\ count < MaxItems /\ full
  /\ onNotFull' = onNotFull \cup {p}
  /\ woken' = woken \ {p}
  /\ UNCHANGED <<queue_, onNotEmpty, count, taken>>

\* Mutant: put() notifies only when the queue was empty.
PutNotifiesIfEmpty(p) ==
  /\ p \notin onNotFull /\ count < MaxItems /\ ~full
  /\ queue_' = Append(queue_, count + 1)
  /\ count' = count + 1
  /\ IF empty
     THEN Notified(onNotEmpty, onNotEmpty', p)
     ELSE onNotEmpty' = onNotEmpty /\ woken' = woken \ {p}
  /\ UNCHANGED <<onNotFull, taken>>

\* put() adds its item.
Put(p) ==
  /\ p \notin onNotFull /\ count < MaxItems /\ ~full
  /\ queue_' = Append(queue_, count + 1)
  /\ count' = count + 1
  /\ Notified(onNotEmpty, onNotEmpty', p)
  /\ UNCHANGED <<onNotFull, taken>>

\* take() finds the queue empty, for the first time or again.
TakeWait(c) ==
  /\ c \notin onNotEmpty /\ empty
  /\ onNotEmpty' = onNotEmpty \cup {c}
  /\ woken' = woken \ {c}
  /\ UNCHANGED <<queue_, onNotFull, count, taken>>

\* take() removes the front item.
Take(c) ==
  /\ c \notin onNotEmpty /\ ~empty
  /\ taken' = Append(taken, Head(queue_))
  /\ queue_' = Tail(queue_)
  /\ Notified(onNotFull, onNotFull', c)
  /\ UNCHANGED <<onNotEmpty, count>>

\* pthread_cond_wait() returns without a notification.
SpuriousWakeup(t) ==
  /\ t \in onNotFull \cup onNotEmpty
  /\ onNotFull' = onNotFull \ {t} /\ onNotEmpty' = onNotEmpty \ {t}
  /\ woken' = woken \cup {t}
  /\ UNCHANGED <<queue_, count, taken>>

QueueNext ==
  \/ \E p \in Producers : PutWait(p) \/ Put(p)
  \/ \E c \in Consumers : TakeWait(c) \/ Take(c)
  \/ \E t \in Producers \cup Consumers : SpuriousWakeup(t)

QueueSpec == QueueInit /\ [][QueueNext]_blockingVars

\* A thread that is woken gets the mutex: no more is asked of the scheduler, and
\* nothing of a thread that is not inside put() or take().
QueueFairSpec ==
  /\ QueueSpec
  /\ \A p \in Producers : WF_blockingVars(p \in woken /\ (PutWait(p) \/ Put(p)))
  /\ \A c \in Consumers : WF_blockingVars(c \in woken /\ (TakeWait(c) \/ Take(c)))

(***************************************************************************)
(* Properties.                                                             *)
(***************************************************************************)

\* Items leave in the order in which put() added them, none lost or doubled, and
\* a bounded queue is never over its capacity.
FirstInFirstOut ==
  /\ taken \o queue_ = [i \in 1..count |-> i]
  /\ maxSize > 0 => Len(queue_) <= maxSize

\* One notify() per put() is enough: while a consumer waits, there are as many
\* consumers already woken as there are items.
NoConsumerForgotten ==
  onNotEmpty # {} => Len(queue_) <= Cardinality(woken \cap Consumers)

\* One notify() per take() is enough: while a producer waits, there are as many
\* producers already woken as there are free places.
NoProducerForgotten ==
  onNotFull # {} => maxSize - Len(queue_) <= Cardinality(woken \cap Producers)

\* Neither notify() is lost: nobody waits for something that is there unless
\* somebody awake will take it.
NoWaiterForgotten == NoConsumerForgotten /\ NoProducerForgotten

\* A consumer does not wait forever in front of an item.
ItemIsTaken ==
  \A c \in Consumers : (c \in onNotEmpty /\ ~empty) ~> (c \notin onNotEmpty \/ empty)
==============================================================================
