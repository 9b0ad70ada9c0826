-------------------------- MODULE TimerQueueProofs --------------------------
(***************************************************************************)
(* Proofs about TimerQueue, for any threads, addresses, intervals and      *)
(* bounds: the timers of the two sets, of the functors that wait and of    *)
(* the batch that is running are accounted for, a cancelled timer stays    *)
(* out, none is lost, and the alarm is never too late.                     *)
(***************************************************************************)
EXTENDS TimerQueue, FiniteSetTheorems, WellFoundedInduction, TLAPS

\* The time that the provers may take for a step.
USE SMTT(20), ZenonT(20)

(***************************************************************************)
(* Types.                                                                  *)
(***************************************************************************)

TimerObject == [expiration : Nat, interval : Nat, sequence : Nat]
Functor == [op : {"add", "cancel"}, id : Addresses \X Nat]
KnownIds == Addresses \X (0..numCreated)

\* Types, with what pc says of the batch and that no id is from the future.
Types ==
  /\ clock \in Nat \ {0} /\ armed \in Nat /\ now \in Nat /\ numCreated \in Nat
  /\ heap \in [Addresses -> TimerObject]
  /\ \A a \in Addresses : heap[a].sequence <= numCreated
  /\ timers_ \subseteq Nat \X Addresses /\ activeTimers_ \subseteq Addresses \X Nat
  /\ pc \in {"loop", "active", "calling"}
  /\ callingExpiredTimers_ = (pc = "calling")
  /\ expired \subseteq Addresses /\ todo \subseteq expired
  /\ pc # "calling" => expired = {}
  /\ pending \in Seq(Functor)
  /\ \A i \in 1..Len(pending) : pending[i].id \in KnownIds
  /\ caller \in [Callers -> KnownIds \cup {<<>>}]
  /\ ids \subseteq KnownIds /\ cancelled \subseteq KnownIds /\ cancelingTimers_ \subseteq cancelled
  /\ repeating \subseteq 1..numCreated

\* What Append() and Tail() make of a queue of functors.
LEMMA Appended ==
  ASSUME NEW p \in Seq(Functor), NEW f \in Functor
  PROVE  /\ Append(p, f) \in Seq(Functor) /\ Len(Append(p, f)) = Len(p) + 1
         /\ \A i \in 1..Len(p) : Append(p, f)[i] = p[i]
         /\ Append(p, f)[Len(p) + 1] = f
OBVIOUS

\* Running the first queued functor leaves the others in their order.
LEMMA Removed ==
  ASSUME NEW p \in Seq(Functor), p # <<>>
  PROVE  /\ Tail(p) \in Seq(Functor) /\ Len(Tail(p)) = Len(p) - 1 /\ Len(p) \in Nat \ {0}
         /\ \A i \in 1..Len(Tail(p)) : i + 1 \in 1..Len(p) /\ Tail(p)[i] = p[i + 1]
         /\ Head(p) = p[1] /\ Head(p) \in Functor
OBVIOUS

\* earliest() is the least expiration, and the alarm's time a number.
LEMMA Earliest ==
  ASSUME NEW S, S \subseteq Nat \X Addresses, S # {}
  PROVE  /\ earliest(S) \in Nat
         /\ \E entry \in S : entry[1] = earliest(S)
         /\ \A entry \in S : earliest(S) <= entry[1]
<1> DEFINE T == {entry[1] : entry \in S}
<1>1. T \subseteq Nat /\ T # {}
  OBVIOUS
<1> DEFINE R == {ss \in Nat \X Nat : ss[1] < ss[2]}
<1>2. IsWellFoundedOn(R, Nat)
  BY NatLessThanWellFounded DEF OpToRel
<1>3. \E x \in T : \A y \in T : x <= y
  <2>1. PICK x \in T : \A y \in T : ~(<<y, x>> \in R)
    <3> HIDE DEF T, R
    <3> QED  BY <1>1, <1>2, WFMin, Zenon
  <2>2. \A y \in T : x \in Nat /\ y \in Nat /\ ~(y < x)
    BY <1>1, <2>1, Zenon
  <2> HIDE DEF T
  <2> QED  BY <2>2
<1>4. Min(T) \in T /\ \A y \in T : Min(T) <= y
  <2> HIDE DEF T
  <2> QED  BY <1>3 DEF Min
<1> QED  BY <1>1, <1>4, Zenon DEF earliest

\* The later of two times.
LEMMA Later ==
  ASSUME NEW m \in Nat, NEW n \in Nat
  PROVE  /\ Max({m, n}) \in {m, n} /\ Max({m, n}) \in Nat
         /\ m <= Max({m, n}) /\ n <= Max({m, n})
<1>1. CASE m <= n
  <2>1. \A y \in {m, n} : n >= y  BY <1>1
  <2> QED  BY <2>1 DEF Max
<1>2. CASE n <= m
  <2>1. \A y \in {m, n} : m >= y  BY <1>2
  <2> QED  BY <2>1 DEF Max
<1> QED  BY <1>1, <1>2

\* resetTimerfd() sets an alarm: never 0, which would disarm the timerfd.
LEMMA AlarmTime ==
  ASSUME Types, NEW when \in Nat
  PROVE  /\ resetTimerfd(when) \in Nat \ {0}
         /\ resetTimerfd(when) = Max({when, clock + MinDelay})
<1>1. clock + MinDelay \in Nat \ {0}
  BY TimeAssumption DEF Types
<1>2. /\ Max({when, clock + MinDelay}) \in Nat
      /\ clock + MinDelay <= Max({when, clock + MinDelay})
  BY <1>1, Later
<1> QED  BY <1>1, <1>2 DEF resetTimerfd

\* What addTimer() may be called with.
LEMMA SchedulesAreTimes ==
  ASSUME Types, NEW s \in Schedules
  PROVE  s[1] \in Nat /\ s[2] \in Nat
BY TimeAssumption DEF Schedules, Types

\* Each operation keeps the types.
LEMMA InsertTypes ==
  ASSUME Types, NEW a \in Addresses, NEW when \in Nat, NEW seq \in Nat, addTimerInLoop(a, when, seq)
  PROVE  armed' \in Nat /\ timers_' \subseteq Nat \X Addresses /\ activeTimers_' \subseteq Addresses \X Nat
<1>1. armed' \in Nat
  BY AlarmTime, Zenon DEF addTimerInLoop, Types
<1> QED  BY <1>1 DEF addTimerInLoop, Types

\* new Timer: the sequence number is fresh and the identifier known from now on.
LEMMA NewTimerTypes ==
  ASSUME Types, NEW a \in Addresses, NEW s \in Schedules, NewTimer(a, s[1], s[2])
  PROVE  /\ numCreated' = numCreated + 1 /\ numCreated' \in Nat
         /\ heap' \in [Addresses -> TimerObject]
         /\ \A b \in Addresses : heap'[b].sequence <= numCreated'
         /\ <<a, numCreated + 1>> \in KnownIds' /\ KnownIds \subseteq KnownIds'
         /\ repeating' \subseteq 1..numCreated' /\ cancelled' = cancelled
<1>1. s[1] \in Nat /\ s[2] \in Nat  BY SchedulesAreTimes
<1>2. numCreated' = numCreated + 1 /\ numCreated' \in Nat
  BY DEF NewTimer, Types
<1>3. heap' \in [Addresses -> TimerObject]
  BY <1>1, <1>2 DEF NewTimer, Types, TimerObject
<1>4. \A b \in Addresses : heap'[b].sequence <= numCreated'
  BY <1>2 DEF NewTimer, Types, TimerObject
<1>5. numCreated + 1 \in 0..numCreated' /\ 0..numCreated \subseteq 0..numCreated'
  BY <1>2 DEF Types
<1>6. <<a, numCreated + 1>> \in KnownIds' /\ KnownIds \subseteq KnownIds'
  BY <1>5 DEF KnownIds
<1>7. repeating' \subseteq 1..numCreated'
  <2>1. 1..numCreated \subseteq 1..numCreated' /\ numCreated + 1 \in 1..numCreated'
    BY <1>2 DEF Types
  <2> QED  BY <2>1 DEF NewTimer, Types
<1> QED  BY <1>2, <1>3, <1>4, <1>6, <1>7 DEF NewTimer

\* cancelInLoop() only takes timers away.
LEMMA CancelTypes ==
  ASSUME Types, NEW id \in KnownIds, cancelInLoop(id), UNCHANGED numCreated
  PROVE  /\ armed' = armed /\ repeating' = repeating
         /\ timers_' \subseteq timers_ /\ activeTimers_' \subseteq activeTimers_
         /\ heap' \in [Addresses -> TimerObject]
         /\ \A b \in Addresses : heap'[b].sequence <= numCreated
         /\ cancelled' \subseteq KnownIds /\ cancelingTimers_' \subseteq cancelled'
<1>1. Free \in TimerObject /\ Free.sequence = 0
  BY DEF Free, TimerObject
<1>2. heap' \in [Addresses -> TimerObject]
  BY <1>1 DEF cancelInLoop, Forget, Types
<1>3. \A b \in Addresses : heap'[b].sequence <= numCreated
  BY <1>1 DEF cancelInLoop, Forget, Types
<1> QED  BY <1>2, <1>3 DEF cancelInLoop, Forget, Cancels, Types

\* Type correctness of the queue, which every other proof starts from.
LEMMA TypesHold == Spec => []Types
<1> USE TimeAssumption
<1>1. Init => Types
  <2> SUFFICES ASSUME Init PROVE Types
    OBVIOUS
  <2>1. heap \in [Addresses -> TimerObject] /\ \A a \in Addresses : heap[a].sequence <= numCreated
    BY DEF Init, Free, TimerObject
  <2>2. pending \in Seq(Functor) /\ \A i \in 1..Len(pending) : pending[i].id \in KnownIds
    BY DEF Init
  <2>3. caller \in [Callers -> KnownIds \cup {<<>>}]
    BY DEF Init
  <2>4. callingExpiredTimers_ = (pc = "calling")
    BY Zenon DEF Init
  <2> QED  BY <2>1, <2>2, <2>3, <2>4 DEF Init, Types
<1>2. Types /\ [Next]_vars => Types'
  <2> SUFFICES ASSUME Types, [Next]_vars PROVE Types'
    OBVIOUS
  <2>1. ASSUME NEW a \in Addresses, NEW s \in Schedules, AddTimer(a, s) PROVE Types'
    <3>1. NewTimer(a, s[1], s[2]) /\ addTimerInLoop(a, s[1], numCreated + 1)
          /\ ids' = ids \cup {<<a, numCreated + 1>>}
          /\ UNCHANGED <<clock, cancelingTimers_, batchVars, pending, caller>>
      BY <2>1 DEF AddTimer
    <3>2. armed' \in Nat /\ timers_' \subseteq Nat \X Addresses /\ activeTimers_' \subseteq Addresses \X Nat
      <4>1. s[1] \in Nat /\ numCreated + 1 \in Nat
        BY SchedulesAreTimes DEF Types
      <4> QED  BY <3>1, <4>1, InsertTypes, Zenon
    <3> QED  BY <3>1, <3>2, NewTimerTypes, Zenon DEF Types, batchVars
  <2>2. ASSUME NEW id \in ids, Cancel(id) PROVE Types'
    <3>1. cancelInLoop(id) /\ UNCHANGED <<clock, batchVars, pending, caller, ids, numCreated>> /\ id \in KnownIds
      BY <2>2 DEF Cancel, Types
    <3> QED  BY <3>1, CancelTypes, Zenon DEF Types, batchVars, KnownIds
  <2>3. ASSUME NEW t \in Callers, NEW a \in Addresses, NEW s \in Schedules, QueueTimer(t, a, s)
        PROVE  Types'
    <3> DEFINE f == [op |-> "add", id |-> <<a, numCreated + 1>>]
    <3>1. NewTimer(a, s[1], s[2]) /\ pending' = Append(pending, f)
          /\ caller' = [caller EXCEPT ![t] = <<a, numCreated + 1>>]
          /\ UNCHANGED <<clock, queueVars, cancelingTimers_, batchVars, ids>>
      BY <2>3 DEF QueueTimer
    <3>2. f \in Functor
      BY DEF Functor, Types
    <3>3. pending' \in Seq(Functor) /\ \A i \in 1..Len(pending') : pending'[i].id \in KnownIds'
      <4>1. /\ pending' \in Seq(Functor) /\ Len(pending') = Len(pending) + 1 /\ Len(pending) \in Nat
            /\ \A i \in 1..Len(pending) : pending'[i] = pending[i]
            /\ pending'[Len(pending) + 1] = f
        <5> HIDE DEF f
        <5> QED  BY <3>1, <3>2, Appended DEF Types
      <4>2. KnownIds \subseteq KnownIds' /\ f.id \in KnownIds'
        BY <3>1, NewTimerTypes
      <4>3. ASSUME NEW i \in 1..Len(pending') PROVE pending'[i].id \in KnownIds'
        <5> HIDE DEF f
        <5>1. i \in 1..Len(pending) \/ i = Len(pending) + 1
          BY <4>1
        <5> QED  BY <5>1, <4>1, <4>2 DEF Types
      <4> QED  BY <4>1, <4>3
    <3>4. caller' \in [Callers -> KnownIds' \cup {<<>>}]
      BY <3>1, NewTimerTypes DEF Types
    <3> QED  BY <3>1, <3>3, <3>4, NewTimerTypes, Zenon DEF Types, batchVars, queueVars
  <2>4. ASSUME NEW t \in Callers, NEW seq \in 0..MaxTimers, ReturnId(t, seq) PROVE Types'
    <3>1. caller[t] \in KnownIds /\ caller[t] # <<>>
      BY <2>4 DEF ReturnId, Types
    <3>2. seq \in 0..numCreated
      <4>1. caller[t][1] \in Addresses /\ caller[t][2] \in 0..numCreated
        BY <3>1 DEF KnownIds
      <4>2. ASSUME NEW a \in Addresses PROVE heap[a].sequence \in 0..numCreated
        <5>1. heap[a] \in TimerObject /\ heap[a].sequence <= numCreated /\ numCreated \in Nat
          BY DEF Types
        <5> QED  BY <5>1 DEF TimerObject
      <4>3. seq \in {heap[caller[t][1]].sequence} \cup (IF caller[t][1] \in allocated THEN {} ELSE {caller[t][2]})
        BY <2>4, Zenon DEF ReturnId
      <4> QED  BY <4>1, <4>2, <4>3, Zenon
    <3>3. ids' \subseteq KnownIds
      BY <3>1, <3>2, <2>4 DEF ReturnId, Types, KnownIds
    <3>4. caller' \in [Callers -> KnownIds \cup {<<>>}]
      BY <2>4 DEF ReturnId, Types
    <3> QED  BY <3>3, <3>4, <2>4 DEF ReturnId, Types, KnownIds, queueVars, batchVars, historyVars
  <2>5. ASSUME NEW t \in Callers, NEW id \in ids, QueueCancel(t, id) PROVE Types'
    <3> DEFINE f == [op |-> "cancel", id |-> id]
    <3>1. f \in Functor /\ id \in KnownIds
      BY DEF Functor, Types, KnownIds
    <3>2. pending' = Append(pending, f)
      BY <2>5 DEF QueueCancel
    <3>3. pending' \in Seq(Functor) /\ \A i \in 1..Len(pending') : pending'[i].id \in KnownIds
      BY <3>1, <3>2, Appended DEF Types
    <3> QED  BY <3>3, <2>5, Zenon DEF QueueCancel, Types, KnownIds, queueVars, batchVars, historyVars
  <2>6. ASSUME RunAdd \/ RunCancel
        PROVE  pending' \in Seq(Functor) /\ \A i \in 1..Len(pending') : pending'[i].id \in KnownIds
    <3>1. pending # <<>> /\ pending' = Tail(pending)
      BY <2>6 DEF RunAdd, RunCancel
    <3> QED  BY <3>1, Removed DEF Types
  <2>7. CASE RunAdd
    <3> DEFINE a == Head(pending).id[1]
    <3>1. pending # <<>> /\ addTimerInLoop(a, heap[a].expiration, heap[a].sequence)
      BY <2>7 DEF RunAdd
    <3>2. a \in Addresses
      BY <3>1, Removed, Zenon DEF Types, Functor
    <3>3. heap[a].expiration \in Nat /\ heap[a].sequence \in Nat
      BY <3>2, Zenon DEF Types, TimerObject
    <3>4. armed' \in Nat /\ timers_' \subseteq Nat \X Addresses /\ activeTimers_' \subseteq Addresses \X Nat
      <4> HIDE DEF a
      <4> QED  BY <3>1, <3>2, <3>3, InsertTypes
    <3> QED  BY <2>6, <2>7, <3>4 DEF RunAdd, Types, KnownIds, batchVars, historyVars
  <2>8. CASE RunCancel
    <3>1. cancelInLoop(Head(pending).id) /\ pending # <<>>
          /\ UNCHANGED <<clock, batchVars, caller, ids, numCreated>>
      BY <2>8 DEF RunCancel
    <3>2. Head(pending).id \in KnownIds
      BY <3>1, Removed DEF Types
    <3> QED  BY <2>6, <2>8, <3>1, <3>2, CancelTypes, Zenon DEF Types, batchVars, KnownIds
  <2>9. CASE PollReturns
    BY <2>9 DEF PollReturns, Types, KnownIds, queueVars, historyVars
  <2>10. CASE HandleRead
    BY <2>10, Zenon DEF HandleRead, Types, KnownIds, historyVars
  <2>11. ASSUME NEW a \in Addresses, RunTimer(a) PROVE Types'
    BY <2>11 DEF RunTimer, Types, KnownIds, queueVars
  <2>12. CASE Reset
    <3> DEFINE again == {a \in expired : Restarts(a)}
    <3>1. /\ heap' = [a \in Addresses |-> IF a \in again THEN restart(heap[a])
                                         ELSE IF a \in expired THEN Free ELSE heap[a]]
          /\ timers_' = timers_ \cup {<<heap'[a].expiration, a>> : a \in again}
          /\ activeTimers_' = activeTimers_ \cup {<<a, heap[a].sequence>> : a \in again}
          /\ armed' = IF timers_' = {} THEN armed ELSE resetTimerfd(earliest(timers_'))
      BY <2>12 DEF Reset
    <3>2. ASSUME NEW a \in Addresses
          PROVE  /\ restart(heap[a]) \in TimerObject /\ restart(heap[a]).sequence = heap[a].sequence
                 /\ Free \in TimerObject /\ Free.sequence = 0
      BY DEF restart, Free, TimerObject, Types
    <3>3. again \subseteq Addresses
      BY Zenon DEF Types
    <3>4. heap' \in [Addresses -> TimerObject] /\ \A a \in Addresses : heap'[a].sequence <= numCreated
      <4> HIDE DEF again
      <4> QED  BY <3>1, <3>2 DEF Types
    <3>5. timers_' \subseteq Nat \X Addresses /\ activeTimers_' \subseteq Addresses \X Nat
      <4> HIDE DEF again
      <4> QED  BY <3>1, <3>3, <3>4 DEF Types, TimerObject
    <3>6. armed' \in Nat
      BY <3>1, <3>5, Earliest, AlarmTime, Zenon DEF Types
    <3> QED  BY <2>12, <3>4, <3>5, <3>6, Zenon DEF Reset, Types, KnownIds, historyVars
  <2>13. CASE Tick
    BY <2>13 DEF Tick, Types, KnownIds, queueVars, batchVars, historyVars
  <2>14. CASE UNCHANGED vars
    BY <2>14 DEF vars, Types, KnownIds, queueVars, batchVars, historyVars
  <2> QED
    BY <2>1, <2>2, <2>3, <2>4, <2>5, <2>7, <2>8, <2>9, <2>10, <2>11, <2>12, <2>13, <2>14
    DEF Next, LoopThread, UserCode
<1> QED  BY <1>1, <1>2, PTL DEF Spec

(***************************************************************************)
(* Owners of timers.                                                       *)
(***************************************************************************)

\* The timers that functors of a queue will insert, and that no two insert the same.
Adds(p) == {p[i].id : i \in {j \in 1..Len(p) : p[j].op = "add"}}
OnceIn(p) == \A i, j \in 1..Len(p) : p[i].op = "add" /\ p[j] = p[i] => i = j

\* queueInLoop() of a functor, for the additions that are waiting.
LEMMA AddsAppended ==
  ASSUME NEW p \in Seq(Functor), NEW f \in Functor, OnceIn(p), f.op = "add" => f.id \notin Adds(p)
  PROVE  /\ OnceIn(Append(p, f))
         /\ Adds(Append(p, f)) = Adds(p) \cup (IF f.op = "add" THEN {f.id} ELSE {})
<1> DEFINE q == Append(p, f)
           n == Len(p)
<1>1. /\ n \in Nat /\ Len(q) = n + 1 /\ q[n + 1] = f
      /\ \A i \in 1..n : q[i] = p[i]
      /\ \A i \in 1..Len(q) : i \in 1..n \/ i = n + 1
      /\ \A i \in 1..n : i \in 1..Len(q) /\ i # n + 1
      /\ n + 1 \in 1..Len(q)
  BY Appended
<1> HIDE DEF q, n
<1>2. ASSUME NEW i \in 1..n, p[i] = f PROVE f.op # "add"
  BY <1>2 DEF Adds, n
<1>3. OnceIn(q)
  BY <1>1, <1>2 DEF OnceIn, n
<1>4. Adds(q) = Adds(p) \cup (IF f.op = "add" THEN {f.id} ELSE {})
  BY <1>1 DEF Adds, n
<1> QED  BY <1>3, <1>4 DEF q

\* doPendingFunctors() runs the first functor, for the additions that are waiting.
LEMMA AddsRemoved ==
  ASSUME NEW p \in Seq(Functor), p # <<>>, OnceIn(p)
  PROVE  /\ OnceIn(Tail(p))
         /\ Adds(Tail(p)) = Adds(p) \ (IF Head(p).op = "add" THEN {Head(p).id} ELSE {})
         /\ Head(p).op = "add" => Head(p).id \in Adds(p)
<1> DEFINE q == Tail(p)
           n == Len(p)
<1>1. /\ n \in Nat \ {0} /\ Len(q) = n - 1 /\ Head(p) = p[1]
      /\ \A i \in 1..Len(q) : i + 1 \in 1..n /\ i + 1 # 1 /\ q[i] = p[i + 1]
      /\ \A i \in 1..n : i = 1 \/ (i - 1 \in 1..Len(q) /\ q[i - 1] = p[i])
      /\ \A i, j \in 1..Len(q) : i + 1 = j + 1 => i = j
      /\ 1 \in 1..n
  BY Removed
<1>2. \A i \in 1..n : p[i] \in Functor
  OBVIOUS
<1> HIDE DEF q, n
<1>3. OnceIn(q)
  BY <1>1 DEF OnceIn, n
<1>4. ASSUME NEW i \in 1..n, p[i].op = "add", p[1].op = "add", p[i].id = p[1].id PROVE i = 1
  <2>0. ASSUME NEW f \in Functor, NEW g \in Functor, f.op = g.op, f.id = g.id PROVE f = g
    BY <2>0 DEF Functor
  <2>1. p[i] = p[1]
    <3>1. p[i] \in Functor /\ p[1] \in Functor
      BY <1>1, <1>2
    <3> QED  BY <3>1, <1>4, <2>0, Zenon
  <2> QED  BY <1>1, <1>4, <2>1 DEF OnceIn, n
<1>5. Adds(q) \subseteq Adds(p) \ (IF p[1].op = "add" THEN {p[1].id} ELSE {})
  BY <1>1, <1>4 DEF Adds, n
<1>6. Adds(p) \subseteq Adds(q) \cup (IF p[1].op = "add" THEN {p[1].id} ELSE {})
  BY <1>1 DEF Adds, n
<1>7. p[1].op = "add" => p[1].id \in Adds(p)
  BY <1>1 DEF Adds, n
<1> QED  BY <1>1, <1>3, <1>5, <1>6, <1>7 DEF q

\* Every timer that exists belongs to one functor, to both sets or to the batch, and
\* none of these has a timer that does not exist.
Owners ==
  /\ OnceIn(pending)
  /\ \A id \in Adds(pending) : /\ id[2] # 0 /\ heap[id[1]].sequence = id[2]
                               /\ id \notin activeTimers_ /\ id[1] \notin expired
  /\ \A e \in activeTimers_ : e[2] # 0 /\ heap[e[1]].sequence = e[2] /\ e[1] \notin expired
  /\ \A a \in expired : heap[a].sequence # 0
  /\ \A a \in Addresses : heap[a].sequence # 0 =>
       <<a, heap[a].sequence>> \in Adds(pending) \cup activeTimers_ \/ a \in expired
  /\ \A when \in Nat, a \in Addresses :
       <<when, a>> \in timers_ <=> when = heap[a].expiration /\ <<a, heap[a].sequence>> \in activeTimers_

\* addTimerInLoop() of a Timer that nobody holds keeps one owner for every Timer.
LEMMA Inserted ==
  ASSUME Types, Owners, NEW a \in Addresses, NEW when \in Nat, NEW seq \in Nat \ {0},
         addTimerInLoop(a, when, seq),
         \A b \in Addresses \ {a} : heap'[b] = heap[b],
         heap'[a].expiration = when, heap'[a].sequence = seq,
         \A e \in activeTimers_ : e[1] # a,
         a \notin expired, expired' = expired,
         OnceIn(pending'),
         \A id \in Adds(pending') : id \in Adds(pending) /\ id[1] # a,
         \A id \in Adds(pending) : id[1] # a => id \in Adds(pending')
  PROVE  Owners'
<1>1. /\ timers_' = timers_ \cup {<<when, a>>} /\ activeTimers_' = activeTimers_ \cup {<<a, seq>>}
      /\ expired \subseteq Addresses
      /\ \A e \in activeTimers_ : e[1] \in Addresses \ {a}
  BY DEF addTimerInLoop, Types
<1>2. \A id \in Adds(pending) : id[1] \in Addresses
  BY DEF Types, Adds, KnownIds
<1>3. \A id \in Adds(pending)' : /\ id[2] # 0 /\ heap'[id[1]].sequence = id[2]
                                /\ id \notin activeTimers_' /\ id[1] \notin expired'
  BY <1>1, <1>2 DEF Owners
<1>4. \A e \in activeTimers_' : e[2] # 0 /\ heap'[e[1]].sequence = e[2] /\ e[1] \notin expired'
  BY <1>1 DEF Owners
<1>5. \A b \in expired' : heap'[b].sequence # 0
  BY <1>1 DEF Owners
<1>6. ASSUME NEW b \in Addresses, heap'[b].sequence # 0
      PROVE <<b, heap'[b].sequence>> \in Adds(pending)' \cup activeTimers_' \/ b \in expired'
  BY <1>1, <1>6 DEF Owners
<1>7. ASSUME NEW w \in Nat, NEW b \in Addresses
      PROVE  <<w, b>> \in timers_' <=> w = heap'[b].expiration /\ <<b, heap'[b].sequence>> \in activeTimers_'
  <2>1. CASE b = a
    <3>1. <<a, heap[a].sequence>>[1] = a
      OBVIOUS
    <3>2. <<a, heap[a].sequence>> \notin activeTimers_
      BY <3>1
    <3>3. <<w, a>> \notin timers_
      BY <3>2 DEF Owners
    <3> QED  BY <1>1, <2>1, <3>3
  <2>2. CASE b # a
    BY <1>1, <2>2 DEF Owners
  <2> QED  BY <2>1, <2>2
<1> QED  BY <1>3, <1>4, <1>5, <1>6, <1>7 DEF Owners

\* cancelInLoop() keeps one owner for every Timer, whether it deletes one or not.
LEMMA Cancelled ==
  ASSUME Types, Owners, NEW id \in KnownIds, cancelInLoop(id),
         expired' = expired, OnceIn(pending'), Adds(pending') = Adds(pending)
  PROVE  Owners'
<1>1. Forget({id} \cap activeTimers_)
  BY DEF cancelInLoop
<1>2. CASE id \notin activeTimers_
  <2>1. {id} \cap activeTimers_ = {}
    BY <1>2
  <2>2. activeTimers_' = activeTimers_ /\ timers_' = timers_ /\ heap' = heap
    BY <1>1, <2>1 DEF Forget, Types
  <2> QED  BY <2>2 DEF Owners
<1>3. CASE id \in activeTimers_
  <2> DEFINE a == id[1]
  <2>1. {id} \cap activeTimers_ = {id}
    BY <1>3
  <2>2. /\ activeTimers_' = activeTimers_ \ {id}
        /\ timers_' = timers_ \ {<<heap[a].expiration, a>>}
        /\ heap' = [b \in Addresses |-> IF a = b THEN Free ELSE heap[b]]
    BY <1>1, <2>1 DEF Forget
  <2>3. a \in Addresses /\ id = <<a, heap[a].sequence>> /\ a \notin expired /\ Free.sequence = 0
    BY <1>3 DEF Owners, Types, Free
  <2>4. \A e \in activeTimers_' : e[1] \in Addresses \ {a} /\ e = <<e[1], e[2]>>
    BY <2>2, <2>3 DEF Owners, Types
  <2>5. \A add \in Adds(pending) : add[1] \in Addresses \ {a} /\ add = <<add[1], add[2]>>
    <3>1. \A add \in Adds(pending) : add[1] \in Addresses /\ add = <<add[1], add[2]>>
      BY DEF Types, Adds, KnownIds
    <3> QED  BY <3>1, <2>3, <1>3 DEF Owners
  <2> HIDE DEF a
  <2>6. /\ heap'[a].sequence = 0
        /\ \A b \in Addresses \ {a} : heap'[b] = heap[b]
    BY <2>2, <2>3
  <2>7. \A add \in Adds(pending)' : /\ add[2] # 0 /\ heap'[add[1]].sequence = add[2]
                                   /\ add \notin activeTimers_' /\ add[1] \notin expired'
    BY <2>2, <2>5, <2>6 DEF Owners
  <2>8. \A e \in activeTimers_' : e[2] # 0 /\ heap'[e[1]].sequence = e[2] /\ e[1] \notin expired'
    BY <2>2, <2>4, <2>6 DEF Owners
  <2>9. \A b \in expired' : heap'[b].sequence # 0
    BY <2>3, <2>6 DEF Owners, Types
  <2>10. ASSUME NEW b \in Addresses, heap'[b].sequence # 0
         PROVE <<b, heap'[b].sequence>> \in Adds(pending)' \cup activeTimers_' \/ b \in expired'
    BY <2>2, <2>3, <2>6, <2>10 DEF Owners
  <2>11. ASSUME NEW w \in Nat, NEW b \in Addresses
         PROVE  <<w, b>> \in timers_' <=> w = heap'[b].expiration /\ <<b, heap'[b].sequence>> \in activeTimers_'
    <3>1. CASE b = a
      <4>1. <<w, a>> \in timers_ => w = heap[a].expiration
        BY <2>3 DEF Owners
      <4>2. <<a, heap'[a].sequence>> \notin activeTimers_'
        <5>1. <<a, heap'[a].sequence>>[1] = a
          OBVIOUS
        <5> QED  BY <5>1, <2>4
      <4> QED  BY <3>1, <4>1, <4>2, <2>2
    <3>2. CASE b # a
      BY <3>2, <2>2, <2>3, <2>6 DEF Owners
    <3> QED  BY <3>1, <3>2
  <2> QED  BY <2>7, <2>8, <2>9, <2>10, <2>11 DEF Owners
<1> QED  BY <1>2, <1>3

\* getExpired() hands the expired Timers from the sets to the batch.
LEMMA BatchTaken ==
  ASSUME Types, Owners, HandleRead
  PROVE  /\ Owners'
         /\ \A a \in expired' : <<a, heap[a].sequence>> \in activeTimers_
<1> DEFINE batch == {entry \in timers_ : Expires(entry)}
<1>1. /\ timers_' = timers_ \ batch /\ expired' = {entry[2] : entry \in batch}
      /\ activeTimers_' = activeTimers_ \ {<<a, heap[a].sequence>> : a \in expired'}
      /\ heap' = heap /\ pending' = pending /\ expired = {}
  BY DEF HandleRead, Types
<1>2. ASSUME NEW w \in Nat, NEW a \in Addresses
      PROVE  <<w, a>> \in batch <=>
               w = heap[a].expiration /\ <<a, heap[a].sequence>> \in activeTimers_ /\ w <= clock
  BY DEF Expires, Owners
<1>3. expired' \subseteq Addresses /\ batch \subseteq Nat \X Addresses /\ batch \subseteq timers_
  BY <1>1 DEF Types
<1>4. ASSUME NEW a \in Addresses
      PROVE  a \in expired' <=> <<a, heap[a].sequence>> \in activeTimers_ /\ heap[a].expiration <= clock
  <2>1. heap[a].expiration \in Nat
    BY DEF Types, TimerObject
  <2>2. a \in expired' => \E w \in Nat : <<w, a>> \in batch
    <3> HIDE DEF batch
    <3> QED  BY <1>1, <1>3
  <2>3. <<heap[a].expiration, a>> \in batch => a \in expired'
    <3>1. <<heap[a].expiration, a>>[2] = a
      OBVIOUS
    <3> HIDE DEF batch
    <3> QED  BY <1>1, <3>1
  <2> HIDE DEF batch
  <2> QED  BY <1>2, <2>1, <2>2, <2>3, Zenon
<1> HIDE DEF batch
<1>5. ASSUME NEW e \in activeTimers_
      PROVE  e[1] \in Addresses /\ e = <<e[1], heap[e[1]].sequence>> /\ (e \in activeTimers_' <=> e[1] \notin expired')
  <2>1. e[1] \in Addresses /\ e = <<e[1], heap[e[1]].sequence>>
    BY DEF Owners, Types
  <2>2. \A a \in expired' : e = <<a, heap[a].sequence>> => e[1] = a
    BY <2>1
  <2> QED  BY <2>1, <2>2, <1>1
<1>6. \A add \in Adds(pending)' : /\ add[2] # 0 /\ heap'[add[1]].sequence = add[2]
                                 /\ add \notin activeTimers_' /\ add[1] \notin expired'
  <2>1. \A add \in Adds(pending) : add[1] \in Addresses /\ add = <<add[1], add[2]>>
    BY DEF Types, Adds, KnownIds
  <2> QED  BY <2>1, <1>1, <1>4 DEF Owners
<1>7. \A e \in activeTimers_' : e[2] # 0 /\ heap'[e[1]].sequence = e[2] /\ e[1] \notin expired'
  BY <1>1, <1>5 DEF Owners
<1>8. \A a \in expired' : heap'[a].sequence # 0
  <2>1. ASSUME NEW a \in expired' PROVE heap[a].sequence # 0
    <3>1. <<a, heap[a].sequence>> \in activeTimers_ /\ <<a, heap[a].sequence>>[2] = heap[a].sequence
      BY <1>3, <1>4
    <3> QED  BY <3>1 DEF Owners
  <2> QED  BY <2>1, <1>1
<1>9. ASSUME NEW a \in Addresses, heap'[a].sequence # 0
      PROVE <<a, heap'[a].sequence>> \in Adds(pending)' \cup activeTimers_' \/ a \in expired'
  <2>1. <<a, heap[a].sequence>>[1] = a
    OBVIOUS
  <2> QED  BY <2>1, <1>1, <1>5, <1>9 DEF Owners
<1>10. ASSUME NEW w \in Nat, NEW a \in Addresses
       PROVE  <<w, a>> \in timers_' <=> w = heap'[a].expiration /\ <<a, heap'[a].sequence>> \in activeTimers_'
  <2>1. <<a, heap[a].sequence>>[1] = a
    OBVIOUS
  <2> QED  BY <2>1, <1>1, <1>2, <1>4, <1>5 DEF Owners
<1>11. OnceIn(pending)'
  BY <1>1 DEF Owners
<1> QED  BY <1>3, <1>4, <1>6, <1>7, <1>8, <1>9, <1>10, <1>11 DEF Owners

\* What reset() does to each address.
LEMMA ResetTimers ==
  ASSUME Types, Reset
  PROVE  /\ \A a \in Addresses \ expired : heap'[a] = heap[a]
         /\ \A a \in expired : Restarts(a) => /\ heap'[a].sequence = heap[a].sequence
                                            /\ heap'[a].interval = heap[a].interval
         /\ \A a \in expired : ~Restarts(a) => heap'[a].sequence = 0
<1> DEFINE again == {a \in expired : Restarts(a)}
<1>1. heap' = [a \in Addresses |-> IF a \in again THEN restart(heap[a])
                                  ELSE IF a \in expired THEN Free ELSE heap[a]]
  BY DEF Reset
<1>2. \A a \in Addresses : /\ restart(heap[a]).sequence = heap[a].sequence
                          /\ restart(heap[a]).interval = heap[a].interval
  BY DEF restart, Types, TimerObject
<1>3. again \subseteq expired /\ expired \subseteq Addresses /\ Free.sequence = 0
  BY DEF Types, Free
<1>4. \A a \in expired : a \in again <=> Restarts(a)
  OBVIOUS
<1> HIDE DEF again
<1> QED  BY <1>1, <1>2, <1>3, <1>4

\* reset() hands the repeating Timers back and deletes the others.
LEMMA BatchReturned ==
  ASSUME Types, Owners, Reset, Types'
  PROVE  Owners'
<1> DEFINE again == {a \in expired : Restarts(a)}
<1>1. /\ timers_' = timers_ \cup {<<heap'[a].expiration, a>> : a \in again}
      /\ activeTimers_' = activeTimers_ \cup {<<a, heap[a].sequence>> : a \in again}
      /\ pending' = pending /\ expired' = {}
  BY DEF Reset
<1>2. /\ \A a \in Addresses \ expired : heap'[a] = heap[a]
      /\ \A a \in again : heap'[a].sequence = heap[a].sequence
      /\ \A a \in expired \ again : heap'[a].sequence = 0
      /\ again \subseteq expired /\ expired \subseteq Addresses
  BY ResetTimers DEF Types
<1> HIDE DEF again
<1>3. \A e \in activeTimers_ : e[1] \in Addresses \ expired /\ e = <<e[1], heap[e[1]].sequence>>
  BY DEF Types, Owners
<1>4. \A add \in Adds(pending) : add[1] \in Addresses \ expired /\ add = <<add[1], heap[add[1]].sequence>>
  <2>1. \A add \in Adds(pending) : add[1] \in Addresses /\ add = <<add[1], add[2]>>
    BY DEF Types, Adds, KnownIds
  <2> QED  BY <2>1 DEF Owners
<1>5. ASSUME NEW a \in Addresses
      PROVE  <<a, heap'[a].sequence>> \in activeTimers_' <=>
               \/ a \in again
               \/ a \notin expired /\ <<a, heap[a].sequence>> \in activeTimers_
  <2>1. \A n : <<a, n>>[1] = a
    OBVIOUS
  <2>2. CASE a \in again
    BY <2>2, <1>1, <1>2
  <2>3. CASE a \in expired \ again
    <3>1. <<a, heap'[a].sequence>> \notin activeTimers_
      BY <2>1, <2>3, <1>3
    <3>2. \A b \in again : <<a, heap'[a].sequence>> # <<b, heap[b].sequence>>
      BY <2>3
    <3> QED  BY <2>3, <3>1, <3>2, <1>1
  <2>4. CASE a \notin expired
    <3>1. \A b \in again : <<a, heap'[a].sequence>> # <<b, heap[b].sequence>>
      BY <2>4, <1>2
    <3> QED  BY <2>4, <3>1, <1>1, <1>2
  <2> QED  BY <2>2, <2>3, <2>4
<1>6. ASSUME NEW e \in activeTimers_'
      PROVE  e[1] \in Addresses /\ e = <<e[1], heap'[e[1]].sequence>> /\ e[2] # 0
  <2>1. CASE e \in activeTimers_
    BY <2>1, <1>2, <1>3 DEF Owners
  <2>2. CASE \E a \in again : e = <<a, heap[a].sequence>>
    BY <2>2, <1>2 DEF Owners
  <2> QED  BY <2>1, <2>2, <1>1
<1>7. \A add \in Adds(pending)' : /\ add[2] # 0 /\ heap'[add[1]].sequence = add[2]
                                 /\ add \notin activeTimers_' /\ add[1] \notin expired'
  <2>1. ASSUME NEW add \in Adds(pending)
        PROVE  add[2] # 0 /\ heap'[add[1]].sequence = add[2] /\ add \notin activeTimers_'
    <3>1. add[2] # 0 /\ heap[add[1]].sequence = add[2] /\ add \notin activeTimers_
      BY DEF Owners
    <3>2. heap'[add[1]] = heap[add[1]] /\ add[1] \in Addresses /\ add[1] \notin again
      BY <1>2, <1>4
    <3>3. add = <<add[1], heap'[add[1]].sequence>>
      BY <3>2, <1>4
    <3> QED  BY <3>1, <3>2, <3>3, <1>4, <1>5
  <2> QED  BY <2>1, <1>1
<1>8. \A e \in activeTimers_' : e[2] # 0 /\ heap'[e[1]].sequence = e[2] /\ e[1] \notin expired'
  BY <1>1, <1>6
<1>9. ASSUME NEW a \in Addresses, heap'[a].sequence # 0
      PROVE <<a, heap'[a].sequence>> \in Adds(pending)' \cup activeTimers_' \/ a \in expired'
  <2>1. CASE a \in expired
    BY <2>1, <1>2, <1>5, <1>9
  <2>2. CASE a \notin expired
    BY <2>2, <1>1, <1>2, <1>5, <1>9 DEF Owners
  <2> QED  BY <2>1, <2>2
<1>10. ASSUME NEW w \in Nat, NEW a \in Addresses
       PROVE  <<w, a>> \in timers_' <=> w = heap'[a].expiration /\ <<a, heap'[a].sequence>> \in activeTimers_'
  <2>1. <<w, a>> \in timers_' <=> <<w, a>> \in timers_ \/ (a \in again /\ w = heap'[a].expiration)
    BY <1>1
  <2>2. <<w, a>> \in timers_ <=> w = heap[a].expiration /\ <<a, heap[a].sequence>> \in activeTimers_
    BY DEF Owners
  <2>3. <<a, heap[a].sequence>> \in activeTimers_ => a \notin expired
    <3>1. <<a, heap[a].sequence>>[1] = a
      OBVIOUS
    <3> QED  BY <3>1, <1>3
  <2> QED  BY <2>1, <2>2, <2>3, <1>2, <1>5
<1>11. OnceIn(pending)' /\ \A a \in expired' : heap'[a].sequence # 0
  BY <1>1 DEF Owners
<1> QED  BY <1>7, <1>8, <1>9, <1>10, <1>11 DEF Owners

\* Every Timer object has one owner: a queued addition, the two sets or the batch.
LEMMA OwnersHold == Spec => []Owners
<1>1. Init => Owners
  BY DEF Init, Owners, OnceIn, Adds, Free
<1>2. Types /\ Owners /\ Types' /\ [Next]_vars => Owners'
  <2> SUFFICES ASSUME Types, Owners, Types', [Next]_vars PROVE Owners'
    OBVIOUS
  <2>1. \A add \in Adds(pending) : add \in KnownIds /\ add[1] \in Addresses /\ add = <<add[1], add[2]>>
    BY DEF Types, Adds, KnownIds
  <2>2. \A e \in activeTimers_ : e[1] \in Addresses /\ e = <<e[1], heap[e[1]].sequence>>
    BY DEF Types, Owners
  <2>3. ASSUME UNCHANGED <<heap, timers_, activeTimers_, expired, pending>> PROVE Owners'
    BY <2>3, Zenon DEF Owners
  <2>4. ASSUME NEW a \in Addresses, NEW s \in Schedules, NewTimer(a, s[1], s[2])
        PROVE  /\ \A b \in Addresses \ {a} : heap'[b] = heap[b]
               /\ heap'[a].expiration = s[1] /\ heap'[a].sequence = numCreated + 1
               /\ numCreated + 1 \in Nat \ {0} /\ s[1] \in Nat
               /\ \A e \in activeTimers_ : e[1] # a
               /\ \A add \in Adds(pending) : add[1] # a
               /\ a \notin expired
    <3>1. heap[a].sequence = 0
      BY <2>4 DEF NewTimer, allocated
    <3>2. heap' = [heap EXCEPT ![a] = [expiration |-> s[1], interval |-> s[2], sequence |-> numCreated + 1]]
      BY <2>4 DEF NewTimer
    <3>3. numCreated + 1 \in Nat \ {0} /\ s[1] \in Nat
      BY SchedulesAreTimes DEF Types
    <3>4. /\ \A b \in Addresses \ {a} : heap'[b] = heap[b]
          /\ heap'[a].expiration = s[1] /\ heap'[a].sequence = numCreated + 1
      BY <3>2 DEF Types
    <3>5. \A e \in activeTimers_ : e[1] # a
      BY <3>1 DEF Owners
    <3>6. \A add \in Adds(pending) : add[1] # a
      BY <3>1 DEF Owners
    <3>7. a \notin expired
      BY <3>1 DEF Owners
    <3> QED  BY <3>3, <3>4, <3>5, <3>6, <3>7
  <2>5. ASSUME NEW a \in Addresses, NEW s \in Schedules, AddTimer(a, s) PROVE Owners'
    <3>1. /\ NewTimer(a, s[1], s[2]) /\ addTimerInLoop(a, s[1], numCreated + 1)
          /\ pending' = pending /\ expired' = expired
      BY <2>5 DEF AddTimer, batchVars
    <3>2. OnceIn(pending)
      BY DEF Owners
    <3> QED  BY <3>1, <3>2, <2>4, Inserted
  <2>6. ASSUME NEW id \in ids, Cancel(id) PROVE Owners'
    <3>1. cancelInLoop(id) /\ pending' = pending /\ expired' = expired /\ id \in KnownIds
      BY <2>6, Zenon DEF Cancel, Types, batchVars
    <3>2. OnceIn(pending)
      BY DEF Owners
    <3> QED  BY <3>1, <3>2, Cancelled
  <2>7. ASSUME NEW t \in Callers, NEW a \in Addresses, NEW s \in Schedules, QueueTimer(t, a, s)
        PROVE  Owners'
    <3> DEFINE id == <<a, numCreated + 1>>
               f == [op |-> "add", id |-> id]
    <3>1. /\ NewTimer(a, s[1], s[2]) /\ pending' = Append(pending, f)
          /\ UNCHANGED <<timers_, activeTimers_, expired>>
      BY <2>7 DEF QueueTimer, queueVars, batchVars
    <3>2. f \in Functor /\ f.op = "add" /\ f.id = id /\ id[1] = a /\ id[2] = numCreated + 1 /\ pending \in Seq(Functor)
      BY DEF Functor, Types
    <3> HIDE DEF f, id
    <3>3. id \notin Adds(pending) /\ OnceIn(pending)
      BY <3>1, <3>2, <2>4, Zenon DEF Owners
    <3>4. OnceIn(pending)' /\ Adds(pending)' = Adds(pending) \cup {id}
      BY <3>1, <3>2, <3>3, AddsAppended, Zenon
    <3>5. \A add \in Adds(pending)' : /\ add[2] # 0 /\ heap'[add[1]].sequence = add[2]
                                     /\ add \notin activeTimers_' /\ add[1] \notin expired'
      <4>1. id[2] # 0 /\ heap'[id[1]].sequence = id[2] /\ id \notin activeTimers_' /\ id[1] \notin expired'
        BY <3>1, <3>2, <2>4
      <4>2. ASSUME NEW add \in Adds(pending)
            PROVE  add[2] # 0 /\ heap'[add[1]].sequence = add[2] /\ add \notin activeTimers_' /\ add[1] \notin expired'
        BY <3>1, <2>1, <2>4 DEF Owners
      <4> QED  BY <4>1, <4>2, <3>4
    <3>6. \A e \in activeTimers_' : e[2] # 0 /\ heap'[e[1]].sequence = e[2] /\ e[1] \notin expired'
      BY <3>1, <2>2, <2>4 DEF Owners
    <3>7. \A b \in expired' : heap'[b].sequence # 0
      <4>1. \A b \in expired : b \in Addresses \ {a}
        BY <3>1, <2>4 DEF Types
      <4> QED  BY <4>1, <3>1, <2>4, Zenon DEF Owners
    <3>8. ASSUME NEW b \in Addresses, heap'[b].sequence # 0
          PROVE <<b, heap'[b].sequence>> \in Adds(pending)' \cup activeTimers_' \/ b \in expired'
      <4>1. CASE b = a
        BY <4>1, <3>1, <3>4, <2>4, Zenon DEF id
      <4>2. CASE b # a
        BY <4>2, <3>1, <3>4, <3>8, <2>4 DEF Owners
      <4> QED  BY <4>1, <4>2
    <3>9. ASSUME NEW w \in Nat, NEW b \in Addresses
          PROVE  <<w, b>> \in timers_' <=> w = heap'[b].expiration /\ <<b, heap'[b].sequence>> \in activeTimers_'
      <4>1. CASE b = a
        <5>1. \A n : <<a, n>>[1] = a
          BY Zenon
        <5>2. \A n : <<a, n>> \notin activeTimers_
          BY <5>1, <3>1, <2>4, Zenon
        <5> QED  BY <4>1, <5>2, <3>1, Zenon DEF Owners
      <4>2. CASE b # a
        BY <4>2, <3>1, <2>4 DEF Owners
      <4> QED  BY <4>1, <4>2
    <3> QED  BY <3>4, <3>5, <3>6, <3>7, <3>8, <3>9, Zenon DEF Owners
  <2>8. ASSUME NEW t \in Callers, NEW id \in ids, QueueCancel(t, id) PROVE Owners'
    <3> DEFINE f == [op |-> "cancel", id |-> id]
    <3>1. /\ pending' = Append(pending, f)
          /\ UNCHANGED <<heap, timers_, activeTimers_, expired>>
      BY <2>8, Zenon DEF QueueCancel, queueVars, batchVars
    <3>2. f \in Functor /\ f.op # "add" /\ pending \in Seq(Functor) /\ OnceIn(pending)
      BY DEF Functor, Types, KnownIds, Owners
    <3> HIDE DEF f
    <3>3. OnceIn(pending)' /\ Adds(pending)' = Adds(pending)
      BY <3>1, <3>2, AddsAppended, Zenon
    <3> QED  BY <3>1, <3>3, Zenon DEF Owners
  <2>9. CASE RunAdd
    <3> DEFINE id == Head(pending).id
               a == id[1]
    <3>1. /\ pending # <<>> /\ pending' = Tail(pending) /\ Head(pending).op = "add"
          /\ addTimerInLoop(a, heap[a].expiration, heap[a].sequence)
          /\ heap' = heap /\ expired' = expired
      BY <2>9, Zenon DEF RunAdd, batchVars
    <3>2. id \in Adds(pending) /\ OnceIn(pending)' /\ Adds(pending)' = Adds(pending) \ {id}
      BY <3>1, AddsRemoved, Zenon DEF Types, Owners
    <3> HIDE DEF id
    <3>3. /\ a \in Addresses /\ id = <<a, heap[a].sequence>> /\ heap[a].sequence # 0
          /\ id \notin activeTimers_ /\ a \notin expired
      BY <3>2, <2>1 DEF Owners
    <3>4. heap[a].sequence \in Nat \ {0} /\ heap[a].expiration \in Nat
      BY <3>3, Zenon DEF Types, TimerObject
    <3>5. \A e \in activeTimers_ : e[1] # a
      BY <3>3, <2>2
    <3>6. \A add \in Adds(pending) : add[1] = a => add = id
      BY <3>3, <2>1 DEF Owners
    <3> HIDE DEF a
    <3>7. \A add \in Adds(pending)' : add \in Adds(pending) /\ add[1] # a
      BY <3>2, <3>6
    <3>8. \A add \in Adds(pending) : add[1] # a => add \in Adds(pending)'
      BY <3>2 DEF a
    <3> QED  BY <3>1, <3>2, <3>3, <3>4, <3>5, <3>7, <3>8, Inserted
  <2>10. CASE RunCancel
    <3>1. /\ cancelInLoop(Head(pending).id) /\ pending # <<>> /\ pending' = Tail(pending)
          /\ Head(pending).op = "cancel" /\ expired' = expired
      BY <2>10 DEF RunCancel, batchVars
    <3>2. Head(pending).id \in KnownIds
      BY <3>1, Removed DEF Types
    <3>3. OnceIn(pending)' /\ Adds(pending)' = Adds(pending)
      <4>1. pending \in Seq(Functor) /\ OnceIn(pending)
        BY Zenon DEF Types, Owners
      <4>2. /\ OnceIn(Tail(pending))
            /\ Adds(Tail(pending)) = Adds(pending) \ (IF Head(pending).op = "add" THEN {Head(pending).id} ELSE {})
        BY <3>1, <4>1, AddsRemoved
      <4> QED  BY <3>1, <4>2, Zenon
    <3> QED  BY <3>1, <3>2, <3>3, Cancelled
  <2>11. CASE HandleRead
    BY <2>11, BatchTaken
  <2>12. CASE Reset
    BY <2>12, BatchReturned
  <2>13. ASSUME NEW t \in Callers, NEW seq \in 0..MaxTimers, ReturnId(t, seq) PROVE Owners'
    BY <2>13, <2>3, Zenon DEF ReturnId, queueVars, batchVars
  <2>14. ASSUME NEW a \in Addresses, RunTimer(a) PROVE Owners'
    BY <2>14, <2>3 DEF RunTimer, queueVars
  <2>15. CASE PollReturns \/ Tick \/ UNCHANGED vars
    BY <2>15, <2>3 DEF PollReturns, Tick, vars, queueVars, batchVars
  <2> QED
    BY <2>5, <2>6, <2>7, <2>8, <2>9, <2>10, <2>11, <2>12, <2>13, <2>14, <2>15
    DEF Next, LoopThread, UserCode
<1> QED  BY <1>1, <1>2, TypesHold, PTL DEF Spec

\* timers_ and activeTimers_ hold the same live timers, filed under the expirations
\* the objects have: what insert(), getExpired() and cancelInLoop() assert.
THEOREM SetsAgree == Spec => []SameTimers
<1>1. Types /\ Owners => SameTimers
  <2> SUFFICES ASSUME Types, Owners PROVE SameTimers
    OBVIOUS
  <2> DEFINE image == {<<heap[e[1]].expiration, e[1]>> : e \in activeTimers_}
  <2>1. ASSUME NEW entry \in timers_ PROVE entry \in image
    <3>1. entry = <<entry[1], entry[2]>> /\ entry[1] \in Nat /\ entry[2] \in Addresses
      BY DEF Types
    <3>2. entry[1] = heap[entry[2]].expiration /\ <<entry[2], heap[entry[2]].sequence>> \in activeTimers_
      BY <3>1 DEF Owners
    <3>3. <<entry[2], heap[entry[2]].sequence>>[1] = entry[2]
      OBVIOUS
    <3> QED  BY <3>1, <3>2, <3>3
  <2>2. ASSUME NEW e \in activeTimers_ PROVE <<heap[e[1]].expiration, e[1]>> \in timers_
    <3>1. e[1] \in Addresses /\ e = <<e[1], heap[e[1]].sequence>>
      BY DEF Types, Owners
    <3>2. heap[e[1]].expiration \in Nat
      BY <3>1 DEF Types, TimerObject
    <3> QED  BY <3>1, <3>2 DEF Owners
  <2>3. timers_ = image
    BY <2>1, <2>2
  <2> QED  BY <2>3 DEF SameTimers, Owners
<1> QED  BY <1>1, TypesHold, OwnersHold, PTL

\* Every Timer object has exactly one owner, and no owner a timer that was deleted:
\* addTimer(), cancel() and reset() neither leak nor delete twice.
THEOREM TimersOwnedOnce == Spec => []OneOwner
<1>1. Types /\ Owners => OneOwner
  <2> SUFFICES ASSUME Types, Owners PROVE OneOwner
    OBVIOUS
  <2>1. ASSUME NEW a \in Addresses PROVE Queued(a) <=> <<a, heap[a].sequence>> \in Adds(pending)
    <3> DEFINE id == <<a, heap[a].sequence>>
    <3>1. \A i \in 1..Len(pending) : pending[i] \in Functor
      BY DEF Types
    <3>2. \A f \in Functor : f = [op |-> "add", id |-> id] <=> f.op = "add" /\ f.id = id
      BY DEF Functor
    <3> HIDE DEF id
    <3>3. Queued(a) <=> \E i \in 1..Len(pending) : pending[i] = [op |-> "add", id |-> id]
      BY DEF Queued, id
    <3> QED  BY <3>1, <3>2, <3>3 DEF Adds, id
  <2>2. \A a \in allocated :
          Cardinality({o \in 1..3 : \/ o = 1 /\ Queued(a)
                                    \/ o = 2 /\ <<a, heap[a].sequence>> \in activeTimers_
                                    \/ o = 3 /\ a \in expired}) = 1
    <3> TAKE a \in allocated
    <3> DEFINE S == {o \in 1..3 : \/ o = 1 /\ Queued(a)
                                  \/ o = 2 /\ <<a, heap[a].sequence>> \in activeTimers_
                                  \/ o = 3 /\ a \in expired}
    <3>1. a \in Addresses /\ heap[a].sequence # 0 /\ <<a, heap[a].sequence>>[1] = a
      BY DEF allocated
    <3>2. CASE Queued(a)
      <4>1. <<a, heap[a].sequence>> \notin activeTimers_ /\ a \notin expired
        BY <3>1, <3>2, <2>1 DEF Owners
      <4>2. S = {1}
        BY <3>2, <4>1
      <4> QED  BY <4>2, FS_Singleton
    <3>3. CASE <<a, heap[a].sequence>> \in activeTimers_
      <4>1. ~Queued(a) /\ a \notin expired
        BY <3>1, <3>3, <2>1, Zenon DEF Owners
      <4>2. S = {2}
        BY <3>3, <4>1 DEF Queued
      <4> QED  BY <4>2, FS_Singleton
    <3>4. CASE a \in expired
      <4>1. ~Queued(a) /\ <<a, heap[a].sequence>> \notin activeTimers_
        BY <3>1, <3>4, <2>1, Zenon DEF Owners
      <4>2. S = {3}
        BY <3>4, <4>1 DEF Queued
      <4> QED  BY <4>2, FS_Singleton, Zenon
    <3>5. Queued(a) \/ <<a, heap[a].sequence>> \in activeTimers_ \/ a \in expired
      BY <3>1, <2>1 DEF Owners
    <3> QED  BY <3>2, <3>3, <3>4, <3>5, Zenon
  <2>3. expired \cup {e[1] : e \in activeTimers_} \subseteq allocated
    BY DEF Types, Owners, allocated
  <2>4. ASSUME NEW i \in 1..Len(pending), pending[i].op = "add"
        PROVE  heap[pending[i].id[1]].sequence = pending[i].id[2]
    BY <2>4 DEF Owners, Adds
  <2>5. \A i \in 1..Len(pending) :
          pending[i].op = "add" => heap[pending[i].id[1]].sequence = pending[i].id[2]
    BY <2>4
  <2> QED  BY <2>2, <2>3, <2>5 DEF OneOwner
<1> QED  BY <1>1, TypesHold, OwnersHold, PTL

(***************************************************************************)
(* Cancelled timers.                                                       *)
(***************************************************************************)

\* A timer that was cancelled when no functor was about to insert it exists only
\* while its batch runs, and then cancelingTimers_ keeps reset() from restarting it.
Gone ==
  \A id \in cancelled \ missed :
    id[2] # 0 /\ heap[id[1]].sequence = id[2] => id[1] \in expired /\ id \in cancelingTimers_

\* cancelInLoop() leaves no live Timer under a cancelled identifier, but for one of
\* the batch that is also in cancelingTimers_.
LEMMA CancelMakesGone ==
  ASSUME Types, Owners, Gone, NEW id \in KnownIds, cancelInLoop(id), expired' = expired
  PROVE  Gone'
<1>1. /\ Forget({id} \cap activeTimers_)
      /\ cancelingTimers_ \subseteq cancelingTimers_'
      /\ callingExpiredTimers_ /\ id \notin activeTimers_ => id \in cancelingTimers_'
      /\ cancelled' = cancelled \cup {id} /\ missed \subseteq missed'
  BY DEF cancelInLoop, Cancels
<1>2. \A a \in Addresses : heap'[a] = heap[a] \/ heap'[a].sequence = 0
  BY <1>1 DEF Forget, Free
<1>3. id \in activeTimers_ => heap'[id[1]].sequence = 0
  BY <1>1 DEF Forget, Free, KnownIds
<1>4. id \in Adds(pending) => id \in missed'
  <2> SUFFICES ASSUME id \in Adds(pending) PROVE id \in missed'
    OBVIOUS
  <2>1. PICK i \in 1..Len(pending) : pending[i].op = "add" /\ pending[i].id = id
    BY DEF Adds
  <2>2. pending[i] \in Functor
    BY DEF Types
  <2>3. pending[i] = [op |-> "add", id |-> id]
    BY <2>1, <2>2 DEF Functor
  <2> QED  BY <2>3 DEF cancelInLoop, Cancels
<1>5. ASSUME NEW c \in cancelled' \ missed', c[2] # 0, heap'[c[1]].sequence = c[2]
      PROVE  c[1] \in expired' /\ c \in cancelingTimers_'
  <2>1. c \in KnownIds /\ c[1] \in Addresses /\ c = <<c[1], c[2]>>
    BY <1>1 DEF Types, KnownIds
  <2>2. heap[c[1]].sequence = c[2]
    BY <1>2, <1>5, <2>1
  <2>3. CASE c \in cancelled
    BY <2>2, <2>3, <1>1, <1>5 DEF Gone
  <2>4. CASE c = id
    <3>1. c \notin activeTimers_ /\ c \notin Adds(pending)
      BY <2>4, <1>3, <1>4, <1>5
    <3>2. c[1] \in expired
      BY <3>1, <2>1, <2>2, <1>5 DEF Owners
    <3>3. callingExpiredTimers_
      BY <3>2, Zenon DEF Types
    <3> QED  BY <3>1, <3>2, <3>3, <2>4, <1>1
  <2> QED  BY <2>3, <2>4, <1>1, Zenon
<1> QED  BY <1>5 DEF Gone

\* A timer whose cancel() found it inserted, or running, never comes back: not even
\* when it repeats and its own callback, or a later one of its batch, cancels it.
THEOREM CancelledTimersStayOut == Spec => []CancelledStaysOut
<1>1. Init => Gone
  BY DEF Init, Gone
<1>2. Types /\ Owners /\ Gone /\ [Next]_vars => Gone'
  <2> SUFFICES ASSUME Types, Owners, Gone, [Next]_vars PROVE Gone'
    OBVIOUS
  <2>1. ASSUME NEW a \in Addresses, NEW s \in Schedules, NewTimer(a, s[1], s[2]),
               UNCHANGED <<cancelingTimers_, expired>>
        PROVE  Gone'
    <3>1. /\ \A b \in Addresses \ {a} : heap'[b] = heap[b]
          /\ heap'[a].sequence = numCreated + 1 /\ numCreated \in Nat
          /\ cancelled' = cancelled /\ missed' = missed
      BY <2>1, Zenon DEF NewTimer, Types
    <3>2. \A id \in cancelled : id[1] \in Addresses /\ id[2] # numCreated + 1
      BY <3>1 DEF Types, KnownIds
    <3> QED  BY <2>1, <3>1, <3>2 DEF Gone
  <2>2. ASSUME NEW a \in Addresses, NEW s \in Schedules, AddTimer(a, s) PROVE Gone'
    BY <2>1, <2>2 DEF AddTimer, batchVars
  <2>3. ASSUME NEW t \in Callers, NEW a \in Addresses, NEW s \in Schedules, QueueTimer(t, a, s)
        PROVE  Gone'
    BY <2>1, <2>3 DEF QueueTimer, batchVars
  <2>4. ASSUME NEW id \in ids, Cancel(id) PROVE Gone'
    <3>1. cancelInLoop(id) /\ expired' = expired /\ id \in KnownIds
      BY <2>4 DEF Cancel, Types, batchVars
    <3> QED  BY <3>1, CancelMakesGone
  <2>5. CASE RunCancel
    <3>1. cancelInLoop(Head(pending).id) /\ pending # <<>> /\ expired' = expired
      BY <2>5 DEF RunCancel, batchVars
    <3>2. Head(pending).id \in KnownIds
      BY <3>1, Removed DEF Types
    <3> QED  BY <3>1, <3>2, CancelMakesGone, Zenon
  <2>6. CASE HandleRead
    <3>1. expired = {} /\ heap' = heap /\ cancelled' = cancelled /\ missed' = missed
      BY <2>6 DEF HandleRead, Types, historyVars
    <3> QED  BY <3>1 DEF Gone
  <2>7. CASE Reset
    <3>1. cancelled' = cancelled /\ missed' = missed
      BY <2>7 DEF Reset, historyVars
    <3>2. ASSUME NEW id \in cancelled \ missed, id[2] # 0, heap'[id[1]].sequence = id[2]
          PROVE  FALSE
      <4>1. id[1] \in Addresses /\ id = <<id[1], id[2]>>
        BY DEF Types, KnownIds
      <4>2. CASE id[1] \notin expired
        BY <4>1, <4>2, <3>2, <2>7, ResetTimers DEF Gone
      <4>3. CASE id[1] \in expired
        <5>1. Restarts(id[1]) /\ heap[id[1]].sequence = id[2]
          BY <4>3, <3>2, <2>7, ResetTimers
        <5>2. id \in cancelingTimers_
          BY <5>1, <3>2 DEF Gone
        <5> QED  BY <5>1, <5>2, <4>1 DEF Restarts
      <4> QED  BY <4>2, <4>3
    <3> QED  BY <3>1, <3>2 DEF Gone
  <2>8. ASSUME UNCHANGED <<heap, expired, cancelled, missed, cancelingTimers_>> PROVE Gone'
    BY <2>8 DEF Gone
  <2>9. ASSUME NEW t \in Callers, NEW seq \in 0..MaxTimers, ReturnId(t, seq) PROVE Gone'
    BY <2>8, <2>9 DEF ReturnId, batchVars, historyVars
  <2>10. ASSUME NEW t \in Callers, NEW id \in ids, QueueCancel(t, id) PROVE Gone'
    BY <2>8, <2>10, Zenon DEF QueueCancel, batchVars, historyVars
  <2>11. ASSUME NEW a \in Addresses, RunTimer(a) PROVE Gone'
    BY <2>8, <2>11 DEF RunTimer
  <2>12. CASE RunAdd \/ PollReturns \/ Tick \/ UNCHANGED vars
    BY <2>8, <2>12, Zenon DEF RunAdd, PollReturns, Tick, vars, batchVars, historyVars
  <2> QED
    BY <2>2, <2>3, <2>4, <2>5, <2>6, <2>7, <2>9, <2>10, <2>11, <2>12 DEF Next, LoopThread, UserCode
<1>3. Types /\ Owners /\ Gone => CancelledStaysOut
  BY Zenon DEF Types, Owners, Gone, CancelledStaysOut
<1> QED  BY <1>1, <1>2, <1>3, TypesHold, OwnersHold, PTL DEF Spec

(***************************************************************************)
(* Timers that end.                                                        *)
(***************************************************************************)

\* What the history knows of a timer that still exists.
Remembered ==
  /\ \A a \in expired \ todo : heap[a].sequence \in ran
  /\ \A a \in Addresses : heap[a].sequence # 0 =>
       (heap[a].sequence \in repeating <=> heap[a].interval > 0)

\* The ghost of repeating timers is what the Timer objects say.
LEMMA RememberedHolds == Spec => []Remembered
<1>1. Init => Remembered
  BY DEF Init, Remembered, Free
<1>2. Types /\ Owners /\ Remembered /\ [Next]_vars => Remembered'
  <2> SUFFICES ASSUME Types, Owners, Remembered, [Next]_vars PROVE Remembered'
    OBVIOUS
  <2>1. ASSUME NEW a \in Addresses, NEW s \in Schedules, NewTimer(a, s[1], s[2]),
               UNCHANGED <<expired, todo>>
        PROVE  Remembered'
    <3>1. s[2] \in Nat /\ numCreated \in Nat /\ repeating \subseteq 1..numCreated
      BY SchedulesAreTimes, Zenon DEF Types
    <3>2. /\ \A b \in Addresses \ {a} : heap'[b] = heap[b]
          /\ heap'[a].sequence = numCreated + 1 /\ heap'[a].interval = s[2]
          /\ repeating' = (IF s[2] > 0 THEN repeating \cup {numCreated + 1} ELSE repeating)
          /\ ran' = ran /\ heap[a].sequence = 0
      BY <2>1 DEF NewTimer, Types, allocated
    <3>3. a \notin expired /\ expired \subseteq Addresses
      BY <3>2, Zenon DEF Owners, Types
    <3>4. \A b \in Addresses \ {a} : heap[b].sequence # numCreated + 1
      BY <3>1 DEF Types, TimerObject
    <3>5. numCreated + 1 \notin repeating
      BY <3>1
    <3>6. ASSUME NEW b \in Addresses, heap'[b].sequence # 0
          PROVE  heap'[b].sequence \in repeating' <=> heap'[b].interval > 0
      <4>1. CASE b = a
        BY <4>1, <3>2, <3>5
      <4>2. CASE b # a
        BY <4>2, <3>2, <3>4, <3>6 DEF Remembered
      <4> QED  BY <4>1, <4>2
    <3> QED  BY <2>1, <3>2, <3>3, <3>6 DEF Remembered
  <2>2. ASSUME NEW a \in Addresses, NEW s \in Schedules, AddTimer(a, s) PROVE Remembered'
    BY <2>1, <2>2 DEF AddTimer, batchVars
  <2>3. ASSUME NEW t \in Callers, NEW a \in Addresses, NEW s \in Schedules, QueueTimer(t, a, s)
        PROVE  Remembered'
    BY <2>1, <2>3 DEF QueueTimer, batchVars
  <2>4. ASSUME NEW id \in KnownIds, cancelInLoop(id), UNCHANGED <<expired, todo>> PROVE Remembered'
    <3>1. Forget({id} \cap activeTimers_) /\ repeating' = repeating /\ ran' = ran
      BY <2>4 DEF cancelInLoop, Cancels
    <3>2. \A a \in Addresses : heap'[a] = heap[a] \/ heap'[a].sequence = 0
      BY <3>1 DEF Forget, Free
    <3>3. \A a \in expired : heap'[a] = heap[a]
      <4>1. \A a \in expired : a \in Addresses /\ \A e \in activeTimers_ : e[1] # a
        BY DEF Owners, Types
      <4> QED  BY <3>1, <4>1, Zenon DEF Forget
    <3> QED  BY <2>4, <3>1, <3>2, <3>3 DEF Remembered
  <2>5. ASSUME NEW id \in ids, Cancel(id) PROVE Remembered'
    BY <2>4, <2>5, Zenon DEF Cancel, Types, batchVars
  <2>6. CASE RunCancel
    <3>1. cancelInLoop(Head(pending).id) /\ pending # <<>> /\ UNCHANGED <<expired, todo>>
      BY <2>6, Zenon DEF RunCancel, batchVars
    <3>2. Head(pending).id \in KnownIds
      BY <3>1, Removed DEF Types
    <3> QED  BY <3>1, <3>2, <2>4
  <2>7. CASE HandleRead
    BY <2>7 DEF HandleRead, Remembered, historyVars
  <2>8. ASSUME NEW a \in Addresses, RunTimer(a) PROVE Remembered'
    BY <2>8, Zenon DEF RunTimer, Remembered
  <2>9. CASE Reset
    <3>1. expired' = {} /\ repeating' = repeating /\ expired \subseteq Addresses
      BY <2>9, Zenon DEF Reset, historyVars, Types
    <3>2. ASSUME NEW a \in Addresses, heap'[a].sequence # 0
          PROVE  heap'[a].sequence = heap[a].sequence /\ heap'[a].interval = heap[a].interval
      BY <2>9, <3>1, <3>2, ResetTimers
    <3> QED  BY <3>1, <3>2, Zenon DEF Remembered
  <2>10. ASSUME UNCHANGED <<heap, expired, todo, ran, repeating>> PROVE Remembered'
    BY <2>10 DEF Remembered
  <2>11. ASSUME NEW t \in Callers, NEW seq \in 0..MaxTimers, ReturnId(t, seq) PROVE Remembered'
    BY <2>10, <2>11 DEF ReturnId, batchVars, historyVars
  <2>12. ASSUME NEW t \in Callers, NEW id \in ids, QueueCancel(t, id) PROVE Remembered'
    BY <2>10, <2>12, Zenon DEF QueueCancel, batchVars, historyVars
  <2>13. CASE RunAdd \/ PollReturns \/ Tick \/ UNCHANGED vars
    BY <2>10, <2>13 DEF RunAdd, PollReturns, Tick, vars, batchVars, historyVars
  <2> QED
    BY <2>2, <2>3, <2>5, <2>6, <2>7, <2>8, <2>9, <2>11, <2>12, <2>13, Zenon DEF Next, LoopThread, UserCode
<1> QED  BY <1>1, <1>2, TypesHold, OwnersHold, PTL DEF Spec

\* A timer disappears only by a cancel() of its own id or, if it does not repeat,
\* after its callback ran: address reuse never makes one stand for another.
THEOREM TimersAreNotLost == Spec => []NoTimerLost
<1>1. Init => NoTimerLost
  BY DEF Init, NoTimerLost
<1>2. Types /\ Owners /\ Remembered /\ NoTimerLost /\ [Next]_vars => NoTimerLost'
  <2> SUFFICES ASSUME Types, Owners, Remembered, NoTimerLost, [Next]_vars PROVE NoTimerLost'
    OBVIOUS
  <2>1. ASSUME NEW a \in Addresses, NEW s \in Schedules, NewTimer(a, s[1], s[2]) PROVE NoTimerLost'
    <3>1. numCreated \in Nat /\ numCreated' = numCreated + 1
      BY <2>1, Zenon DEF NewTimer, Types
    <3>2. /\ \A b \in Addresses \ {a} : heap'[b] = heap[b]
          /\ heap'[a].sequence = numCreated + 1 /\ heap[a].sequence = 0
          /\ ran' = ran /\ cancelled' = cancelled
          /\ repeating' \subseteq repeating \cup {numCreated + 1}
      BY <2>1 DEF NewTimer, Types, allocated
    <3>3. ASSUME NEW n \in 1..numCreated
          PROVE  \/ \E b \in allocated' : heap'[b].sequence = n
                 \/ \E id \in cancelled' : id[2] = n
                 \/ n \in ran' \ repeating'
      <4>1. n # numCreated + 1 /\ n # 0
        BY <3>1
      <4>2. CASE \E b \in allocated : heap[b].sequence = n
        BY <4>1, <4>2, <3>2 DEF allocated
      <4>3. CASE \E id \in cancelled : id[2] = n
        BY <4>3, <3>2
      <4>4. CASE n \in ran \ repeating
        BY <4>1, <4>4, <3>2
      <4> QED  BY <4>2, <4>3, <4>4 DEF NoTimerLost
    <3>4. a \in allocated'
      BY <3>1, <3>2 DEF allocated
    <3>5. \A n \in 1..numCreated' : n \in 1..numCreated \/ n = numCreated + 1
      BY <3>1
    <3> QED  BY <3>2, <3>3, <3>4, <3>5, Zenon DEF NoTimerLost
  <2>2. ASSUME NEW a \in Addresses, NEW s \in Schedules, AddTimer(a, s) PROVE NoTimerLost'
    BY <2>1, <2>2 DEF AddTimer
  <2>3. ASSUME NEW t \in Callers, NEW a \in Addresses, NEW s \in Schedules, QueueTimer(t, a, s)
        PROVE  NoTimerLost'
    BY <2>1, <2>3, Zenon DEF QueueTimer
  <2>4. ASSUME NEW id \in KnownIds, cancelInLoop(id), UNCHANGED numCreated PROVE NoTimerLost'
    <3>1. /\ Forget({id} \cap activeTimers_) /\ repeating' = repeating /\ ran' = ran
          /\ cancelled' = cancelled \cup {id}
      BY <2>4, Zenon DEF cancelInLoop, Cancels
    <3>2. ASSUME NEW a \in Addresses PROVE heap'[a] = heap[a] \/ heap[a].sequence = id[2]
      <4>1. heap'[a] = heap[a] \/ (id \in activeTimers_ /\ id[1] = a)
        BY <3>1, Zenon DEF Forget
      <4> QED  BY <4>1 DEF Owners
    <3> QED  BY <2>4, <3>1, <3>2 DEF NoTimerLost, allocated
  <2>5. ASSUME NEW id \in ids, Cancel(id) PROVE NoTimerLost'
    BY <2>4, <2>5 DEF Cancel, Types
  <2>6. CASE RunCancel
    <3>1. cancelInLoop(Head(pending).id) /\ pending # <<>> /\ UNCHANGED numCreated
      BY <2>6 DEF RunCancel
    <3>2. Head(pending).id \in KnownIds
      BY <3>1, Removed DEF Types
    <3> QED  BY <3>1, <3>2, <2>4
  <2>7. ASSUME NEW a \in Addresses, RunTimer(a) PROVE NoTimerLost'
    BY <2>7, Zenon DEF RunTimer, NoTimerLost, allocated
  <2>8. CASE Reset
    <3>1. UNCHANGED <<numCreated, repeating, ran, cancelled>> /\ todo = {} /\ expired \subseteq Addresses
      BY <2>8 DEF Reset, historyVars, Types
    <3>2. ASSUME NEW a \in allocated, heap'[a].sequence # heap[a].sequence
          PROVE  \/ \E id \in cancelled : id[2] = heap[a].sequence
                 \/ heap[a].sequence \in ran \ repeating
      <4>1. a \in Addresses /\ heap[a].sequence # 0
        BY Zenon DEF allocated
      <4>2. a \in expired /\ ~Restarts(a)
        BY <4>1, <3>2, <2>8, ResetTimers, Zenon
      <4>3. CASE <<a, heap[a].sequence>> \in cancelingTimers_
        <5>1. <<a, heap[a].sequence>> \in cancelled /\ <<a, heap[a].sequence>>[2] = heap[a].sequence
          BY <4>3, Zenon DEF Types
        <5> QED  BY <5>1
      <4>4. CASE ~(heap[a].interval > 0)
        BY <4>1, <4>2, <4>4, <3>1, Zenon DEF Remembered
      <4> QED  BY <4>2, <4>3, <4>4, Zenon DEF Restarts
    <3> QED  BY <3>1, <3>2, Zenon DEF NoTimerLost, allocated
  <2>9. ASSUME UNCHANGED <<heap, numCreated, ran, repeating, cancelled>> PROVE NoTimerLost'
    BY <2>9, Zenon DEF NoTimerLost, allocated
  <2>10. ASSUME NEW t \in Callers, NEW seq \in 0..MaxTimers, ReturnId(t, seq) PROVE NoTimerLost'
    BY <2>9, <2>10 DEF ReturnId, historyVars
  <2>11. ASSUME NEW t \in Callers, NEW id \in ids, QueueCancel(t, id) PROVE NoTimerLost'
    BY <2>9, <2>11 DEF QueueCancel, historyVars
  <2>12. CASE RunAdd \/ PollReturns \/ HandleRead \/ Tick \/ UNCHANGED vars
    BY <2>9, <2>12, Zenon DEF RunAdd, PollReturns, HandleRead, Tick, vars, historyVars
  <2> QED
    BY <2>2, <2>3, <2>5, <2>6, <2>7, <2>8, <2>10, <2>11, <2>12 DEF Next, LoopThread, UserCode
<1> QED  BY <1>1, <1>2, TypesHold, OwnersHold, RememberedHolds, PTL DEF Spec

(***************************************************************************)
(* The alarm.                                                              *)
(***************************************************************************)

\* ArmedForEarliest, entry by entry.
AlarmInTime ==
  (timers_ # {} /\ pc # "calling")
    => armed # 0 /\ (armed <= clock + MinDelay \/ \A entry \in timers_ : armed <= entry[1])

\* addTimerInLoop() leaves the alarm in time: insert() tells when the new Timer is
\* the earliest.
LEMMA InsertArms ==
  ASSUME Types, AlarmInTime, NEW a \in Addresses, NEW when \in Nat, NEW seq \in Nat,
         addTimerInLoop(a, when, seq), UNCHANGED <<clock, pc>>
  PROVE  AlarmInTime'
<1> DEFINE soon == clock + MinDelay
<1>1. /\ timers_' = timers_ \cup {<<when, a>>} /\ <<when, a>>[1] = when
      /\ armed' = IF timers_ = {} \/ when < earliest(timers_) THEN resetTimerfd(when) ELSE armed
      /\ soon \in Nat /\ armed \in Nat /\ timers_ \subseteq Nat \X Addresses
      /\ \A entry \in timers_ : entry[1] \in Nat
  BY TimeAssumption DEF addTimerInLoop, Types
<1>2. CASE timers_ = {} \/ when < earliest(timers_)
  <2>1. \A entry \in timers_ : when <= entry[1]
    BY <1>1, <1>2, Earliest
  <2>2. /\ resetTimerfd(when) \in Nat \ {0}
        /\ resetTimerfd(when) = Max({when, soon})
    BY AlarmTime
  <2>3. armed' # 0 /\ armed' \in {when, soon}
    BY <1>1, <1>2, <2>2, Later
  <2> QED  BY <1>1, <2>1, <2>3 DEF AlarmInTime
<1>3. CASE ~(timers_ = {} \/ when < earliest(timers_))
  <2>1. PICK entry \in timers_ : entry[1] = earliest(timers_)
    BY <1>1, <1>3, Earliest
  <2>2. entry[1] <= when
    BY <1>1, <1>3, <2>1
  <2>3. armed' = armed
    BY <1>1, <1>3
  <2>4. armed <= entry[1] => armed <= when
    BY <1>1, <2>2
  <2> QED  BY <1>1, <1>3, <2>3, <2>4 DEF AlarmInTime
<1> QED  BY <1>2, <1>3

\* Outside handleRead() the alarm is never later than the earliest timer needs it,
\* whatever is added, cancelled or restarted, and in whichever order.
THEOREM AlarmIsInTime == Spec => []ArmedForEarliest
<1>1. Init => AlarmInTime
  BY DEF Init, AlarmInTime
<1>2. Types /\ AlarmInTime /\ Types' /\ [Next]_vars => AlarmInTime'
  <2> SUFFICES ASSUME Types, AlarmInTime, Types', [Next]_vars PROVE AlarmInTime'
    OBVIOUS
  <2>1. ASSUME NEW a \in Addresses, NEW s \in Schedules, AddTimer(a, s) PROVE AlarmInTime'
    <3>1. addTimerInLoop(a, s[1], numCreated + 1) /\ UNCHANGED <<clock, pc>>
      BY <2>1, Zenon DEF AddTimer, batchVars
    <3>2. numCreated + 1 \in Nat /\ s[1] \in Nat
      BY SchedulesAreTimes DEF Types
    <3> QED  BY <3>1, <3>2, InsertArms
  <2>2. CASE RunAdd
    <3> DEFINE a == Head(pending).id[1]
    <3>1. pending # <<>> /\ addTimerInLoop(a, heap[a].expiration, heap[a].sequence) /\ UNCHANGED <<clock, pc>>
      BY <2>2, Zenon DEF RunAdd, batchVars
    <3>2. a \in Addresses
      BY <3>1, Removed, Zenon DEF Types, Functor
    <3>3. heap[a].expiration \in Nat /\ heap[a].sequence \in Nat
      BY <3>2, Zenon DEF Types, TimerObject
    <3> HIDE DEF a
    <3> QED  BY <3>1, <3>2, <3>3, InsertArms
  <2>4. ASSUME NEW id, cancelInLoop(id), UNCHANGED <<clock, pc>> PROVE AlarmInTime'
    <3>1. timers_' \subseteq timers_ /\ armed' = armed
      BY <2>4, Zenon DEF cancelInLoop, Forget
    <3> QED  BY <3>1, <2>4 DEF AlarmInTime
  <2>5. ASSUME NEW id \in ids, Cancel(id) PROVE AlarmInTime'
    BY <2>4, <2>5 DEF Cancel, batchVars
  <2>6. CASE RunCancel
    BY <2>4, <2>6, Zenon DEF RunCancel, batchVars
  <2>7. CASE HandleRead
    BY <2>7, Zenon DEF HandleRead, AlarmInTime
  <2>8. CASE Reset
    <3>1. clock' = clock /\ (timers_' # {} => armed' = resetTimerfd(earliest(timers_')))
      BY <2>8, Zenon DEF Reset
    <3>2. ASSUME timers_' # {}
          PROVE  /\ armed' # 0
                 /\ armed' <= clock' + MinDelay \/ \A entry \in timers_' : armed' <= entry[1]
      <4>1. timers_' \subseteq Nat \X Addresses /\ clock + MinDelay \in Nat
        BY TimeAssumption DEF Types
      <4>2. earliest(timers_') \in Nat /\ \A entry \in timers_' : earliest(timers_') <= entry[1]
        BY <3>2, <4>1, Earliest
      <4>3. /\ resetTimerfd(earliest(timers_')) \in Nat \ {0}
            /\ resetTimerfd(earliest(timers_')) = Max({earliest(timers_'), clock + MinDelay})
        BY <4>2, AlarmTime, Zenon
      <4>4. armed' # 0 /\ (armed' = earliest(timers_') \/ armed' = clock + MinDelay)
        BY <3>1, <3>2, <4>1, <4>2, <4>3, Later
      <4> QED  BY <3>1, <4>1, <4>2, <4>4
    <3> QED  BY <3>2, Zenon DEF AlarmInTime
  <2>9. CASE Tick
    <3>1. clock' = clock + 1 /\ UNCHANGED <<timers_, armed, pc>> /\ clock \in Nat /\ armed \in Nat
      BY <2>9 DEF Tick, queueVars, batchVars, Types
    <3>2. armed <= clock + MinDelay => armed <= clock' + MinDelay
      BY <3>1, TimeAssumption
    <3> QED  BY <3>1, <3>2, Zenon DEF AlarmInTime
  <2>10. ASSUME UNCHANGED <<timers_, armed, clock>>, pc' = pc \/ pc # "calling" PROVE AlarmInTime'
    BY <2>10 DEF AlarmInTime
  <2>11. ASSUME NEW t \in Callers, NEW a \in Addresses, NEW s \in Schedules, QueueTimer(t, a, s)
         PROVE  AlarmInTime'
    BY <2>10, <2>11 DEF QueueTimer, queueVars, batchVars
  <2>12. ASSUME NEW t \in Callers, NEW seq \in 0..MaxTimers, ReturnId(t, seq) PROVE AlarmInTime'
    BY <2>10, <2>12, Zenon DEF ReturnId, queueVars, batchVars
  <2>13. ASSUME NEW t \in Callers, NEW id \in ids, QueueCancel(t, id) PROVE AlarmInTime'
    BY <2>10, <2>13 DEF QueueCancel, queueVars, batchVars
  <2>14. ASSUME NEW a \in Addresses, RunTimer(a) PROVE AlarmInTime'
    BY <2>10, <2>14, Zenon DEF RunTimer, queueVars
  <2>15. CASE PollReturns \/ UNCHANGED vars
    BY <2>10, <2>15 DEF PollReturns, vars, queueVars, batchVars
  <2> QED
    BY <2>1, <2>2, <2>5, <2>6, <2>7, <2>8, <2>9, <2>11, <2>12, <2>13, <2>14, <2>15, Zenon
    DEF Next, LoopThread, UserCode
<1>3. Types /\ AlarmInTime => ArmedForEarliest
  <2> SUFFICES ASSUME Types, AlarmInTime, timers_ # {}, pc # "calling"
               PROVE  armed # 0 /\ armed <= Max({earliest(timers_), clock + MinDelay})
    BY DEF ArmedForEarliest
  <2>1. timers_ \subseteq Nat \X Addresses /\ clock + MinDelay \in Nat /\ armed \in Nat
    BY TimeAssumption DEF Types
  <2>2. earliest(timers_) \in Nat /\ \E entry \in timers_ : entry[1] = earliest(timers_)
    BY <2>1, Earliest
  <2>3. armed # 0 /\ (armed <= clock + MinDelay \/ armed <= earliest(timers_))
    BY <2>2 DEF AlarmInTime
  <2>4. /\ Max({earliest(timers_), clock + MinDelay}) \in Nat
        /\ earliest(timers_) <= Max({earliest(timers_), clock + MinDelay})
        /\ clock + MinDelay <= Max({earliest(timers_), clock + MinDelay})
    BY <2>1, <2>2, Later
  <2> QED  BY <2>1, <2>2, <2>3, <2>4
<1> QED  BY <1>1, <1>2, <1>3, TypesHold, PTL DEF Spec
=============================================================================
