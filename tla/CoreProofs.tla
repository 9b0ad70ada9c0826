------------------------------ MODULE CoreProofs ------------------------------
(***************************************************************************)
(* Proofs about the event loop and the containers: EventLoop, the Buffer   *)
(* of bytes, the BoundedBlockingQueue and the solver's rings of links.     *)
(***************************************************************************)
EXTENDS EventLoop, Buffer, BoundedBlockingQueue, DancingLinks, SequenceTheorems, FiniteSetTheorems, TLAPS

\* The time that the provers may take for a step.
USE SMTT(20), ZenonT(20)

(***************************************************************************)
(* EventLoop, for any set of threads and channels and any number of        *)
(* functors: the wakeup protocol loses no functor and no quit(), functors  *)
(* run once and in order, and the loop implements SerialExecutor.          *)
(***************************************************************************)

(***************************************************************************)
(* The inductive invariant.  NoLostWakeup speaks of poll only; it survives *)
(* because it holds from the end of swap until poll returns, and Covered   *)
(* says so.                                                                *)
(***************************************************************************)

\* How the flags follow the owner's position in loop().
LoopShape ==
  /\ looping_ <=> pc # "out"
  /\ callingPendingFunctors_ <=> (pc \in {"swap", "functors", "functor"})
  /\ functors # <<>> => pc \in {"functors", "functor"}

Covered ==
  \/ pc \in {"dispatch", "channel", "swap"}
  \/ wakeupFd_
  \/ \E t \in Callers : caller[t] = "pushed"
  \/ \A i \in DOMAIN pendingFunctors_ : pendingFunctors_[i] \in unwoken

IInv == TypeOK /\ LoopShape /\ Covered /\ QuitWakesPoll /\ InPushOrder

-----------------------------------------------------------------------------
(***************************************************************************)
(* Type correctness.                                                       *)
(***************************************************************************)

\* A new loop is well typed.
LEMMA TypeInit == Init => TypeOK
<1>1. <<>> \in Seq(Nat)
  BY EmptySeq
<1> SUFFICES ASSUME Init PROVE TypeOK
  OBVIOUS
<1>2. looping_ \in BOOLEAN /\ quit_ \in BOOLEAN /\ callingPendingFunctors_ \in BOOLEAN /\ wakeupFd_ \in BOOLEAN
  BY Zenon DEF Init
<1>3. pc \in OwnerPC /\ caller \in [Callers -> CallerPC]
  BY DEF Init, OwnerPC, CallerPC
<1>4. queued \in 0..MaxFunctors
  BY MaxFunctorsAssumption DEF Init
<1>5. QED
  BY <1>1, <1>2, <1>3, <1>4 DEF Init, TypeOK

\* Every step keeps the types.
LEMMA TypeStep == TypeOK /\ [Next]_vars => TypeOK'
<1> SUFFICES ASSUME TypeOK, [Next]_vars PROVE TypeOK'
  OBVIOUS
<1> USE MaxFunctorsAssumption DEF TypeOK, OwnerPC, CallerPC, loopVars, queueVars, fdVars
<1>1. ASSUME NEW t \in Callers, QueueInLoop(t) PROVE TypeOK'
  BY <1>1 DEF QueueInLoop, PushBack
<1>2. ASSUME NEW t \in Callers, Quit(t) PROVE TypeOK'
  BY <1>2 DEF Quit
<1>3. ASSUME NEW t \in Callers, Wakeup(t) PROVE TypeOK'
  BY <1>3 DEF Wakeup
<1>4. CASE OwnerQueueInLoop
  BY <1>4 DEF OwnerQueueInLoop, PushBack
<1>5. CASE OwnerQuit
  BY <1>5 DEF OwnerQuit
<1>6. CASE EnterLoop
  BY <1>6, Zenon DEF EnterLoop
<1>7. CASE While
  BY <1>7 DEF While
<1>8. CASE PollReady
  <2>1. activeChannels_' \subseteq ReadyChannels
    BY <1>8 DEF PollReady
  <2>2. activeChannels_' \subseteq Channels \cup {WakeupChannel}
    BY <2>1 DEF ReadyChannels
  <2>3. QED
    BY <1>8, <2>2 DEF PollReady
<1>9. CASE PollTimeout
  BY <1>9 DEF PollTimeout
<1>10. CASE HandleRead
  BY <1>10, Zenon DEF HandleRead
<1>11. ASSUME NEW c \in Channels, HandleEvent(c) PROVE TypeOK'
  BY <1>11 DEF HandleEvent
<1>12. CASE EventHandled
  BY <1>12 DEF EventHandled
<1>13. CASE Dispatched
  BY <1>13 DEF Dispatched
<1>14. CASE Swap
  <2>1. <<>> \in Seq(Nat)
    BY EmptySeq
  <2> QED BY <1>14, <2>1, Zenon DEF Swap
<1>15. CASE RunFunctor
  <2>1. Head(functors) \in Nat /\ Tail(functors) \in Seq(Nat)
    BY <1>15, HeadTailProperties DEF RunFunctor
  <2>2. QED
    BY <1>15, <2>1 DEF RunFunctor
<1>16. CASE FunctorDone
  BY <1>16 DEF FunctorDone
<1>17. CASE FunctorsDone
  BY <1>17, Zenon DEF FunctorsDone
<1>21. CASE Released
  BY <1>21, Zenon DEF Released
<1>18. ASSUME NEW c \in Channels, ChannelReady(c) PROVE TypeOK'
  BY <1>18 DEF ChannelReady
<1>19. CASE UNCHANGED vars
  BY <1>19 DEF vars
<1>20. QED
  BY <1>1, <1>2, <1>3, <1>4, <1>5, <1>6, <1>7, <1>8, <1>9, <1>10, <1>11, <1>12, <1>13,
     <1>14, <1>15, <1>16, <1>17, <1>18, <1>19, <1>21 DEF Next, Owner

\* Every variable of the loop keeps its type, whatever the callers do.
THEOREM TypeCorrect == Spec => []TypeOK
BY TypeInit, TypeStep, PTL DEF Spec

-----------------------------------------------------------------------------
(***************************************************************************)
(* The inductive invariant holds in every reachable state.                 *)
(***************************************************************************)

\* A new loop satisfies the inductive invariant.
LEMMA InitIInv == Init => IInv
<1> SUFFICES ASSUME Init PROVE IInv
  OBVIOUS
<1>1. TypeOK
  BY TypeInit
<1>2. LoopShape /\ Covered /\ QuitWakesPoll
  BY <1>1 DEF Init, TypeOK, LoopShape, Covered, QuitWakesPoll
<1>3. InPushOrder
  BY DEF Init, InPushOrder
<1>4. QED
  BY <1>1, <1>2, <1>3 DEF IInv

\* Steps of loop() that touch no queue keep the push order.
LEMMA OrderUnchanged ==
  ASSUME InPushOrder, UNCHANGED <<ran, functors, pendingFunctors_, queued>>
  PROVE  InPushOrder'
BY DEF InPushOrder

\* push_back appends the next number to the pending functors.
LEMMA OrderPush ==
  ASSUME TypeOK, InPushOrder, PushBack, UNCHANGED <<ran, functors>>
  PROVE  InPushOrder'
<1>1. /\ pendingFunctors_ \in Seq(Nat) /\ functors \in Seq(Nat) /\ ran \in Seq(Nat)
      /\ queued \in Nat
  BY MaxFunctorsAssumption DEF TypeOK
<1>2. /\ Len(pendingFunctors_') = Len(pendingFunctors_) + 1
      /\ DOMAIN pendingFunctors_' = 1..(Len(pendingFunctors_) + 1)
      /\ \A i \in 1..Len(pendingFunctors_) : pendingFunctors_'[i] = pendingFunctors_[i]
      /\ pendingFunctors_'[Len(pendingFunctors_) + 1] = queued + 1
  BY <1>1, AppendProperties, LenProperties DEF PushBack
<1>3. DOMAIN pendingFunctors_ = 1..Len(pendingFunctors_) /\ Len(pendingFunctors_) \in Nat
  BY <1>1, LenProperties
<1>4. Len(ran) \in Nat /\ Len(functors) \in Nat
  BY <1>1, LenProperties
<1>5. \A i \in DOMAIN pendingFunctors_' : pendingFunctors_'[i] = Len(ran) + Len(functors) + i
  <2> TAKE i \in DOMAIN pendingFunctors_'
  <2>1. CASE i = Len(pendingFunctors_) + 1
    BY <1>1, <1>2, <1>3, <1>4, <2>1 DEF InPushOrder
  <2>2. CASE i \in DOMAIN pendingFunctors_
    BY <1>2, <1>3, <1>4, <2>2, Zenon DEF InPushOrder
  <2>3. QED
    BY <1>2, <1>3, <2>1, <2>2
<1>6. queued' = Len(ran) + Len(functors) + Len(pendingFunctors_')
  BY <1>2, <1>3, <1>4 DEF InPushOrder, PushBack
<1>7. QED
  BY <1>5, <1>6 DEF InPushOrder

\* swap() moves the pending functors into the empty batch.
LEMMA OrderSwap ==
  ASSUME TypeOK, LoopShape, InPushOrder, Swap
  PROVE  InPushOrder'
<1>1. functors = <<>> /\ Len(functors) = 0
  BY DEF LoopShape, Swap
<1>2. ran \in Seq(Nat) /\ pendingFunctors_ \in Seq(Nat)
  BY DEF TypeOK
<1>3. Len(ran) \in Nat /\ Len(pendingFunctors_) \in Nat
  BY <1>2, LenProperties
<1>4. /\ functors' = pendingFunctors_ /\ pendingFunctors_' = <<>> /\ ran' = ran /\ queued' = queued
      /\ Len(pendingFunctors_') = 0 /\ DOMAIN pendingFunctors_' = {}
  BY DEF Swap
<1>5. DOMAIN pendingFunctors_ = 1..Len(pendingFunctors_)
  BY <1>2, LenProperties
<1>6. QED
  BY <1>1, <1>3, <1>4, <1>5 DEF InPushOrder

\* Running the head of the batch moves one number from the batch to ran.
LEMMA OrderRun ==
  ASSUME TypeOK, InPushOrder, RunFunctor
  PROVE  InPushOrder'
<1> DEFINE n == Len(ran)
           k == Len(functors)
<1>1. /\ functors \in Seq(Nat) /\ functors # <<>> /\ ran \in Seq(Nat)
      /\ pendingFunctors_ \in Seq(Nat)
  BY DEF TypeOK, RunFunctor
<1>2. n \in Nat /\ k \in Nat \ {0} /\ DOMAIN functors = 1..k /\ DOMAIN ran = 1..n
  BY <1>1, LenProperties, EmptySeq
<1>3. Head(functors) = n + 1
  <2>1. 1 \in DOMAIN functors
    BY <1>2
  <2>2. functors[1] = n + 1
    BY <2>1 DEF InPushOrder
  <2>3. QED
    BY <1>1, <2>2
<1>4. /\ Len(ran') = n + 1 /\ DOMAIN ran' = 1..(n + 1)
      /\ \A i \in 1..n : ran'[i] = ran[i]
      /\ ran'[n + 1] = n + 1
  <2>1. ran' = Append(ran, n + 1)
    BY <1>3 DEF RunFunctor
  <2>2. QED
    BY <2>1, <1>1, <1>2, AppendProperties, LenProperties
<1>5. /\ Len(functors') = k - 1 /\ DOMAIN functors' = 1..(k - 1)
      /\ \A i \in 1..(k - 1) : functors'[i] = functors[i + 1]
  <2>1. functors' = Tail(functors) /\ Tail(functors) \in Seq(Nat)
    BY <1>1, HeadTailProperties DEF RunFunctor
  <2>2. QED
    BY <2>1, <1>1, <1>2, HeadTailProperties, LenProperties
<1>6. \A i \in DOMAIN ran' : ran'[i] = i
  BY <1>2, <1>4 DEF InPushOrder
<1>7. \A i \in DOMAIN functors' : functors'[i] = Len(ran') + i
  <2> TAKE i \in DOMAIN functors'
  <2>1. i + 1 \in DOMAIN functors /\ i \in 1..(k - 1)
    BY <1>2, <1>5
  <2>2. functors[i + 1] = n + (i + 1)
    BY <2>1 DEF InPushOrder
  <2>3. QED
    BY <1>2, <1>4, <1>5, <2>1, <2>2
<1>8. pendingFunctors_' = pendingFunctors_ /\ queued' = queued /\ Len(ran') + Len(functors') = n + k
  BY <1>2, <1>4, <1>5 DEF RunFunctor
<1>9. QED
  BY <1>6, <1>7, <1>8 DEF InPushOrder

\* Every step of every thread keeps the inductive invariant.
LEMMA NextIInv == IInv /\ [Next]_vars => IInv'
<1> SUFFICES ASSUME IInv, [Next]_vars PROVE IInv'
  OBVIOUS
<1> USE DEF loopVars, queueVars, fdVars
<1>0. TypeOK /\ LoopShape /\ Covered /\ QuitWakesPoll /\ InPushOrder /\ TypeOK'
  BY TypeStep DEF IInv
<1>a. pendingFunctors_ \in Seq(Nat) /\ pc \in OwnerPC /\ caller \in [Callers -> CallerPC]
  BY <1>0 DEF TypeOK
<1>1. ASSUME NEW t \in Callers, QueueInLoop(t) PROVE IInv'
  <2>1. InPushOrder'
    BY <1>0, <1>1, OrderPush DEF QueueInLoop
  <2>2. LoopShape' /\ Covered'
    BY <1>0, <1>a, <1>1 DEF QueueInLoop, LoopShape, Covered
  <2>3. QuitWakesPoll'
    BY <1>0, <1>a, <1>1 DEF QueueInLoop, QuitWakesPoll
  <2>4. QED
    BY <1>0, <2>1, <2>2, <2>3 DEF IInv
<1>2. ASSUME NEW t \in Callers, Quit(t) PROVE IInv'
  <2>1. InPushOrder'
    BY <1>0, <1>2, OrderUnchanged DEF Quit
  <2>2. LoopShape' /\ QuitWakesPoll'
    BY <1>0, <1>a, <1>2 DEF Quit, LoopShape, QuitWakesPoll
  <2>3. Covered'
    BY <1>0, <1>a, <1>2 DEF Quit, Covered
  <2>4. QED
    BY <1>0, <2>1, <2>2, <2>3 DEF IInv
<1>3. ASSUME NEW t \in Callers, Wakeup(t) PROVE IInv'
  <2>1. InPushOrder'
    BY <1>0, <1>3, OrderUnchanged DEF Wakeup
  <2>2. LoopShape' /\ Covered' /\ QuitWakesPoll'
    BY <1>0, <1>3 DEF Wakeup, LoopShape, Covered, QuitWakesPoll
  <2>3. QED
    BY <1>0, <2>1, <2>2 DEF IInv
<1>4. CASE OwnerQueueInLoop
  <2>1. InPushOrder'
    BY <1>0, <1>4, OrderPush DEF OwnerQueueInLoop
  <2>2. LoopShape' /\ QuitWakesPoll'
    BY <1>0, <1>4 DEF OwnerQueueInLoop, InUserCode, LoopShape, QuitWakesPoll
  <2>3. CASE pc = "channel"
    BY <1>4, <2>1, <2>2, <2>3, <1>0 DEF OwnerQueueInLoop, Covered, IInv
  <2>4. CASE pc = "functor"
    BY <1>4, <2>1, <2>2, <2>4, <1>0, Zenon DEF OwnerQueueInLoop, LoopShape, Covered, IInv
  <2>5. CASE NothingFollows
    <3>1. /\ \A i \in DOMAIN pendingFunctors_' :
                 \/ i \in DOMAIN pendingFunctors_ /\ pendingFunctors_'[i] = pendingFunctors_[i]
                 \/ pendingFunctors_'[i] = queued + 1
          /\ unwoken' = unwoken \cup {queued + 1}
      <4>1. queued + 1 \in Nat
        BY <1>0, MaxFunctorsAssumption DEF TypeOK
      <4>2. QED
        BY <1>a, <1>4, <2>5, <4>1, AppendProperties, LenProperties DEF OwnerQueueInLoop, PushBack
    <3>2. (\A i \in DOMAIN pendingFunctors_ : pendingFunctors_[i] \in unwoken)
            => \A i \in DOMAIN pendingFunctors_' : pendingFunctors_'[i] \in unwoken'
      BY <3>1
    <3>3. Covered'
      BY <1>0, <1>4, <2>5, <3>2, Zenon DEF OwnerQueueInLoop, Covered
    <3>4. QED
      BY <1>0, <2>1, <2>2, <3>3 DEF IInv
  <2>6. QED
    BY <1>4, <2>3, <2>4, <2>5 DEF OwnerQueueInLoop, InUserCode, NothingFollows
<1>5. CASE OwnerQuit
  <2>1. InPushOrder'
    BY <1>0, <1>5, OrderUnchanged DEF OwnerQuit
  <2>2. LoopShape' /\ Covered' /\ QuitWakesPoll'
    BY <1>0, <1>5 DEF OwnerQuit, InUserCode, LoopShape, Covered, QuitWakesPoll
  <2>3. QED
    BY <1>0, <2>1, <2>2 DEF IInv
<1>6. CASE EnterLoop
  <2>1. InPushOrder'
    BY <1>0, <1>6, OrderUnchanged DEF EnterLoop
  <2>2. LoopShape' /\ Covered' /\ QuitWakesPoll'
    BY <1>0, <1>6 DEF EnterLoop, LoopShape, Covered, QuitWakesPoll
  <2>3. QED
    BY <1>0, <2>1, <2>2 DEF IInv
<1>7. CASE While
  <2>1. InPushOrder'
    BY <1>0, <1>7, OrderUnchanged DEF While
  <2>2. LoopShape' /\ Covered' /\ QuitWakesPoll'
    BY <1>0, <1>7, Zenon DEF While, LoopShape, Covered, QuitWakesPoll, TypeOK
  <2>3. QED
    BY <1>0, <2>1, <2>2 DEF IInv
<1>8. CASE PollReady \/ PollTimeout
  <2>1. InPushOrder'
    BY <1>0, <1>8, OrderUnchanged DEF PollReady, PollTimeout
  <2>2. LoopShape' /\ Covered' /\ QuitWakesPoll'
    BY <1>0, <1>8 DEF PollReady, PollTimeout, LoopShape, Covered, QuitWakesPoll
  <2>3. QED
    BY <1>0, <2>1, <2>2 DEF IInv
<1>9. CASE HandleRead
  <2>1. InPushOrder'
    BY <1>0, <1>9, OrderUnchanged DEF HandleRead
  <2>2. LoopShape' /\ Covered' /\ QuitWakesPoll'
    BY <1>0, <1>9 DEF HandleRead, LoopShape, Covered, QuitWakesPoll
  <2>3. QED
    BY <1>0, <2>1, <2>2 DEF IInv
<1>10. CASE (\E c \in Channels : HandleEvent(c)) \/ EventHandled \/ Dispatched
  <2>1. InPushOrder'
    BY <1>0, <1>10, OrderUnchanged DEF HandleEvent, EventHandled, Dispatched
  <2>2. LoopShape' /\ Covered' /\ QuitWakesPoll'
    BY <1>0, <1>10 DEF TypeOK, HandleEvent, EventHandled, Dispatched, LoopShape, Covered, QuitWakesPoll
  <2>3. QED
    BY <1>0, <2>1, <2>2 DEF IInv
<1>11. CASE Swap
  <2>1. InPushOrder'
    BY <1>0, <1>11, OrderSwap
  <2>2. LoopShape' /\ QuitWakesPoll'
    <3>1. CASE pendingFunctors_ = <<>>
      BY <1>0, <1>11, <3>1, Zenon DEF Swap, LoopShape, QuitWakesPoll
    <3>2. CASE pendingFunctors_ # <<>>
      BY <1>0, <1>11, <3>2, Zenon DEF Swap, LoopShape, QuitWakesPoll
    <3> QED BY <3>1, <3>2
  <2>4. Covered'
    <3>1. DOMAIN pendingFunctors_' = {}
      BY <1>11 DEF Swap
    <3> QED BY <3>1, Zenon DEF Covered
  <2>3. QED
    BY <1>0, <2>1, <2>2, <2>4 DEF IInv
<1>12. CASE RunFunctor
  <2>1. InPushOrder'
    BY <1>0, <1>12, OrderRun
  <2>2. LoopShape' /\ Covered' /\ QuitWakesPoll'
    BY <1>0, <1>12 DEF RunFunctor, LoopShape, Covered, QuitWakesPoll
  <2>3. QED
    BY <1>0, <2>1, <2>2 DEF IInv
<1>13. CASE FunctorDone \/ FunctorsDone \/ Released
  <2>1. InPushOrder'
    BY <1>0, <1>13, OrderUnchanged DEF FunctorDone, FunctorsDone, Released
  <2>2. LoopShape' /\ Covered' /\ QuitWakesPoll'
    BY <1>0, <1>13 DEF TypeOK, FunctorDone, FunctorsDone, Released, LoopShape, Covered, QuitWakesPoll
  <2>3. QED
    BY <1>0, <2>1, <2>2 DEF IInv
<1>14. CASE (\E c \in Channels : ChannelReady(c)) \/ UNCHANGED vars
  <2>1. InPushOrder'
    BY <1>0, <1>14, OrderUnchanged DEF ChannelReady, vars
  <2>2. LoopShape' /\ Covered' /\ QuitWakesPoll'
    BY <1>0, <1>14 DEF ChannelReady, vars, LoopShape, Covered, QuitWakesPoll
  <2>3. QED
    BY <1>0, <2>1, <2>2 DEF IInv
<1>15. QED
  BY <1>1, <1>2, <1>3, <1>4, <1>5, <1>6, <1>7, <1>8, <1>9, <1>10, <1>11, <1>12, <1>13, <1>14, Zenon
     DEF Next, Owner

\* The inductive invariant holds in every reachable state.
LEMMA Invariance == Spec => []IInv
BY InitIInv, NextIInv, PTL DEF Spec

\* For any number of callers and functors: while the owner is blocked in poll,
\* every functor that queueInLoop() stored from another thread, a callback or a
\* functor has a wakeup() done or under way.
THEOREM LoopLosesNoWakeup == Spec => []NoLostWakeup
<1>1. IInv => NoLostWakeup
  BY DEF IInv, Covered, NoLostWakeup, Range
<1>2. QED
  BY <1>1, Invariance, PTL

\* For any number of callers: while the owner is blocked in poll, an unseen
\* quit() has its wakeup() done or under way.
THEOREM LoopLosesNoQuit == Spec => []QuitWakesPoll
<1>1. IInv => QuitWakesPoll
  BY DEF IInv
<1>2. QED
  BY <1>1, Invariance, PTL

\* For any number of callers and functors: doPendingFunctors() runs every functor
\* at most once and in the order of push_back.
THEOREM FunctorsRunInPushOrder == Spec => []InPushOrder
<1>1. IInv => InPushOrder
  BY DEF IInv
<1>2. QED
  BY <1>1, Invariance, PTL

-----------------------------------------------------------------------------
(***************************************************************************)
(* The loop implements the abstract executor.                              *)
(***************************************************************************)

\* push_back is the executor's Submit.
LEMMA PushSubmits ==
  ASSUME TypeOK, InPushOrder, PushBack, UNCHANGED <<ran, functors, pc, looping_>>
  PROVE  Executor!Submit
<1>1. /\ pendingFunctors_ \in Seq(Nat) /\ functors \in Seq(Nat) /\ ran \in Seq(Nat)
      /\ queued \in Nat
  BY MaxFunctorsAssumption DEF TypeOK
<1>2. Len(functors \o pendingFunctors_) = Len(functors) + Len(pendingFunctors_)
  BY <1>1, ConcatProperties
<1>3. /\ Len(ran) \in Nat /\ Len(functors) \in Nat /\ Len(pendingFunctors_) \in Nat
  BY <1>1, LenProperties
<1>4. queued = Len(ran) + Len(functors \o pendingFunctors_)
  BY <1>2, <1>3 DEF InPushOrder
<1>5. (functors \o pendingFunctors_)' = Append(functors \o pendingFunctors_, queued + 1)
  <2>1. /\ Append(pendingFunctors_, queued + 1) = pendingFunctors_ \o <<queued + 1>>
        /\ <<queued + 1>> \in Seq(Nat)
    <3>1. queued + 1 \in Nat
      BY <1>1
    <3>2. QED
      BY <1>1, <3>1, AppendIsConcat
  <2>2. functors \o (pendingFunctors_ \o <<queued + 1>>)
          = (functors \o pendingFunctors_) \o <<queued + 1>>
    BY <1>1, <2>1, ConcatAssociative
  <2>3. functors \o pendingFunctors_ \in Seq(Nat)
    BY <1>1, ConcatProperties
  <2>4. Append(functors \o pendingFunctors_, queued + 1)
          = (functors \o pendingFunctors_) \o <<queued + 1>>
    <3>1. queued + 1 \in Nat
      BY <1>1
    <3>2. QED
      BY <2>3, <3>1, AppendIsConcat
  <2>5. QED
    BY <2>1, <2>2, <2>4 DEF PushBack
<1>6. QED
  BY <1>4, <1>5 DEF PushBack, Executor!Submit

\* Taking the head of the batch takes the head of the executor's queue.
LEMMA RunStarts ==
  ASSUME TypeOK, LoopShape, RunFunctor
  PROVE  Executor!Start
<1> DEFINE whole == functors \o pendingFunctors_
<1>1. functors \in Seq(Nat) /\ pendingFunctors_ \in Seq(Nat) /\ functors # <<>>
  BY DEF TypeOK, RunFunctor
<1>2. /\ Len(functors) \in Nat \ {0} /\ Len(pendingFunctors_) \in Nat
      /\ whole \in Seq(Nat) /\ Len(whole) = Len(functors) + Len(pendingFunctors_)
      /\ \A i \in 1..Len(whole) :
            whole[i] = IF i <= Len(functors) THEN functors[i]
                                             ELSE pendingFunctors_[i - Len(functors)]
  BY <1>1, EmptySeq, LenProperties, ConcatProperties
<1>3. whole # <<>> /\ Head(whole) = Head(functors)
  BY <1>1, <1>2
<1>4. Tail(whole) = Tail(functors) \o pendingFunctors_
  <2>1. /\ Tail(functors) \in Seq(Nat) /\ Len(Tail(functors)) = Len(functors) - 1
        /\ \A i \in 1..Len(Tail(functors)) : Tail(functors)[i] = functors[i + 1]
    BY <1>1, HeadTailProperties
  <2>2. /\ Tail(whole) \in Seq(Nat) /\ Len(Tail(whole)) = Len(whole) - 1
        /\ \A i \in 1..Len(Tail(whole)) : Tail(whole)[i] = whole[i + 1]
    BY <1>2, <1>3, HeadTailProperties
  <2>3. /\ Tail(functors) \o pendingFunctors_ \in Seq(Nat)
        /\ Len(Tail(functors) \o pendingFunctors_) = Len(whole) - 1
        /\ \A i \in 1..(Len(whole) - 1) :
              (Tail(functors) \o pendingFunctors_)[i]
                = IF i <= Len(functors) - 1 THEN Tail(functors)[i]
                                            ELSE pendingFunctors_[i - (Len(functors) - 1)]
    BY <1>1, <1>2, <2>1, ConcatProperties
  <2>4. ASSUME NEW i \in 1..(Len(whole) - 1)
        PROVE  Tail(whole)[i] = (Tail(functors) \o pendingFunctors_)[i]
    <3> HIDE DEF whole
    <3>1. i + 1 \in 1..Len(whole) /\ Tail(whole)[i] = whole[i + 1]
      BY <1>2, <2>2
    <3>2. CASE i <= Len(functors) - 1
      BY <1>2, <2>1, <2>3, <3>1, <3>2
    <3>3. CASE i > Len(functors) - 1
      <4>1. (i + 1) - Len(functors) = i - (Len(functors) - 1)
        BY <1>2
      <4>2. whole[i + 1] = pendingFunctors_[(i + 1) - Len(functors)]
        BY <1>2, <3>1, <3>3
      <4>3. QED
        BY <1>2, <2>3, <3>1, <3>3, <4>1, <4>2
    <3>4. QED
      BY <1>2, <3>2, <3>3
  <2>5. QED
    <3> HIDE DEF whole
    <3>1. QED
      BY <2>2, <2>3, <2>4, SeqEqual, Zenon
<1>5. /\ looping_ /\ pc # "functor" /\ pc' = "functor" /\ looping_' = looping_
      /\ ran' = Append(ran, Head(functors))
      /\ (functors \o pendingFunctors_)' = Tail(functors) \o pendingFunctors_
  BY DEF RunFunctor, LoopShape
<1>6. QED
  BY <1>3, <1>4, <1>5 DEF Executor!Start

\* Every step is a step of the abstract executor or leaves its state alone.
LEMMA StepRefines ==
  ASSUME IInv, [Next]_vars
  PROVE  [Executor!Next]_(Executor!vars)
<1> USE DEF loopVars, queueVars, fdVars
<1>0. TypeOK /\ LoopShape /\ InPushOrder
  BY DEF IInv
<1>1. CASE (\E t \in Callers : QueueInLoop(t)) \/ OwnerQueueInLoop
  BY <1>0, <1>1, PushSubmits DEF QueueInLoop, OwnerQueueInLoop, Executor!Next
<1>2. CASE \/ \E t \in Callers : Quit(t) \/ Wakeup(t)
           \/ \E c \in Channels : ChannelReady(c)
           \/ OwnerQuit \/ HandleRead \/ UNCHANGED vars
  BY <1>2 DEF Quit, Wakeup, ChannelReady, OwnerQuit, HandleRead, vars, Executor!vars
<1>3. CASE EnterLoop
  BY <1>0, <1>3, Zenon DEF EnterLoop, LoopShape, TypeOK, Executor!Next, Executor!Toggle
<1>4. CASE While
  BY <1>0, <1>4, Zenon DEF While, LoopShape, TypeOK, Executor!Next, Executor!Toggle, Executor!vars
<1>5. CASE \/ PollReady \/ PollTimeout \/ EventHandled \/ Dispatched \/ FunctorsDone \/ Released
           \/ \E c \in Channels : HandleEvent(c)
  BY <1>5 DEF PollReady, PollTimeout, EventHandled, Dispatched, FunctorsDone, Released, HandleEvent,
              Executor!vars
<1>6. CASE Swap
  <2>1. functors = <<>> /\ pendingFunctors_ \in Seq(Nat)
    BY <1>0, <1>6 DEF Swap, LoopShape, TypeOK
  <2>2. (functors \o pendingFunctors_)' = functors \o pendingFunctors_
    BY <1>6, <2>1, ConcatEmptySeq DEF Swap
  <2>3. QED
    BY <1>6, <2>2 DEF Swap, Executor!vars
<1>7. CASE RunFunctor
  BY <1>0, <1>7, RunStarts DEF Executor!Next
<1>8. CASE FunctorDone
  BY <1>8 DEF FunctorDone, Executor!Next, Executor!Finish
<1>9. QED
  BY <1>1, <1>2, <1>3, <1>4, <1>5, <1>6, <1>7, <1>8, Zenon DEF Next, Owner

\* For any number of callers, channels and functors, loop() with its batches and
\* wakeups is a serial executor: functors are started one at a time, in push
\* order, while loop() runs.
THEOREM LoopImplementsExecutor == Spec => ImplementsExecutor
<1>1. Init => Executor!Init
  BY DEF Init, Executor!Init
<1>2. QED
  BY <1>1, Invariance, StepRefines, PTL DEF Spec, ImplementsExecutor, Executor!Spec

------------------------------------------------------------------------------
(***************************************************************************)
(* Buffer, for every vector size, prepend area, extrabuf and workload: the *)
(* indices stay ordered, the room for a header is kept, the vector stays   *)
(* within a bound that depends on the backlog only, and the readable bytes *)
(* behave as a queue.                                                      *)
(***************************************************************************)

(***************************************************************************)
(* Buffers as the operations meet them.                                    *)
(***************************************************************************)

\* A well-formed buffer: the indices are ordered inside the vector, which always
\* has room for the prepend area.
Valid(b) ==
  /\ b \in [bytes : [0..(b.size - 1) -> Byte], size : Nat, readerIndex_ : Nat, writerIndex_ : Nat]
  /\ b.readerIndex_ <= b.writerIndex_
  /\ b.writerIndex_ <= b.size
  /\ kCheapPrepend <= b.size

\* resize() fills with a byte.
LEMMA ZeroIsByte == 0 \in Byte
BY SizeAssumption DEF Byte

\* A string of n bytes is a sequence of length n.
LEMMA StringIsSeq ==
  ASSUME NEW n \in Nat, NEW data \in Strings(n)
  PROVE  data \in Seq(Byte) /\ Len(data) = n
BY DEF Strings

\* A buffer as constructed.
LEMMA NewBufferValid ==
  /\ Valid(NewBuffer)
  /\ NewBuffer.size = kCheapPrepend + kInitialSize
  /\ NewBuffer.readerIndex_ = kCheapPrepend
  /\ readableBytes(NewBuffer) = 0
BY SizeAssumption, ZeroIsByte DEF Valid, NewBuffer, readableBytes

\* The readable bytes of a valid buffer are a string.
LEMMA ContentIsString ==
  ASSUME NEW b, Valid(b)
  PROVE  /\ readableBytes(b) \in Nat
         /\ Content(b) \in Strings(readableBytes(b))
         /\ Content(b) \in Seq(Byte)
         /\ Len(Content(b)) = readableBytes(b)
<1>1. readableBytes(b) \in Nat
  BY DEF Valid, readableBytes
<1>2. ASSUME NEW i \in 1..readableBytes(b)
      PROVE  b.bytes[b.readerIndex_ + i - 1] \in Byte
  <2>1. b.readerIndex_ + i - 1 \in 0..(b.size - 1)
    BY DEF Valid, readableBytes
  <2>2. QED
    BY <2>1 DEF Valid
<1>3. Content(b) \in Strings(readableBytes(b))
  BY <1>1, <1>2 DEF Content, Strings
<1>4. QED
  BY <1>1, <1>3, StringIsSeq

\* A sequence is a concatenation when its two parts agree pointwise.
LEMMA IsConcat ==
  ASSUME NEW S, NEW s \in Seq(S), NEW t \in Seq(S), NEW u \in Seq(S),
         Len(u) = Len(s) + Len(t),
         \A i \in 1..Len(s) : u[i] = s[i],
         \A i \in 1..Len(t) : u[Len(s) + i] = t[i]
  PROVE  u = s \o t
<1>1. /\ s \o t \in Seq(S) /\ Len(s \o t) = Len(u) /\ Len(s) \in Nat /\ Len(t) \in Nat
      /\ \A i \in 1..Len(u) : (s \o t)[i] = IF i <= Len(s) THEN s[i] ELSE t[i - Len(s)]
  BY ConcatProperties, LenProperties
<1>2. ASSUME NEW i \in 1..Len(u) PROVE u[i] = (s \o t)[i]
  <2>1. CASE i <= Len(s)
    BY <1>1, <2>1
  <2>2. CASE i > Len(s)
    <3>1. i - Len(s) \in 1..Len(t) /\ Len(s) + (i - Len(s)) = i
      BY <1>1, <2>2
    <3>2. u[i] = t[i - Len(s)]
      BY <3>1
    <3>3. QED
      BY <1>1, <2>2, <3>2
  <2>3. QED
    BY <1>1, <2>1, <2>2
<1>3. QED
  BY <1>1, <1>2, SeqEqual

(***************************************************************************)
(* makeSpace, ensureWritableBytes and append.                              *)
(***************************************************************************)

\* resize() keeps the indices and the content.
LEMMA ResizeKeeps ==
  ASSUME NEW b, Valid(b), NEW n \in Nat, n >= b.size
  PROVE  /\ Valid(Resize(b, n))
         /\ Resize(b, n).size = n
         /\ Resize(b, n).readerIndex_ = b.readerIndex_
         /\ Resize(b, n).writerIndex_ = b.writerIndex_
         /\ Content(Resize(b, n)) = Content(b)
<1> DEFINE r == Resize(b, n)
<1>1. /\ r.size = n /\ r.readerIndex_ = b.readerIndex_ /\ r.writerIndex_ = b.writerIndex_
      /\ r.bytes = [i \in 0..(n - 1) |-> IF i < b.size THEN b.bytes[i] ELSE 0]
      /\ r \in [bytes : {r.bytes}, size : {r.size}, readerIndex_ : {r.readerIndex_},
                writerIndex_ : {r.writerIndex_}]
  BY Zenon DEF Resize, Valid
<1>2. r.bytes \in [0..(n - 1) -> Byte]
  <2>1. b.bytes \in [0..(b.size - 1) -> Byte] /\ b.size \in Nat
    BY DEF Valid
  <2>2. ASSUME NEW i \in 0..(n - 1)
        PROVE  (IF i < b.size THEN b.bytes[i] ELSE 0) \in Byte
    BY <2>1, ZeroIsByte
  <2>3. QED
    BY <1>1, <2>2
<1>3. Valid(r)
  <2>1. /\ b.readerIndex_ \in Nat /\ b.writerIndex_ \in Nat /\ b.size \in Nat
        /\ b.readerIndex_ <= b.writerIndex_ /\ b.writerIndex_ <= n /\ kCheapPrepend <= n
    BY SizeAssumption DEF Valid
  <2>2. QED
    BY <1>1, <1>2, <2>1 DEF Valid
<1>4. Content(r) = Content(b)
  <2>1. ASSUME NEW i \in 1..readableBytes(b)
        PROVE  r.bytes[b.readerIndex_ + i - 1] = b.bytes[b.readerIndex_ + i - 1]
    BY <1>1 DEF Valid, readableBytes
  <2>2. readableBytes(r) = readableBytes(b)
    BY <1>1 DEF readableBytes
  <2>3. QED
    BY <1>1, <2>1, <2>2, Zenon DEF Content
<1>5. QED
  BY <1>1, <1>3, <1>4

\* std::copy inside the vector keeps it a vector of the same size.
Copied(copy, n, bytes, at, k, data) ==
  /\ copy \in [0..(n - 1) -> Byte]
  /\ \A i \in 0..(n - 1) : i \in at..(at + k - 1) => copy[i] = data[i - at + 1]
  /\ \A i \in 0..(n - 1) : i \notin at..(at + k - 1) => copy[i] = bytes[i]

LEMMA CopyToType ==
  ASSUME NEW n \in Nat, NEW bytes \in [0..(n - 1) -> Byte], NEW at \in Nat, NEW k \in Nat,
         NEW data \in Strings(k)
  PROVE  Copied(CopyTo(bytes, at, data), n, bytes, at, k, data)
<1>1. Len(data) = k /\ data \in [1..k -> Byte]
  BY StringIsSeq DEF Strings
<1>2. ASSUME NEW i \in 0..(n - 1), i \in at..(at + k - 1) PROVE i - at + 1 \in 1..k
  BY <1>2
<1>3. QED
  BY <1>1, <1>2 DEF CopyTo, Copied

\* Moving the data to kCheapPrepend keeps the content.
LEMMA MoveToFrontKeeps ==
  ASSUME NEW b, Valid(b), kCheapPrepend <= b.readerIndex_
  PROVE  /\ Valid(MoveToFront(b))
         /\ MoveToFront(b).size = b.size
         /\ MoveToFront(b).readerIndex_ = kCheapPrepend
         /\ MoveToFront(b).writerIndex_ = kCheapPrepend + readableBytes(b)
         /\ Content(MoveToFront(b)) = Content(b)
<1> DEFINE m == MoveToFront(b)
           n == readableBytes(b)
<1>0. kCheapPrepend \in Nat
  BY SizeAssumption
<1>1. n \in Nat /\ Content(b) \in Strings(n) /\ kCheapPrepend + n <= b.size
  BY <1>0, ContentIsString DEF Valid, readableBytes
<1>2. /\ m.size = b.size /\ m.readerIndex_ = kCheapPrepend /\ m.writerIndex_ = kCheapPrepend + n
      /\ m.bytes = CopyTo(b.bytes, kCheapPrepend, Content(b))
      /\ m \in [bytes : {m.bytes}, size : {m.size}, readerIndex_ : {m.readerIndex_},
                writerIndex_ : {m.writerIndex_}]
  BY Zenon DEF MoveToFront, Valid
<1>3. /\ m.bytes \in [0..(b.size - 1) -> Byte]
      /\ \A i \in 0..(b.size - 1) : i \in kCheapPrepend..(kCheapPrepend + n - 1)
            => m.bytes[i] = Content(b)[i - kCheapPrepend + 1]
  <2>1. b.size \in Nat /\ b.bytes \in [0..(b.size - 1) -> Byte]
    BY DEF Valid
  <2>2. Copied(CopyTo(b.bytes, kCheapPrepend, Content(b)), b.size, b.bytes, kCheapPrepend, n, Content(b))
    <3> HIDE DEF n
    <3> QED BY <1>0, <1>1, <2>1, CopyToType, Zenon
  <2>3. QED
    <3> HIDE DEF n, m
    <3> QED BY <1>2, <2>2, Zenon DEF Copied
<1>4. Valid(m)
  BY <1>0, <1>1, <1>2, <1>3 DEF Valid
<1>5. readableBytes(m) = n
  BY <1>0, <1>1, <1>2 DEF readableBytes
<1>6. ASSUME NEW i \in 1..n
      PROVE  m.bytes[m.readerIndex_ + i - 1] = Content(b)[i]
  <2>1. /\ m.readerIndex_ + i - 1 \in kCheapPrepend..(kCheapPrepend + n - 1)
        /\ m.readerIndex_ + i - 1 \in 0..(b.size - 1)
        /\ (m.readerIndex_ + i - 1) - kCheapPrepend + 1 = i
    BY <1>0, <1>1, <1>2 DEF Valid
  <2>2. QED
    BY <1>3, <2>1
<1>7. Content(m) = [i \in 1..n |-> Content(b)[i]]
  BY <1>5, <1>6 DEF Content
<1>8. Content(b) = [i \in 1..n |-> Content(b)[i]]
  BY DEF Content
<1>9. QED
  BY <1>2, <1>4, <1>7, <1>8

\* ensureWritableBytes(): the room is there, the content is kept, the indices say
\* where the data went, and the vector grew only as far as needed.
LEMMA EnsureWritable ==
  ASSUME NEW b, Valid(b), NEW len \in Nat
  PROVE  LET e == ensureWritableBytes(b, len)
         IN  /\ Valid(e)
             /\ writableBytes(e) >= len
             /\ Content(e) = Content(b)
             /\ readableBytes(e) = readableBytes(b)
             /\ e.readerIndex_ = IF writableBytes(b) < len /\ RoomInside(b, len)
                                   THEN kCheapPrepend ELSE b.readerIndex_
             /\ \/ e.size = b.size
                \/ e.size < kCheapPrepend + readableBytes(b) + 2 * len
<1> DEFINE e == ensureWritableBytes(b, len)
<1>0. /\ kCheapPrepend \in Nat /\ b.size \in Nat /\ b.readerIndex_ \in Nat /\ b.writerIndex_ \in Nat
      /\ b.readerIndex_ <= b.writerIndex_ /\ b.writerIndex_ <= b.size
  BY SizeAssumption DEF Valid
<1>1. CASE ~(writableBytes(b) < len)
  BY <1>0, <1>1 DEF ensureWritableBytes, writableBytes
<1>2. CASE writableBytes(b) < len /\ RoomInside(b, len)
  <2>1. kCheapPrepend <= b.readerIndex_
    BY <1>0, <1>2 DEF RoomInside, writableBytes, prependableBytes
  <2>2. e = MoveToFront(b)
    BY <1>2 DEF ensureWritableBytes, makeSpace
  <2>3. writableBytes(e) >= len
    BY <1>0, <1>2, <2>1, <2>2, MoveToFrontKeeps
       DEF RoomInside, writableBytes, prependableBytes, readableBytes
  <2>4. readableBytes(e) = readableBytes(b)
    BY <1>0, <2>1, <2>2, MoveToFrontKeeps DEF readableBytes
  <2>5. QED
    BY <1>2, <2>1, <2>2, <2>3, <2>4, MoveToFrontKeeps
<1>3. CASE writableBytes(b) < len /\ ~RoomInside(b, len)
  <2>1. e = Resize(b, b.writerIndex_ + len) /\ b.writerIndex_ + len \in Nat
    BY <1>0, <1>3 DEF ensureWritableBytes, makeSpace
  <2>2. b.writerIndex_ + len >= b.size
    BY <1>0, <1>3 DEF writableBytes
  <2>3. /\ Valid(e) /\ e.size = b.writerIndex_ + len /\ e.readerIndex_ = b.readerIndex_
        /\ e.writerIndex_ = b.writerIndex_ /\ Content(e) = Content(b)
    BY <2>1, <2>2, ResizeKeeps
  <2>4. e.size < kCheapPrepend + readableBytes(b) + 2 * len
    BY <1>0, <1>3, <2>3 DEF RoomInside, writableBytes, prependableBytes, readableBytes
  <2>5. writableBytes(e) >= len /\ readableBytes(e) = readableBytes(b)
    BY <1>0, <2>3 DEF writableBytes, readableBytes
  <2>6. QED
    BY <1>3, <2>3, <2>4, <2>5
<1>4. QED
  BY <1>1, <1>2, <1>3

\* Storing data at beginWrite() and hasWritten() appends it to the content.
LEMMA WrittenAppends ==
  ASSUME NEW b, Valid(b), NEW k \in Nat, NEW data \in Strings(k), k <= writableBytes(b)
  PROVE  LET w == Written(b, data)
         IN  /\ Valid(w)
             /\ w.size = b.size
             /\ w.readerIndex_ = b.readerIndex_
             /\ w.writerIndex_ = b.writerIndex_ + k
             /\ Content(w) = Content(b) \o data
<1> DEFINE w == Written(b, data)
<1> DEFINE n == b.writerIndex_ - b.readerIndex_
<1>0. /\ b.size \in Nat /\ b.readerIndex_ \in Nat /\ n \in Nat
      /\ b.writerIndex_ = b.readerIndex_ + n /\ b.writerIndex_ \in Nat
      /\ n = readableBytes(b) /\ b.readerIndex_ + n + k <= b.size
      /\ b.bytes \in [0..(b.size - 1) -> Byte]
  BY DEF Valid, writableBytes, readableBytes
<1>1. data \in Seq(Byte) /\ Len(data) = k
  BY StringIsSeq
<1>2. /\ w.size = b.size /\ w.readerIndex_ = b.readerIndex_ /\ w.writerIndex_ = b.writerIndex_ + k
      /\ w.bytes = CopyTo(b.bytes, b.writerIndex_, data)
      /\ w \in [bytes : {w.bytes}, size : {w.size}, readerIndex_ : {w.readerIndex_},
                writerIndex_ : {w.writerIndex_}]
  BY <1>1, Zenon DEF Written, Valid
<1>p. PICK size \in Nat, reader \in Nat, len \in Nat, writer \in Nat :
        size = b.size /\ reader = b.readerIndex_ /\ len = n /\ writer = b.writerIndex_
  BY <1>0
<1>a. writer = reader + len /\ writer + k <= size
  BY <1>0, <1>p
<1>3. /\ w.bytes \in [0..(size - 1) -> Byte]
      /\ \A i \in 0..(size - 1) : i \in writer..(writer + k - 1) => w.bytes[i] = data[i - writer + 1]
      /\ \A i \in 0..(size - 1) : i \notin writer..(writer + k - 1) => w.bytes[i] = b.bytes[i]
  <2>1. PICK old \in [0..(size - 1) -> Byte] : old = b.bytes
    BY <1>0, <1>p, Zenon
  <2>2. Copied(CopyTo(old, writer, data), size, old, writer, k, data)
    BY CopyToType, Zenon
  <2>3. w.bytes = CopyTo(old, writer, data)
    BY <1>2, <1>p, <2>1
  <2>4. QED
    BY <2>1, <2>2, <2>3, Zenon DEF Copied
<1>4. Valid(w)
  BY <1>0, <1>p, <1>2, <1>3 DEF Valid
<1>5. /\ Content(w) \in Seq(Byte) /\ Len(Content(w)) = len + k
      /\ \A i \in 1..(len + k) : Content(w)[i] = w.bytes[reader + i - 1]
  <2>1. readableBytes(w) = len + k
    BY <1>0, <1>p, <1>2 DEF readableBytes
  <2>2. QED
    BY <1>0, <1>p, <1>2, <1>4, <2>1, ContentIsString, Zenon DEF Content
<1>6. /\ Content(b) \in Seq(Byte) /\ Len(Content(b)) = len
      /\ \A i \in 1..len : Content(b)[i] = b.bytes[reader + i - 1]
  BY <1>0, <1>p, ContentIsString, Zenon DEF Content
<1>7. ASSUME NEW i \in 1..len PROVE Content(w)[i] = Content(b)[i]
  <2>1. /\ reader + i - 1 \notin writer..(writer + k - 1)
        /\ reader + i - 1 \in 0..(size - 1)
        /\ i \in 1..(len + k)
    BY <1>a
  <2>2. QED
    BY <1>3, <1>5, <1>6, <2>1, Zenon
<1>8. ASSUME NEW i \in 1..k PROVE Content(w)[len + i] = data[i]
  <2>1. /\ reader + (len + i) - 1 \in writer..(writer + k - 1)
        /\ reader + (len + i) - 1 \in 0..(size - 1)
        /\ (reader + (len + i) - 1) - writer + 1 = i
        /\ len + i \in 1..(len + k)
    BY <1>a
  <2>2. QED
    BY <1>3, <1>5, <2>1, Zenon
<1>9. Content(w) = Content(b) \o data
  <2>1. /\ Len(Content(w)) = Len(Content(b)) + Len(data)
        /\ \A i \in 1..Len(Content(b)) : Content(w)[i] = Content(b)[i]
        /\ \A i \in 1..Len(data) : Content(w)[Len(Content(b)) + i] = data[i]
    BY <1>1, <1>5, <1>6, <1>7, <1>8, Zenon
  <2> HIDE DEF w
  <2>2. QED
    BY <1>1, <1>5, <1>6, <2>1, IsConcat, Zenon
<1>10. QED
  BY <1>2, <1>4, <1>9

\* append() appends to the content; where the data goes and how far the vector
\* grows is decided by ensureWritableBytes().
LEMMA AppendAppends ==
  ASSUME NEW b, Valid(b), NEW k \in Nat, NEW data \in Strings(k)
  PROVE  LET a == append(b, data)
         IN  /\ Valid(a)
             /\ Content(a) = Content(b) \o data
             /\ readableBytes(a) = readableBytes(b) + k
             /\ a.readerIndex_ = IF writableBytes(b) < k /\ RoomInside(b, k)
                                   THEN kCheapPrepend ELSE b.readerIndex_
             /\ \/ a.size = b.size
                \/ a.size < kCheapPrepend + readableBytes(b) + 2 * k
<1> DEFINE e == ensureWritableBytes(b, k)
<1>1. /\ Valid(e) /\ k <= writableBytes(e) /\ Content(e) = Content(b)
      /\ readableBytes(e) = readableBytes(b)
      /\ e.readerIndex_ = IF writableBytes(b) < k /\ RoomInside(b, k)
                            THEN kCheapPrepend ELSE b.readerIndex_
      /\ \/ e.size = b.size
         \/ e.size < kCheapPrepend + readableBytes(b) + 2 * k
  <2>1. Valid(e) /\ writableBytes(e) >= k
    BY EnsureWritable
  <2>2. k <= writableBytes(e)
    BY <2>1 DEF Valid, writableBytes
  <2>3. QED
    BY <2>2, EnsureWritable
<1>2. append(b, data) = Written(e, data)
  BY StringIsSeq DEF append
<1> HIDE DEF e
<1>3. /\ Valid(Written(e, data)) /\ Written(e, data).size = e.size
      /\ Written(e, data).readerIndex_ = e.readerIndex_
      /\ Written(e, data).writerIndex_ = e.writerIndex_ + k
      /\ Content(Written(e, data)) = Content(e) \o data
  BY <1>1, WrittenAppends, Zenon
<1>4. readableBytes(Written(e, data)) = readableBytes(b) + k
  BY <1>1, <1>3 DEF readableBytes, Valid
<1>5. QED
  BY <1>1, <1>2, <1>3, <1>4

\* prepend() puts the data in front of the content.
LEMMA PrependedPrepends ==
  ASSUME NEW b, Valid(b), NEW k \in Nat, NEW data \in Strings(k), k <= prependableBytes(b)
  PROVE  LET p == Prepended(b, data)
         IN  /\ Valid(p)
             /\ p.size = b.size
             /\ p.readerIndex_ = b.readerIndex_ - k
             /\ p.writerIndex_ = b.writerIndex_
             /\ Content(p) = data \o Content(b)
<1> DEFINE p == Prepended(b, data)
           n == b.writerIndex_ - b.readerIndex_
           f == b.readerIndex_ - k
<1>0. /\ b.size \in Nat /\ b.writerIndex_ \in Nat /\ f \in Nat /\ n \in Nat
      /\ b.readerIndex_ = f + k /\ b.writerIndex_ = f + k + n
      /\ n = readableBytes(b) /\ f + k + n <= b.size
      /\ b.bytes \in [0..(b.size - 1) -> Byte]
  BY DEF Valid, readableBytes, prependableBytes
<1>1. data \in Seq(Byte) /\ Len(data) = k
  BY StringIsSeq
<1>2. /\ p.size = b.size /\ p.readerIndex_ = b.readerIndex_ - k /\ p.writerIndex_ = b.writerIndex_
      /\ p.bytes = CopyTo(b.bytes, b.readerIndex_ - k, data)
      /\ p \in [bytes : {p.bytes}, size : {p.size}, readerIndex_ : {p.readerIndex_},
                writerIndex_ : {p.writerIndex_}]
  BY <1>1, Zenon DEF Prepended, Valid
<1>p. PICK size \in Nat, len \in Nat, first \in Nat :
        size = b.size /\ len = n /\ first = f
  BY <1>0
<1>a. first + k + len <= size
  BY <1>0, <1>p, Zenon
<1>3. /\ p.bytes \in [0..(size - 1) -> Byte]
      /\ \A i \in 0..(size - 1) : i \in first..(first + k - 1) => p.bytes[i] = data[i - first + 1]
      /\ \A i \in 0..(size - 1) : i \notin first..(first + k - 1) => p.bytes[i] = b.bytes[i]
  <2>1. PICK old \in [0..(size - 1) -> Byte] : old = b.bytes
    BY <1>0, <1>p, Zenon
  <2>2. /\ CopyTo(old, first, data) \in [0..(size - 1) -> Byte]
        /\ \A i \in 0..(size - 1) : i \in first..(first + k - 1)
              => CopyTo(old, first, data)[i] = data[i - first + 1]
        /\ \A i \in 0..(size - 1) : i \notin first..(first + k - 1)
              => CopyTo(old, first, data)[i] = old[i]
    <3>1. Len(data) = k /\ data \in [1..k -> Byte]
      BY StringIsSeq DEF Strings
    <3>2. ASSUME NEW i \in 0..(size - 1), i \in first..(first + k - 1)
          PROVE  i - first + 1 \in 1..k
      BY <3>2
    <3>3. QED
      BY <3>1, <3>2 DEF CopyTo
  <2>3. p.bytes = CopyTo(old, first, data)
    BY <1>2, <1>p, <2>1
  <2>4. QED
    BY <2>1, <2>2, <2>3, Zenon
<1>4. Valid(p)
  <2>1. /\ p.size \in Nat /\ p.readerIndex_ \in Nat /\ p.writerIndex_ \in Nat
        /\ p.readerIndex_ <= p.writerIndex_ /\ p.writerIndex_ <= p.size
        /\ kCheapPrepend <= p.size /\ p.bytes \in [0..(p.size - 1) -> Byte]
    <3>1. p.bytes \in [0..(p.size - 1) -> Byte]
      BY <1>2, <1>3, <1>p
    <3>2. kCheapPrepend <= p.size
      BY <1>2, Zenon DEF Valid
    <3>3. b.readerIndex_ - k <= b.writerIndex_ /\ b.writerIndex_ <= b.size
      BY <1>0
    <3>4. QED
      BY <1>0, <1>2, <3>1, <3>2, <3>3, Zenon
  <2> HIDE DEF p
  <2>2. QED
    BY <1>2, <2>1, Zenon DEF Valid
<1>5. /\ Content(p) \in Seq(Byte) /\ Len(Content(p)) = k + len
      /\ \A i \in 1..(k + len) : Content(p)[i] = p.bytes[first + i - 1]
  <2>1. readableBytes(p) = k + len
    BY <1>0, <1>2, <1>p DEF readableBytes
  <2>2. QED
    BY <1>0, <1>2, <1>4, <1>p, <2>1, ContentIsString, Zenon DEF Content
<1>6. /\ Content(b) \in Seq(Byte) /\ Len(Content(b)) = len
      /\ \A i \in 1..len : Content(b)[i] = b.bytes[first + k + i - 1]
  BY <1>0, <1>p, ContentIsString, Zenon DEF Content
<1>7. ASSUME NEW i \in 1..k PROVE Content(p)[i] = data[i]
  <2>1. /\ first + i - 1 \in first..(first + k - 1)
        /\ first + i - 1 \in 0..(size - 1)
        /\ (first + i - 1) - first + 1 = i
        /\ i \in 1..(k + len)
    BY <1>a
  <2>2. QED
    BY <1>3, <1>5, <2>1, Zenon
<1>8. ASSUME NEW i \in 1..len PROVE Content(p)[k + i] = Content(b)[i]
  <2>1. /\ first + (k + i) - 1 \notin first..(first + k - 1)
        /\ first + (k + i) - 1 \in 0..(size - 1)
        /\ first + (k + i) - 1 = first + k + i - 1
        /\ k + i \in 1..(k + len)
    BY <1>a
  <2>2. QED
    BY <1>3, <1>5, <1>6, <2>1, Zenon
<1>9. Content(p) = data \o Content(b)
  <2>1. /\ Len(Content(p)) = Len(data) + Len(Content(b))
        /\ \A i \in 1..Len(data) : Content(p)[i] = data[i]
        /\ \A i \in 1..Len(Content(b)) : Content(p)[Len(data) + i] = Content(b)[i]
    BY <1>1, <1>5, <1>6, <1>7, <1>8
  <2> HIDE DEF p
  <2>2. QED
    BY <1>1, <1>5, <1>6, <2>1, IsConcat, Zenon
<1>10. QED
  BY <1>2, <1>4, <1>9

\* Moving readerIndex_ up or writerIndex_ down cuts the content.
LEMMA IndicesCut ==
  ASSUME NEW b, Valid(b), NEW len \in 0..readableBytes(b)
  PROVE  LET r == [b EXCEPT !.readerIndex_ = @ + len]
             u == [b EXCEPT !.writerIndex_ = @ - len]
         IN  /\ Valid(r) /\ Content(r) = SubSeq(Content(b), len + 1, Len(Content(b)))
             /\ Valid(u) /\ Content(u) = SubSeq(Content(b), 1, Len(Content(b)) - len)
<1> DEFINE r == [b EXCEPT !.readerIndex_ = @ + len]
           u == [b EXCEPT !.writerIndex_ = @ - len]
<1>1. /\ Valid(r) /\ r.readerIndex_ = b.readerIndex_ + len
      /\ readableBytes(r) = readableBytes(b) - len /\ r.bytes = b.bytes
      /\ Valid(u) /\ u.readerIndex_ = b.readerIndex_
      /\ readableBytes(u) = readableBytes(b) - len /\ u.bytes = b.bytes
  BY DEF Valid, readableBytes
<1>2. /\ Content(b) \in Seq(Byte) /\ Len(Content(b)) = readableBytes(b)
      /\ Content(r) \in Seq(Byte) /\ Len(Content(r)) = readableBytes(r)
      /\ Content(u) \in Seq(Byte) /\ Len(Content(u)) = readableBytes(u)
      /\ readableBytes(b) \in Nat /\ b.readerIndex_ \in Nat
  BY <1>1, ContentIsString, Zenon DEF Valid
<1>p. PICK n \in Nat, first \in Nat : n = readableBytes(b) /\ first = b.readerIndex_
  BY <1>2
<1>3. /\ \A i \in 1..n : Content(b)[i] = b.bytes[first + i - 1]
      /\ \A i \in 1..(n - len) : Content(r)[i] = b.bytes[first + len + i - 1]
      /\ \A i \in 1..(n - len) : Content(u)[i] = b.bytes[first + i - 1]
  BY <1>1, <1>p DEF Content
<1>4. /\ len \in Nat /\ len <= n /\ Len(Content(b)) = n
      /\ Len(Content(r)) = n - len /\ Len(Content(u)) = n - len
  BY <1>1, <1>2, <1>p
<1> HIDE DEF r, u
<1>5. Content(r) = SubSeq(Content(b), len + 1, n)
  <2>1. \A i \in (len + 1)..n : Content(b)[i] \in Byte
    BY <1>2, <1>4, ElementOfSeq
  <2>2. /\ SubSeq(Content(b), len + 1, n) \in Seq(Byte)
        /\ Len(SubSeq(Content(b), len + 1, n)) = n - len
        /\ \A i \in 1..(n - len) : SubSeq(Content(b), len + 1, n)[i] = Content(b)[len + i]
    <3>1. /\ len + 1 \in Int /\ n \in Int /\ n - (len + 1) + 1 = n - len
          /\ (IF len + 1 <= n THEN n - (len + 1) + 1 ELSE 0) = n - len
          /\ \A i \in 1..(n - len) : len + 1 + i - 1 = len + i
      BY <1>4
    <3>2. QED
      BY <2>1, <3>1, SubSeqProperties
  <2>3. ASSUME NEW i \in 1..(n - len)
        PROVE  Content(r)[i] = SubSeq(Content(b), len + 1, n)[i]
    <3>1. len + i \in 1..n /\ first + (len + i) - 1 = first + len + i - 1
      BY <1>4
    <3>2. QED
      BY <1>3, <2>2, <3>1
  <2>4. QED
    BY <1>2, <1>4, <2>2, <2>3, SeqEqual
<1>6. Content(u) = SubSeq(Content(b), 1, n - len)
  <2>1. \A i \in 1..(n - len) : Content(b)[i] \in Byte
    BY <1>2, <1>4, ElementOfSeq
  <2>2. /\ SubSeq(Content(b), 1, n - len) \in Seq(Byte)
        /\ Len(SubSeq(Content(b), 1, n - len)) = n - len
        /\ \A i \in 1..(n - len) : SubSeq(Content(b), 1, n - len)[i] = Content(b)[i]
    <3>1. /\ n - len \in Int /\ (n - len) - 1 + 1 = n - len
          /\ (IF 1 <= n - len THEN (n - len) - 1 + 1 ELSE 0) = n - len
          /\ \A i \in 1..(n - len) : 1 + i - 1 = i
      BY <1>4
    <3>2. QED
      BY <2>1, <3>1, SubSeqProperties
  <2>3. ASSUME NEW i \in 1..(n - len)
        PROVE  Content(u)[i] = SubSeq(Content(b), 1, n - len)[i]
    <3>1. i \in 1..n
      BY <1>4
    <3>2. QED
      BY <1>3, <2>2, <3>1
  <2>4. QED
    BY <1>2, <1>4, <2>2, <2>3, SeqEqual
<1>7. QED
  BY <1>1, <1>4, <1>5, <1>6, Zenon DEF r, u

(***************************************************************************)
(* The inductive invariant, one lemma for each kind of operation.          *)
(***************************************************************************)

BufferInv ==
  /\ Valid(self)
  /\ peak \in Nat
  /\ prepended \in Nat
  /\ PrependRoom
  /\ SizeBounded

\* A sequence of n bytes is a string of n bytes.
LEMMA SeqIsString ==
  ASSUME NEW s \in Seq(Byte), NEW n \in Nat, Len(s) = n
  PROVE  s \in Strings(n)
BY LenProperties DEF Strings

\* A new buffer holds nothing.
LEMMA EmptyContent == Content(NewBuffer) = <<>>
<1>1. Content(NewBuffer) \in Seq(Byte) /\ Len(Content(NewBuffer)) = 0
  BY NewBufferValid, ContentIsString
<1>2. QED
  BY <1>1, EmptySeq

\* What every caller's data is.
LEMMA DataIsString ==
  ASSUME NEW data \in Data
  PROVE  \E k \in Nat : data \in Strings(k)
BY SizeAssumption DEF Data

\* An integer in network order is a string of its width.
LEMMA IntIsString ==
  ASSUME NEW w \in Widths, NEW x \in IntOf(w)
  PROVE  w \in Nat /\ hostToNetwork(x, w) \in Strings(w)
<1>1. w \in Nat /\ x \in Int /\ Base \in Nat \ {0}
  BY SizeAssumption DEF IntOf
<1>2. ASSUME NEW i \in 1..w PROVE (x \div Base^(w - i)) % Base \in Byte
  BY <1>1 DEF Byte
<1>3. QED
  BY <1>1, <1>2 DEF hostToNetwork, Strings

\* The step of an operation that asks for room for k bytes.
LEMMA AskingKeepsIInv ==
  ASSUME BufferInv, Valid(self'), NEW k \in Nat, Asks(k),
         self'.size = self.size \/ self'.size < kCheapPrepend + readableBytes(self) + 2 * k,
         prepended' \in Nat,
         self'.readerIndex_ + prepended' >= kCheapPrepend
  PROVE  BufferInv'
<1>1. /\ self.size \in Nat /\ self'.size \in Nat /\ peak \in Nat /\ readableBytes(self) \in Nat
      /\ self.size <= kCheapPrepend + Larger(kInitialSize, 2 * peak)
      /\ peak' = Larger(peak, readableBytes(self) + k)
  BY ContentIsString, Zenon DEF BufferInv, Valid, SizeBounded, Asks
<1>2. peak' \in Nat
  BY <1>1 DEF Larger
<1>3. self'.size <= kCheapPrepend + Larger(kInitialSize, 2 * peak')
  <2>1. PICK size \in Nat, p \in Nat, q \in Nat, n \in Nat, m \in Nat :
          size = self.size /\ p = peak /\ q = peak' /\ n = readableBytes(self) /\ m = self'.size
    BY <1>1, <1>2, Zenon
  <2>2. /\ size <= kCheapPrepend + Larger(kInitialSize, 2 * p) /\ q = Larger(p, n + k)
        /\ m = size \/ m < kCheapPrepend + n + 2 * k
    BY <1>1, <2>1
  <2>3. m <= kCheapPrepend + Larger(kInitialSize, 2 * q)
    BY <2>2, SizeAssumption DEF Larger
  <2>4. QED
    BY <2>1, <2>3
<1>4. QED
  BY <1>2, <1>3 DEF BufferInv, PrependRoom, SizeBounded

\* The step of an operation that stays inside the vector and asks for nothing.
LEMMA InsideKeepsIInv ==
  ASSUME BufferInv, Valid(self'), self'.size = self.size, peak' = peak, prepended' \in Nat,
         self'.readerIndex_ + prepended' >= kCheapPrepend
  PROVE  BufferInv'
BY DEF BufferInv, PrependRoom, SizeBounded

\* append() puts the data behind the content.
LEMMA AppendStep ==
  ASSUME BufferInv, NEW k \in Nat, NEW data \in Strings(k), Append_(data)
  PROVE  BufferInv' /\ Content(self') = Content(self) \o data
<1>1. /\ Valid(self) /\ Len(data) = k /\ self' = append(self, data) /\ Asks(k)
      /\ prepended' = IF MovesFor(k) THEN 0 ELSE prepended
  BY StringIsSeq DEF BufferInv, Append_
<1>2. /\ Valid(self') /\ Content(self') = Content(self) \o data
      /\ self'.readerIndex_ = IF MovesFor(k) THEN kCheapPrepend ELSE self.readerIndex_
      /\ self'.size = self.size \/ self'.size < kCheapPrepend + readableBytes(self) + 2 * k
  BY <1>1, AppendAppends, Zenon DEF MovesFor
<1>3. prepended' \in Nat /\ self'.readerIndex_ + prepended' >= kCheapPrepend
  BY <1>1, <1>2, SizeAssumption DEF BufferInv, PrependRoom
<1>4. QED
  BY <1>1, <1>2, <1>3, AskingKeepsIInv

\* ensureWritableBytes() keeps the content.
LEMMA EnsureStep ==
  ASSUME BufferInv, NEW k \in Nat, EnsureWritableBytes(k)
  PROVE  BufferInv' /\ Content(self') = Content(self)
<1>1. /\ Valid(self) /\ self' = ensureWritableBytes(self, k) /\ Asks(k)
      /\ prepended' = IF MovesFor(k) THEN 0 ELSE prepended
  BY DEF BufferInv, EnsureWritableBytes
<1>2. /\ Valid(self') /\ Content(self') = Content(self)
      /\ self'.readerIndex_ = IF MovesFor(k) THEN kCheapPrepend ELSE self.readerIndex_
      /\ self'.size = self.size \/ self'.size < kCheapPrepend + readableBytes(self) + 2 * k
  BY <1>1, EnsureWritable DEF MovesFor
<1>3. prepended' \in Nat /\ self'.readerIndex_ + prepended' >= kCheapPrepend
  BY <1>1, <1>2, SizeAssumption DEF BufferInv, PrependRoom
<1>4. QED
  BY <1>1, <1>2, <1>3, AskingKeepsIInv

\* hasWritten() takes the bytes written to beginWrite() behind the content.
LEMMA HasWrittenStep ==
  ASSUME BufferInv, NEW k \in Nat, NEW data \in Strings(k), HasWritten(data)
  PROVE  BufferInv' /\ Content(self') = Content(self) \o data
<1>1. /\ Valid(self) /\ Len(data) = k /\ self' = Written(self, data) /\ Asks(k)
      /\ k <= writableBytes(self) /\ prepended' = prepended
  BY StringIsSeq DEF BufferInv, HasWritten
<1>2. /\ Valid(self') /\ Content(self') = Content(self) \o data
      /\ self'.readerIndex_ = self.readerIndex_ /\ self'.size = self.size
  BY <1>1, WrittenAppends
<1>3. prepended' \in Nat /\ self'.readerIndex_ + prepended' >= kCheapPrepend
  BY <1>1, <1>2 DEF BufferInv, PrependRoom
<1>4. QED
  BY <1>1, <1>2, <1>3, AskingKeepsIInv

\* prepend() puts the data in front of the content.
LEMMA PrependStep ==
  ASSUME BufferInv, NEW k \in Nat, NEW data \in Strings(k), Prepend(data)
  PROVE  BufferInv' /\ Content(self') = data \o Content(self)
<1>1. /\ Valid(self) /\ Len(data) = k /\ self' = Prepended(self, data) /\ peak' = peak
      /\ k <= prependableBytes(self) /\ prepended' = prepended + k
  BY StringIsSeq DEF BufferInv, Prepend
<1>2. /\ Valid(self') /\ Content(self') = data \o Content(self)
      /\ self'.readerIndex_ = self.readerIndex_ - k /\ self'.size = self.size
  BY <1>1, PrependedPrepends
<1>3. prepended' \in Nat /\ self'.readerIndex_ + prepended' >= kCheapPrepend
  BY <1>1, <1>2, SizeAssumption DEF BufferInv, PrependRoom, Valid
<1>4. QED
  BY <1>1, <1>2, <1>3, InsideKeepsIInv

\* unwrite() drops the last bytes of the content.
LEMMA UnwriteStep ==
  ASSUME BufferInv, NEW k \in Nat, Unwrite(k)
  PROVE  /\ BufferInv' /\ k \in 0..Len(Content(self))
         /\ Content(self') = SubSeq(Content(self), 1, Len(Content(self)) - k)
<1>1. /\ Valid(self) /\ self' = [self EXCEPT !.writerIndex_ = @ - k] /\ peak' = peak
      /\ k \in 0..readableBytes(self) /\ prepended' = prepended
      /\ Len(Content(self)) = readableBytes(self)
  BY ContentIsString DEF BufferInv, Unwrite
<1>2. Valid(self') /\ Content(self') = SubSeq(Content(self), 1, Len(Content(self)) - k)
  BY <1>1, IndicesCut, Zenon
<1>3. self'.readerIndex_ = self.readerIndex_ /\ self'.size = self.size
  BY <1>1 DEF Valid
<1>4. prepended' \in Nat /\ self'.readerIndex_ + prepended' >= kCheapPrepend
  BY <1>1, <1>3 DEF BufferInv, PrependRoom
<1>5. QED
  BY <1>1, <1>2, <1>3, <1>4, InsideKeepsIInv, Zenon

\* retrieve() drops the first bytes of the content.
LEMMA RetrieveStep ==
  ASSUME BufferInv, NEW k \in Nat, Retrieve(k)
  PROVE  /\ BufferInv' /\ k \in 0..Len(Content(self))
         /\ Content(self') = SubSeq(Content(self), k + 1, Len(Content(self)))
<1>1. /\ Valid(self) /\ peak' = peak /\ k \in 0..readableBytes(self)
      /\ Len(Content(self)) = readableBytes(self) /\ readableBytes(self) \in Nat
  BY ContentIsString DEF BufferInv, Retrieve
<1>2. CASE k < readableBytes(self)
  <2>1. /\ self' = [self EXCEPT !.readerIndex_ = @ + k]
        /\ prepended' = Larger(0, prepended - k)
    BY <1>2 DEF Retrieve
  <2>2. Valid(self') /\ Content(self') = SubSeq(Content(self), k + 1, Len(Content(self)))
    BY <1>1, <2>1, IndicesCut, Zenon
  <2>3. self'.readerIndex_ = self.readerIndex_ + k /\ self'.size = self.size
    BY <1>1, <2>1 DEF Valid
  <2>4. prepended' \in Nat /\ self'.readerIndex_ + prepended' >= kCheapPrepend
    <3>1. /\ self.readerIndex_ \in Nat /\ prepended \in Nat /\ kCheapPrepend \in Nat
          /\ self.readerIndex_ + prepended >= kCheapPrepend
      BY SizeAssumption DEF BufferInv, PrependRoom, Valid
    <3>2. prepended' = IF 0 < prepended - k THEN prepended - k ELSE 0
      BY <2>1 DEF Larger
    <3>3. QED
      BY <2>3, <3>1, <3>2
  <2>5. QED
    BY <1>1, <2>2, <2>3, <2>4, InsideKeepsIInv
<1>3. CASE ~(k < readableBytes(self))
  <2>1. /\ self' = [self EXCEPT !.readerIndex_ = kCheapPrepend, !.writerIndex_ = kCheapPrepend]
        /\ prepended' = 0 /\ k = readableBytes(self)
    BY <1>1, <1>3 DEF Retrieve
  <2>2. /\ Valid(self') /\ self'.readerIndex_ = kCheapPrepend /\ self'.size = self.size
        /\ readableBytes(self') = 0
    <3>1. /\ self'.readerIndex_ = kCheapPrepend /\ self'.writerIndex_ = kCheapPrepend
          /\ self'.size = self.size /\ self'.bytes = self.bytes /\ kCheapPrepend \in Nat
          /\ self' \in [bytes : {self'.bytes}, size : {self'.size},
                       readerIndex_ : {self'.readerIndex_}, writerIndex_ : {self'.writerIndex_}]
      BY <1>1, <2>1, SizeAssumption, Zenon DEF Valid
    <3>2. self.size \in Nat /\ self.bytes \in [0..(self.size - 1) -> Byte] /\ kCheapPrepend <= self.size
      BY <1>1 DEF Valid
    <3>3. Valid(self')
      BY <3>1, <3>2 DEF Valid
    <3>4. QED
      BY <3>1, <3>3 DEF readableBytes
  <2>3. Content(self') = <<>>
    BY <2>2, ContentIsString, EmptySeq
  <2>4. SubSeq(Content(self), k + 1, Len(Content(self))) = <<>>
    BY <1>1, <2>1, SubSeqEmpty
  <2>5. prepended' \in Nat /\ self'.readerIndex_ + prepended' >= kCheapPrepend
    BY <2>1, <2>2, SizeAssumption
  <2>6. QED
    BY <1>1, <2>2, <2>3, <2>4, <2>5, InsideKeepsIInv, Zenon
<1>4. QED
  BY <1>2, <1>3

\* A new buffer with room for the content and the reserve takes the content.
LEMMA ShrinkStep ==
  ASSUME BufferInv, NEW k \in Nat, Shrink(k)
  PROVE  BufferInv' /\ Content(self') = Content(self)
<1> DEFINE n == readableBytes(self)
           e == ensureWritableBytes(NewBuffer, n + k)
<1>1. /\ Valid(self) /\ n \in Nat /\ Content(self) \in Strings(n) /\ Content(self) \in Seq(Byte)
      /\ self' = append(e, Content(self)) /\ Asks(k) /\ prepended' = 0 /\ n + k \in Nat
  BY ContentIsString DEF BufferInv, Shrink
<1>2. /\ Valid(e) /\ Content(e) = <<>> /\ readableBytes(e) = 0 /\ e.readerIndex_ = kCheapPrepend
      /\ e.size = kCheapPrepend + kInitialSize \/ e.size < kCheapPrepend + 0 + 2 * (n + k)
  <2>1. /\ Valid(NewBuffer) /\ Content(NewBuffer) = <<>> /\ readableBytes(NewBuffer) = 0
        /\ NewBuffer.readerIndex_ = kCheapPrepend /\ NewBuffer.size = kCheapPrepend + kInitialSize
    BY NewBufferValid, EmptyContent
  <2>2. QED
    BY <1>1, <2>1, EnsureWritable, Zenon
<1> HIDE DEF e
<1>3. /\ Valid(self') /\ Content(self') = <<>> \o Content(self)
      /\ self'.readerIndex_ = kCheapPrepend
      /\ self'.size = e.size \/ self'.size < kCheapPrepend + 0 + 2 * n
  BY <1>1, <1>2, AppendAppends, Zenon
<1>4. Content(self') = Content(self)
  BY <1>1, <1>3, ConcatEmptySeq
<1>5. BufferInv'
  <2>1. /\ peak \in Nat /\ peak' = Larger(peak, n + k) /\ self'.size \in Nat /\ e.size \in Nat
        /\ kCheapPrepend \in Nat /\ kInitialSize \in Nat
    BY <1>1, <1>2, <1>3, SizeAssumption DEF BufferInv, Asks, Valid
  <2>2. PICK a \in Nat, m \in Nat, p \in Nat, q \in Nat, r \in Nat :
          a = n /\ m = self'.size /\ p = peak /\ q = e.size /\ r = peak'
    BY <1>1, <2>1, Zenon DEF Larger
  <2>3. /\ m = q \/ m < kCheapPrepend + 2 * a
        /\ q = kCheapPrepend + kInitialSize \/ q < kCheapPrepend + 2 * (a + k)
        /\ r = Larger(p, a + k)
    BY <1>2, <1>3, <2>1, <2>2
  <2>4. m <= kCheapPrepend + Larger(kInitialSize, 2 * r)
    BY <2>1, <2>3 DEF Larger
  <2>5. QED
    BY <1>1, <1>3, <2>1, <2>2, <2>4 DEF BufferInv, PrependRoom, SizeBounded
<1>6. QED
  BY <1>4, <1>5

\* What readv() put behind the data and what it put into extrabuf end up behind
\* the data, in the order they were read.
LEMMA ReadFdStep ==
  ASSUME BufferInv, NEW k \in Nat, NEW data \in Strings(k), ReadFd(data)
  PROVE  BufferInv' /\ Content(self') = Content(self) \o data
<1>1. /\ Valid(self) /\ Len(data) = k /\ data \in Seq(Byte) /\ Asks(k)
      /\ self' = ReadFdStores(data) /\ writableBytes(self) \in Nat
      /\ prepended' = IF k - writableBytes(self) > 0
                         /\ self.readerIndex_ >= k - writableBytes(self) + kCheapPrepend
                        THEN 0 ELSE prepended
  BY StringIsSeq DEF BufferInv, ReadFd, Valid, writableBytes
<1>2. CASE k <= writableBytes(self)
  <2>1. self' = Written(self, data) /\ prepended' = prepended
    BY <1>1, <1>2 DEF ReadFdStores
  <2>2. /\ Valid(self') /\ Content(self') = Content(self) \o data
        /\ self'.readerIndex_ = self.readerIndex_ /\ self'.size = self.size
    BY <1>1, <1>2, <2>1, WrittenAppends
  <2>3. prepended' \in Nat /\ self'.readerIndex_ + prepended' >= kCheapPrepend
    BY <2>1, <2>2 DEF BufferInv, PrependRoom
  <2>4. QED
    BY <1>1, <2>2, <2>3, AskingKeepsIInv
<1>3. CASE ~(k <= writableBytes(self))
  <2>1. PICK m \in Nat, x \in Nat : m = writableBytes(self) /\ x = k - m /\ k = m + x /\ x > 0
    BY <1>1, <1>3
  <2> DEFINE head == SubSeq(data, 1, m)
             tail == SubSeq(data, m + 1, k)
             v == Written(self, head)
  <2>2. /\ head \in Seq(Byte) /\ Len(head) = m /\ tail \in Seq(Byte) /\ Len(tail) = x
        /\ head \o tail = data
    <3>1. \A i \in 1..k : data[i] \in Byte
      BY <1>1, ElementOfSeq, Zenon
    <3>2. head \in Seq(Byte) /\ Len(head) = m
      <4>1. (\A i \in 1..m : data[i] \in Byte) /\ (IF 1 <= m THEN m - 1 + 1 ELSE 0) = m
        BY <2>1, <3>1
      <4>2. QED
        BY <4>1, SubSeqProperties
    <3>3. tail \in Seq(Byte) /\ Len(tail) = x
      <4>1. /\ \A i \in (m + 1)..k : data[i] \in Byte
            /\ (IF m + 1 <= k THEN k - (m + 1) + 1 ELSE 0) = x
            /\ m + 1 \in Int
        BY <2>1, <3>1
      <4>2. QED
        BY <4>1, SubSeqProperties
    <3>4. head \o tail = SubSeq(data, 1, k)
      <4>1. 1 \in 1..(Len(data) + 1) /\ m \in (1 - 1)..Len(data) /\ k \in m..Len(data)
        <5>1. Len(data) = k /\ k = m + x
          BY <1>1, <2>1
        <5>2. QED
          BY <5>1
      <4>2. QED
        BY <1>1, <4>1, ConcatAdjacentSubSeq
    <3>5. SubSeq(data, 1, k) = data
      BY <1>1, SubSeqFull
    <3>6. QED
      BY <3>2, <3>3, <3>4, <3>5
  <2>3. self' = append(v, tail)
    BY <1>1, <1>3, <2>1 DEF ReadFdStores
  <2>4. head \in Strings(m) /\ tail \in Strings(x)
    BY <2>2, SeqIsString, Zenon
  <2> HIDE DEF head, tail
  <2>5. /\ Valid(v) /\ v.size = self.size /\ v.readerIndex_ = self.readerIndex_
        /\ v.writerIndex_ = self.writerIndex_ + m /\ Content(v) = Content(self) \o head
    <3>1. m <= writableBytes(self)
      BY <2>1
    <3>2. QED
      BY <1>1, <2>4, <3>1, WrittenAppends
  <2> HIDE DEF v
  <2>6. /\ writableBytes(v) = 0 /\ readableBytes(v) = readableBytes(self) + m
        /\ prependableBytes(v) = self.readerIndex_
    <3>1. /\ self.size \in Nat /\ self.writerIndex_ \in Nat /\ self.readerIndex_ \in Nat
          /\ m = self.size - self.writerIndex_
      BY <1>1, <2>1 DEF Valid, writableBytes
    <3>2. QED
      BY <2>5, <3>1 DEF writableBytes, readableBytes, prependableBytes
  <2>7. /\ Valid(self') /\ Content(self') = Content(v) \o tail
        /\ self'.readerIndex_ = IF self.readerIndex_ >= x + kCheapPrepend
                                  THEN kCheapPrepend ELSE self.readerIndex_
        /\ self'.size = self.size \/ self'.size < kCheapPrepend + (readableBytes(self) + m) + 2 * x
    <3>1. (writableBytes(v) < x /\ RoomInside(v, x)) <=> self.readerIndex_ >= x + kCheapPrepend
      <4>1. x \in Nat /\ x > 0 /\ self.readerIndex_ \in Nat /\ kCheapPrepend \in Nat
        BY <1>1, <2>1, SizeAssumption DEF Valid
      <4>2. QED
        BY <2>6, <4>1 DEF RoomInside
    <3>2. QED
      BY <2>3, <2>4, <2>5, <2>6, <3>1, AppendAppends, Zenon
  <2>8. Content(self') = Content(self) \o data
    <3>1. Content(self) \in Seq(Byte) /\ head \in Seq(Byte) /\ tail \in Seq(Byte)
      BY <1>1, <2>2, ContentIsString
    <3>2. (Content(self) \o head) \o tail = Content(self) \o (head \o tail)
      BY <3>1, ConcatAssociative
    <3>3. QED
      BY <2>2, <2>5, <2>7, <3>2
  <2>9. self'.size = self.size \/ self'.size < kCheapPrepend + readableBytes(self) + 2 * k
    <3>1. PICK n \in Nat, s \in Nat : n = readableBytes(self) /\ s = self'.size
      BY <1>1, <2>7, ContentIsString, Zenon DEF Valid
    <3>2. s = self.size \/ s < kCheapPrepend + (n + m) + 2 * x
      BY <2>7, <3>1
    <3>3. s < kCheapPrepend + (n + m) + 2 * x => s < kCheapPrepend + n + 2 * k
      BY <2>1, SizeAssumption
    <3>4. QED
      BY <3>1, <3>2, <3>3
  <2>10. prepended' \in Nat /\ self'.readerIndex_ + prepended' >= kCheapPrepend
    <3>1. prepended' = IF self.readerIndex_ >= x + kCheapPrepend THEN 0 ELSE prepended
      BY <1>1, <2>1
    <3>2. QED
      BY <2>7, <3>1, SizeAssumption DEF BufferInv, PrependRoom
  <2>11. QED
    BY <1>1, <2>7, <2>8, <2>9, <2>10, AskingKeepsIInv, Zenon
<1>4. QED
  BY <1>2, <1>3

(***************************************************************************)
(* The theorems.                                                           *)
(***************************************************************************)

\* What a step does to the content: nothing, or a step of the byte queue.
QueueStep == [Queue!Next]_(Content(self))

\* Data that a call stores is among the byte queue's.
LEMMA StoredData ==
  ASSUME BufferInv, NEW k \in Nat, NEW data \in Strings(k), readableBytes(self) + Len(data) <= MaxReadable
  PROVE  data \in UNION {Strings(n) : n \in 0..MaxReadable}
<1>1. Len(data) = k /\ readableBytes(self) \in Nat
  BY StringIsSeq, ContentIsString DEF BufferInv
<1>2. k \in 0..MaxReadable
  BY <1>1, SizeAssumption
<1>3. QED
  BY <1>2

\* The operations that store bytes are steps of the byte queue.
LEMMA StoresInQueue ==
  ASSUME BufferInv, NEW k \in Nat, NEW data \in Strings(k),
         Append_(data) \/ HasWritten(data) \/ Prepend(data) \/ ReadFd(data)
  PROVE  BufferInv' /\ QueueStep
<1>1. data \in UNION {Strings(n) : n \in 0..MaxReadable}
  BY StoredData DEF Append_, HasWritten, Prepend, ReadFd
<1>2. CASE Append_(data)
  BY <1>1, <1>2, AppendStep DEF QueueStep, Queue!Next, Queue!Append_
<1>3. CASE HasWritten(data)
  BY <1>1, <1>3, HasWrittenStep DEF QueueStep, Queue!Next, Queue!Append_
<1>4. CASE Prepend(data)
  BY <1>1, <1>4, PrependStep DEF QueueStep, Queue!Next, Queue!Prepend
<1>5. CASE ReadFd(data)
  BY <1>1, <1>5, ReadFdStep DEF QueueStep, Queue!Next, Queue!Append_
<1>6. QED
  BY <1>2, <1>3, <1>4, <1>5

\* A new buffer satisfies the inductive invariant.
LEMMA BufferInvInitially == BufferInit => BufferInv
<1> SUFFICES ASSUME BufferInit PROVE BufferInv
  OBVIOUS
<1>1. self = NewBuffer /\ peak = 0 /\ prepended = 0
  BY DEF BufferInit
<1>2. Valid(self) /\ self.size = kCheapPrepend + kInitialSize /\ self.readerIndex_ = kCheapPrepend
  BY <1>1, NewBufferValid
<1>3. QED
  BY <1>1, <1>2, SizeAssumption DEF BufferInv, PrependRoom, SizeBounded, Larger

\* findCRLF() and retrieveUntil() take a prefix of the content that ends with its
\* first kCRLF.
LEMMA RetrieveCRLFStep ==
  ASSUME BufferInv, RetrieveCRLF
  PROVE  \E n \in 2..readableBytes(self) :
            /\ n \in 1..readableBytes(self)
            /\ Retrieve(n)
            /\ \A k \in 2..n : EndsLine(Content(self), k) <=> k = n
<1> DEFINE r == self.readerIndex_
           places == CRLFs(self, r)
<1>1. /\ r \in Nat /\ self.writerIndex_ \in Nat /\ readableBytes(self) = self.writerIndex_ - r
      /\ readableBytes(self) \in Nat
  BY DEF BufferInv, Valid, readableBytes
<1>2. PICK i \in places : First(i, places) /\ Retrieve(i + 2 - r)
  BY DEF RetrieveCRLF
<1>3. /\ i \in r..(self.writerIndex_ - 2) /\ self.bytes[i] = CR /\ self.bytes[i + 1] = LF
      /\ \A j \in r..(self.writerIndex_ - 2) :
           self.bytes[j] = CR /\ self.bytes[j + 1] = LF => i <= j
  BY <1>2 DEF CRLFs, First
<1> HIDE DEF places
<1> DEFINE n == i + 2 - r
<1>4. n \in 2..readableBytes(self) /\ n \in 1..readableBytes(self)
  BY <1>1, <1>3
<1>5. ASSUME NEW k \in 2..n PROVE EndsLine(Content(self), k) <=> k = n
  <2>1. /\ k - 1 \in 1..readableBytes(self) /\ k \in 1..readableBytes(self)
        /\ r + k - 2 \in r..(self.writerIndex_ - 2)
        /\ r + (k - 1) - 1 = r + k - 2 /\ r + k - 1 = (r + k - 2) + 1
    BY <1>1, <1>3, <1>4
  <2>2. Content(self)[k - 1] = self.bytes[r + k - 2] /\ Content(self)[k] = self.bytes[(r + k - 2) + 1]
    BY <2>1 DEF Content
  <2>3. i <= r + k - 2 <=> k = n
    BY <1>1, <1>3
  <2>4. k = n => r + k - 2 = i
    BY <1>1, <1>3
  <2>5. QED
    BY <1>3, <2>1, <2>2, <2>3, <2>4, Zenon DEF EndsLine
<1>6. QED
  BY <1>2, <1>4, <1>5

\* findEOL() and retrieveUntil() take a prefix that ends with its first LF.
LEMMA RetrieveEOLStep ==
  ASSUME BufferInv, RetrieveEOL
  PROVE  \E n \in 1..readableBytes(self) :
            /\ Retrieve(n)
            /\ \A k \in 1..n : Content(self)[k] = LF <=> k = n
<1> DEFINE r == self.readerIndex_
           places == EOLs(self, r)
<1>1. /\ r \in Nat /\ self.writerIndex_ \in Nat /\ readableBytes(self) = self.writerIndex_ - r
      /\ readableBytes(self) \in Nat
  BY DEF BufferInv, Valid, readableBytes
<1>2. PICK i \in places : First(i, places) /\ Retrieve(i + 1 - r)
  BY DEF RetrieveEOL
<1>3. /\ i \in r..(self.writerIndex_ - 1) /\ self.bytes[i] = LF
      /\ \A j \in r..(self.writerIndex_ - 1) : self.bytes[j] = LF => i <= j
  BY <1>2 DEF EOLs, First
<1> HIDE DEF places
<1> DEFINE n == i + 1 - r
<1>4. n \in 1..readableBytes(self)
  BY <1>1, <1>3
<1>5. ASSUME NEW k \in 1..n PROVE Content(self)[k] = LF <=> k = n
  <2>1. k \in 1..readableBytes(self) /\ r + k - 1 \in r..(self.writerIndex_ - 1)
    BY <1>1, <1>3, <1>4
  <2>2. Content(self)[k] = self.bytes[r + k - 1]
    BY <2>1 DEF Content
  <2>3. i <= r + k - 1 <=> k = n
    BY <1>1, <1>3
  <2>4. k = n => r + k - 1 = i
    BY <1>1, <1>3
  <2>5. QED
    BY <1>3, <2>1, <2>2, <2>3, <2>4, Zenon
<1>6. QED
  BY <1>2, <1>4, <1>5

\* Every operation keeps the inductive invariant and is a step of the byte queue.
LEMMA BufferInvKept == BufferInv /\ [BufferNext]_bufferVars => BufferInv' /\ QueueStep
<1> SUFFICES ASSUME BufferInv, [BufferNext]_bufferVars PROVE BufferInv' /\ QueueStep
  OBVIOUS
<1>1. ASSUME NEW data \in Data, Append_(data) \/ HasWritten(data) \/ Prepend(data) \/ ReadFd(data)
      PROVE  BufferInv' /\ QueueStep
  BY <1>1, DataIsString, StoresInQueue
<1>2. ASSUME NEW len \in 0..MaxLen, EnsureWritableBytes(len) \/ Shrink(len)
      PROVE  BufferInv' /\ QueueStep
  <2>1. len \in Nat
    BY SizeAssumption
  <2>2. QED
    BY <1>2, <2>1, EnsureStep, ShrinkStep DEF QueueStep
<1>3. ASSUME NEW len \in 0..MaxReadable, Unwrite(len) \/ Retrieve(len)
      PROVE  BufferInv' /\ QueueStep
  <2>1. len \in Nat
    BY SizeAssumption
  <2>2. CASE Unwrite(len)
    BY <2>1, <2>2, UnwriteStep DEF QueueStep, Queue!Next, Queue!Unwrite
  <2>3. CASE Retrieve(len)
    BY <2>1, <2>3, RetrieveStep DEF QueueStep, Queue!Next, Queue!Retrieve
  <2>4. QED
    BY <1>3, <2>2, <2>3
<1>4. ASSUME NEW w \in Widths, NEW x \in IntOf(w), AppendInt(x, w) \/ PrependInt(x, w)
      PROVE  BufferInv' /\ QueueStep
  BY <1>4, IntIsString, StoresInQueue DEF AppendInt, PrependInt
<1>5. CASE RetrieveCRLF \/ RetrieveEOL
  <2>1. PICK n \in 1..readableBytes(self) : Retrieve(n)
    BY <1>5, RetrieveCRLFStep, RetrieveEOLStep
  <2>2. n \in Nat
    OBVIOUS
  <2>3. QED
    BY <2>1, <2>2, RetrieveStep DEF QueueStep, Queue!Next, Queue!Retrieve
<1>6. CASE UNCHANGED bufferVars
  BY <1>6 DEF bufferVars, BufferInv, Valid, PrependRoom, SizeBounded, QueueStep, Content, readableBytes
<1>7. QED
  BY <1>1, <1>2, <1>3, <1>4, <1>5, <1>6, Zenon DEF BufferNext

\* The inductive invariant holds in every reachable state.
LEMMA BufferInvariance == BufferSpec => []BufferInv
<1>1. BufferInv /\ [BufferNext]_bufferVars => BufferInv'
  BY BufferInvKept
<1>2. QED
  BY BufferInvInitially, <1>1, PTL DEF BufferSpec

\* After any calls the vector and the indices have the types and the order that
\* the unsigned arithmetic of readableBytes() and writableBytes() relies on.
THEOREM IndicesStayOrdered == BufferSpec => [](BufferTypeOK /\ IndicesOrdered)
<1>1. BufferInv => BufferTypeOK /\ IndicesOrdered
  BY DEF BufferInv, Valid, BufferTypeOK, IndicesOrdered
<1>2. QED
  BY BufferInvariance, <1>1, PTL

\* Room for a header of kCheapPrepend bytes is lost only to prepended bytes.
THEOREM PrependRoomKept == BufferSpec => []PrependRoom
<1>1. BufferInv => PrependRoom
  BY DEF BufferInv
<1>2. QED
  BY BufferInvariance, <1>1, PTL

\* The vector stays within twice the largest backlog, whatever passed through it.
THEOREM SizeStaysBounded == BufferSpec => []SizeBounded
<1>1. BufferInv => SizeBounded
  BY DEF BufferInv
<1>2. QED
  BY BufferInvariance, <1>1, PTL

\* The readable bytes are a queue: append(), hasWritten(), readFd(), prepend(),
\* retrieve() and unwrite() do what they do to a queue, and ensureWritableBytes()
\* and shrink() do nothing to it.
THEOREM BufferImplementsByteQueue == BufferSpec => ImplementsByteQueue
<1>1. BufferInit => Queue!Init
  BY EmptyContent DEF BufferInit, Queue!Init
<1>2. BufferInv /\ [BufferNext]_bufferVars => [Queue!Next]_(Content(self))
  BY BufferInvKept DEF QueueStep
<1>3. QED
  BY BufferInvariance, <1>1, <1>2, PTL DEF BufferSpec, ImplementsByteQueue, Queue!Spec

\* Every call acts on the content exactly as its argument says.
THEOREM CallsActExactly == BufferSpec => CallsActOnContent
<1> DEFINE Exact ==
      /\ \A data \in Data :
           /\ (Append_(data) \/ HasWritten(data) \/ ReadFd(data)) => Queue!Append_(data)
           /\ Prepend(data) => Queue!Prepend(data)
      /\ \A len \in 0..MaxReadable :
           /\ Retrieve(len) => Queue!Retrieve(len)
           /\ Unwrite(len) => Queue!Unwrite(len)
      /\ RetrieveCRLF => \E n \in 2..readableBytes(self) :
                           /\ Queue!Retrieve(n)
                           /\ \A k \in 2..n : EndsLine(Content(self), k) <=> k = n
      /\ RetrieveEOL => \E n \in 1..readableBytes(self) :
                          /\ Queue!Retrieve(n)
                          /\ \A k \in 1..n : Content(self)[k] = LF <=> k = n
      /\ \A len \in 0..MaxLen :
           (EnsureWritableBytes(len) \/ Shrink(len)) => UNCHANGED Content(self)
<1>1. BufferInv => Exact
  <2> SUFFICES ASSUME BufferInv PROVE Exact
    OBVIOUS
  <2>1. ASSUME NEW data \in Data
        PROVE  /\ (Append_(data) \/ HasWritten(data) \/ ReadFd(data)) => Queue!Append_(data)
               /\ Prepend(data) => Queue!Prepend(data)
    <3>1. PICK k \in Nat : data \in Strings(k)
      BY DataIsString
    <3>2. QED
      BY <3>1, AppendStep, HasWrittenStep, ReadFdStep, PrependStep, Zenon DEF Queue!Append_, Queue!Prepend
  <2>2. ASSUME NEW len \in 0..MaxReadable
        PROVE  /\ Retrieve(len) => Queue!Retrieve(len)
               /\ Unwrite(len) => Queue!Unwrite(len)
    <3>1. len \in Nat
      BY SizeAssumption
    <3>2. QED
      BY <3>1, RetrieveStep, UnwriteStep DEF Queue!Retrieve, Queue!Unwrite
  <2>3. ASSUME NEW len \in 0..MaxLen, EnsureWritableBytes(len) \/ Shrink(len)
        PROVE  UNCHANGED Content(self)
    <3>1. len \in Nat
      BY SizeAssumption
    <3>2. QED
      BY <2>3, <3>1, EnsureStep, ShrinkStep
  <2>4. ASSUME RetrieveCRLF
        PROVE  \E n \in 2..readableBytes(self) :
                  /\ Queue!Retrieve(n)
                  /\ \A k \in 2..n : EndsLine(Content(self), k) <=> k = n
    <3>1. PICK n \in 2..readableBytes(self) :
            Retrieve(n) /\ \A k \in 2..n : EndsLine(Content(self), k) <=> k = n
      BY <2>4, RetrieveCRLFStep
    <3>2. Queue!Retrieve(n)
      BY <3>1, RetrieveStep DEF Queue!Retrieve
    <3>3. QED
      BY <3>1, <3>2
  <2>5. ASSUME RetrieveEOL
        PROVE  \E n \in 1..readableBytes(self) :
                  /\ Queue!Retrieve(n)
                  /\ \A k \in 1..n : Content(self)[k] = LF <=> k = n
    <3>1. PICK n \in 1..readableBytes(self) :
            Retrieve(n) /\ \A k \in 1..n : Content(self)[k] = LF <=> k = n
      BY <2>5, RetrieveEOLStep
    <3>2. Queue!Retrieve(n)
      BY <3>1, RetrieveStep DEF Queue!Retrieve
    <3>3. QED
      BY <3>1, <3>2
  <2>6. QED
    BY <2>1, <2>2, <2>3, <2>4, <2>5, Zenon
<1>2. BufferInv /\ [BufferNext]_bufferVars => [Exact]_bufferVars
  BY <1>1
<1>3. QED
  BY BufferInvariance, <1>2, PTL DEF BufferSpec, CallsActOnContent

\* makeSpace() passes its assertion: it moves data to the front only when the data
\* starts behind kCheapPrepend.
THEOREM MakeSpaceAsserts == BufferSpec => []MakeSpaceAssertion
<1>1. BufferInv => MakeSpaceAssertion
  <2> SUFFICES ASSUME BufferInv, NEW len \in 0..MaxLen, MovesFor(len)
               PROVE  kCheapPrepend < self.readerIndex_
    BY DEF MakeSpaceAssertion
  <2>1. len \in Nat /\ kCheapPrepend \in Nat /\ self.readerIndex_ \in Nat /\ writableBytes(self) \in Int
    BY SizeAssumption DEF BufferInv, Valid, writableBytes
  <2>2. /\ writableBytes(self) < len
        /\ writableBytes(self) + self.readerIndex_ >= len + kCheapPrepend
    BY DEF MovesFor, RoomInside, prependableBytes
  <2>3. QED
    BY <2>1, <2>2
<1>2. QED
  BY BufferInvariance, <1>1, PTL

------------------------------------------------------------------------------
(***************************************************************************)
(* BoundedBlockingQueue, for any number of producers and consumers and any *)
(* capacity.                                                               *)
(***************************************************************************)

(***************************************************************************)
(* Counting woken threads of one kind.                                     *)
(***************************************************************************)

\* The woken threads of a finite set are finitely many.
LEMMA WokenFinite ==
  ASSUME NEW S, NEW T, IsFiniteSet(T)
  PROVE  IsFiniteSet(S \cap T) /\ Cardinality(S \cap T) \in Nat
<1>1. IsFiniteSet(S \cap T)  BY FS_Subset
<1> QED  BY <1>1, FS_CardinalityType

\* One thread of the set is woken: there is one more.
LEMMA OneMoreWoken ==
  ASSUME NEW S, NEW T, IsFiniteSet(T), NEW u \in T, u \notin S
  PROVE  Cardinality((S \cup {u}) \cap T) = Cardinality(S \cap T) + 1
<1>1. IsFiniteSet(S \cap T)  BY FS_Subset
<1>2. (S \cup {u}) \cap T = (S \cap T) \cup {u}  OBVIOUS
<1>3. u \notin S \cap T  OBVIOUS
<1> QED  BY <1>1, <1>2, <1>3, FS_AddElement

\* One thread goes on: there is at most one woken thread fewer.
LEMMA OneLessWoken ==
  ASSUME NEW S, NEW T, IsFiniteSet(T), NEW u
  PROVE  Cardinality((S \ {u}) \cap T) >= Cardinality(S \cap T) - 1
<1>1. IsFiniteSet(S \cap T) /\ Cardinality(S \cap T) \in Nat  BY WokenFinite
<1>2. (S \ {u}) \cap T = (S \cap T) \ {u}  OBVIOUS
<1>3. CASE u \in S \cap T
  <2>1. Cardinality((S \cap T) \ {u}) = Cardinality(S \cap T) - 1
    BY <1>1, <1>3, FS_RemoveElement, Zenon
  <2> QED  BY <2>1, <1>1, <1>2
<1>4. CASE u \notin S \cap T
  <2>1. (S \ {u}) \cap T = S \cap T  BY <1>4
  <2> QED  BY <2>1, <1>1
<1> QED  BY <1>3, <1>4

\* Waking a thread never leaves fewer woken ones.
LEMMA NoFewerWoken ==
  ASSUME NEW S, NEW T, IsFiniteSet(T), NEW u
  PROVE  Cardinality((S \cup {u}) \cap T) >= Cardinality(S \cap T)
<1>1. IsFiniteSet((S \cup {u}) \cap T)  BY FS_Subset
<1>2. S \cap T \subseteq (S \cup {u}) \cap T  OBVIOUS
<1> QED  BY <1>1, <1>2, FS_Subset, FS_CardinalityType

(***************************************************************************)
(* The inductive invariant.                                                *)
(***************************************************************************)

\* FirstInFirstOut, place by place.
Numbered ==
  /\ Len(taken) + Len(queue_) = count
  /\ \A i \in 1..Len(taken) : taken[i] = i
  /\ \A i \in 1..Len(queue_) : queue_[i] = Len(taken) + i
  /\ maxSize > 0 => Len(queue_) <= maxSize

\* Elements numbered as they were put come out first in, first out.
LEMMA NumberedInOrder == QueueTypeOK /\ Numbered => FirstInFirstOut
<1> SUFFICES ASSUME QueueTypeOK, Numbered PROVE FirstInFirstOut
  OBVIOUS
<1> DEFINE all == taken \o queue_
<1>0. taken \in Seq(Nat) /\ queue_ \in Seq(Nat) /\ count \in Nat
  BY DEF QueueTypeOK
<1>1. all \in Seq(Nat) /\ Len(all) = count
  BY <1>0 DEF Numbered
<1>2. ASSUME NEW i \in 1..count PROVE all[i] = i
  <2>1. Len(taken) \in Nat /\ Len(queue_) \in Nat
    BY <1>0
  <2>2. CASE i <= Len(taken)
    BY <1>0, <2>1, <2>2 DEF Numbered
  <2>3. CASE i > Len(taken)
    <3>1. i - Len(taken) \in 1..Len(queue_)
      BY <2>1, <2>3 DEF Numbered
    <3>2. all[i] = queue_[i - Len(taken)]
      BY <1>0, <2>1, <2>3, <3>1
    <3> QED  BY <2>1, <3>1, <3>2 DEF Numbered
  <2>4. i <= Len(taken) \/ i > Len(taken)
    BY <1>0, <2>1
  <2> QED  BY <2>2, <2>3, <2>4, Zenon
<1>3. all = [i \in 1..count |-> all[i]]
  <2> HIDE DEF all
  <2>1. all \in [1..Len(all) -> Nat]  BY <1>1
  <2> QED  BY <1>1, <2>1
<1>4. all = [i \in 1..count |-> i]
  <2> HIDE DEF all
  <2> QED  BY <1>2, <1>3
<1> QED  BY <1>4 DEF FirstInFirstOut, Numbered

\* put() and take() keep the types.
LEMMA QueueTypes == QueueSpec => []QueueTypeOK
<1>1. QueueInit => QueueTypeOK
  BY DEF QueueInit, QueueTypeOK
<1>2. QueueTypeOK /\ [QueueNext]_blockingVars => QueueTypeOK'
  <2> SUFFICES ASSUME QueueTypeOK, [QueueNext]_blockingVars PROVE QueueTypeOK'
    OBVIOUS
  <2> USE QueueAssumption DEF QueueTypeOK
  <2>1. ASSUME NEW p \in Producers, PutWait(p) PROVE QueueTypeOK'
    BY <2>1 DEF PutWait
  <2>2. ASSUME NEW p \in Producers, Put(p) PROVE QueueTypeOK'
    BY <2>2 DEF Put, Notified
  <2>3. ASSUME NEW c \in Consumers, TakeWait(c) PROVE QueueTypeOK'
    BY <2>3 DEF TakeWait
  <2>4. ASSUME NEW c \in Consumers, Take(c) PROVE QueueTypeOK'
    BY <2>4 DEF Take, Notified, empty
  <2>5. ASSUME NEW t \in Producers \cup Consumers, SpuriousWakeup(t) PROVE QueueTypeOK'
    BY <2>5 DEF SpuriousWakeup
  <2>6. CASE UNCHANGED blockingVars
    BY <2>6 DEF blockingVars
  <2> QED  BY <2>1, <2>2, <2>3, <2>4, <2>5, <2>6, Zenon DEF QueueNext
<1> QED  BY <1>1, <1>2, PTL DEF QueueSpec

\* Items leave a blocking queue in the order put() added them, none lost or
\* doubled, and the queue never holds more than its capacity.
THEOREM QueueIsFifo == QueueSpec => []FirstInFirstOut
<1>1. QueueInit => Numbered
  BY QueueAssumption DEF QueueInit, Numbered
<1>2. QueueTypeOK /\ Numbered /\ [QueueNext]_blockingVars => Numbered'
  <2> SUFFICES ASSUME QueueTypeOK, Numbered, [QueueNext]_blockingVars PROVE Numbered'
    OBVIOUS
  <2> USE QueueAssumption DEF QueueTypeOK
  <2>1. ASSUME NEW p \in Producers, Put(p) PROVE Numbered'
    <3>1. queue_' = Append(queue_, count + 1) /\ count' = count + 1 /\ taken' = taken
      BY <2>1 DEF Put
    <3>2. Len(queue_') = Len(queue_) + 1
      BY <3>1
    <3>3. ASSUME NEW i \in 1..Len(queue_') PROVE queue_'[i] = Len(taken') + i
      <4>1. CASE i = Len(queue_) + 1
        BY <3>1, <4>1 DEF Numbered
      <4>2. CASE i \in 1..Len(queue_)
        BY <3>1, <4>2 DEF Numbered
      <4> QED  BY <3>2, <4>1, <4>2
    <3>4. maxSize > 0 => Len(queue_') <= maxSize
      BY <3>2, <2>1 DEF Put, full
    <3> QED  BY <3>1, <3>2, <3>3, <3>4 DEF Numbered
  <2>2. ASSUME NEW c \in Consumers, Take(c) PROVE Numbered'
    <3>1. /\ queue_ # <<>> /\ queue_' = Tail(queue_)
          /\ taken' = Append(taken, Head(queue_)) /\ count' = count
      BY <2>2 DEF Take, empty
    <3>2. Len(queue_) >= 1 /\ Head(queue_) = queue_[1]
      BY <3>1
    <3>3. Len(queue_') = Len(queue_) - 1 /\ Len(taken') = Len(taken) + 1
      BY <3>1, <3>2
    <3>4. Head(queue_) = Len(taken) + 1
      BY <3>2 DEF Numbered
    <3>5. \A i \in 1..Len(taken') : taken'[i] = i
      BY <3>1, <3>3, <3>4 DEF Numbered
    <3>6. ASSUME NEW i \in 1..Len(queue_') PROVE queue_'[i] = Len(taken') + i
      <4>1. queue_'[i] = queue_[i + 1] /\ i + 1 \in 1..Len(queue_)
        BY <3>1, <3>2, <3>3, <3>6
      <4> QED  BY <4>1, <3>3 DEF Numbered
    <3>7. Len(taken') + Len(queue_') = count'
      <4>1. Len(taken) \in Nat /\ Len(queue_) \in Nat /\ Len(taken) + Len(queue_) = count
        BY DEF Numbered
      <4>2. count' = count
        BY <3>1
      <4>3. ASSUME NEW a \in Nat, NEW b \in Nat PROVE (a + 1) + (b - 1) = a + b
        OBVIOUS
      <4> QED  BY <4>1, <4>2, <4>3, <3>3, Zenon
    <3>8. maxSize > 0 => Len(queue_') <= maxSize
      <4>1. Len(queue_) \in Nat /\ (maxSize > 0 => Len(queue_) <= maxSize)
        BY DEF Numbered
      <4> QED  BY <4>1, <3>3
    <3> QED  BY <3>5, <3>6, <3>7, <3>8, Zenon DEF Numbered
  <2>3. ASSUME UNCHANGED <<queue_, count, taken>> PROVE Numbered'
    BY <2>3 DEF Numbered
  <2> QED
    BY <2>1, <2>2, <2>3 DEF QueueNext, PutWait, TakeWait, SpuriousWakeup, blockingVars
<1> QED  BY <1>1, <1>2, QueueTypes, NumberedInOrder, PTL DEF QueueSpec

\* One notify() per put() reaches enough consumers: while one waits, as many
\* others as there are items are on their way to take them.
THEOREM NoItemWaitsForConsumer == QueueSpec => []NoConsumerForgotten
<1>1. QueueInit => NoConsumerForgotten
  BY DEF QueueInit, NoConsumerForgotten
<1>2. QueueTypeOK /\ NoConsumerForgotten /\ [QueueNext]_blockingVars => NoConsumerForgotten'
  <2> SUFFICES ASSUME QueueTypeOK, NoConsumerForgotten, [QueueNext]_blockingVars, onNotEmpty' # {}
               PROVE  Len(queue_') <= Cardinality(woken' \cap Consumers)
    BY DEF NoConsumerForgotten
  <2> DEFINE n == Cardinality(woken \cap Consumers)
  <2>0. IsFiniteSet(Consumers) /\ Producers \cap Consumers = {}
    BY QueueAssumption
  <2>1. n \in Nat /\ Cardinality(woken' \cap Consumers) \in Nat
    BY <2>0, WokenFinite, Zenon
  <2>2. Len(queue_) \in Nat /\ (onNotEmpty # {} => Len(queue_) <= n)
    BY DEF QueueTypeOK, NoConsumerForgotten
  <2>3. ASSUME NEW p \in Producers, PutWait(p)
        PROVE  Len(queue_') <= Cardinality(woken' \cap Consumers)
    <3>1. woken' \cap Consumers = woken \cap Consumers /\ queue_' = queue_ /\ onNotEmpty' = onNotEmpty
      BY <2>0, <2>3 DEF PutWait
    <3> QED  BY <3>1, <2>2, Zenon
  <2>4. ASSUME NEW p \in Producers, Put(p)
        PROVE  Len(queue_') <= Cardinality(woken' \cap Consumers)
    <3>1. onNotEmpty # {}
      BY <2>4 DEF Put, Notified
    <3>2. PICK u \in onNotEmpty : woken' = (woken \ {p}) \cup {u}
      BY <3>1, <2>4 DEF Put, Notified
    <3>3. u \in Consumers /\ u \notin woken
      BY DEF QueueTypeOK
    <3>4. woken' \cap Consumers = (woken \cup {u}) \cap Consumers
      BY <3>2, <2>0
    <3>5. Cardinality(woken' \cap Consumers) = n + 1
      BY <3>3, <3>4, <2>0, OneMoreWoken, Zenon
    <3>6. Len(queue_') = Len(queue_) + 1
      BY <2>4 DEF Put, QueueTypeOK
    <3> QED  BY <3>1, <3>5, <3>6, <2>1, <2>2
  <2>5. ASSUME NEW c \in Consumers, TakeWait(c)
        PROVE  Len(queue_') <= Cardinality(woken' \cap Consumers)
    BY <2>1, <2>5 DEF TakeWait, empty
  <2>6. ASSUME NEW c \in Consumers, Take(c)
        PROVE  Len(queue_') <= Cardinality(woken' \cap Consumers)
    <3>1. woken' \cap Consumers = (woken \ {c}) \cap Consumers
      BY <2>6, <2>0 DEF Take, Notified, QueueTypeOK
    <3>2. Cardinality(woken' \cap Consumers) >= n - 1
      BY <3>1, <2>0, OneLessWoken, Zenon
    <3>3. Len(queue_') = Len(queue_) - 1 /\ onNotEmpty' = onNotEmpty
      BY <2>6 DEF Take, empty, QueueTypeOK
    <3> QED  BY <3>2, <3>3, <2>1, <2>2
  <2>7. ASSUME NEW t \in Producers \cup Consumers, SpuriousWakeup(t)
        PROVE  Len(queue_') <= Cardinality(woken' \cap Consumers)
    <3>1. woken' = woken \cup {t} /\ onNotEmpty # {} /\ queue_' = queue_
      BY <2>7 DEF SpuriousWakeup
    <3>2. Cardinality(woken' \cap Consumers) >= n
      BY <3>1, <2>0, NoFewerWoken, Zenon
    <3> QED  BY <3>1, <3>2, <2>1, <2>2
  <2>8. CASE UNCHANGED blockingVars
    BY <2>2, <2>8, Zenon DEF blockingVars
  <2> QED  BY <2>3, <2>4, <2>5, <2>6, <2>7, <2>8, Zenon DEF QueueNext
<1> QED  BY <1>1, <1>2, QueueTypes, PTL DEF QueueSpec

\* One notify() per take() reaches enough producers: while one waits, as many
\* others as there are free places are on their way to fill them.
THEOREM NoPlaceWaitsForProducer == QueueSpec => []NoProducerForgotten
<1>1. QueueInit => NoProducerForgotten
  BY DEF QueueInit, NoProducerForgotten
<1>2. QueueTypeOK /\ NoProducerForgotten /\ [QueueNext]_blockingVars => NoProducerForgotten'
  <2> SUFFICES ASSUME QueueTypeOK, NoProducerForgotten, [QueueNext]_blockingVars, onNotFull' # {}
               PROVE  maxSize - Len(queue_') <= Cardinality(woken' \cap Producers)
    BY DEF NoProducerForgotten
  <2> DEFINE n == Cardinality(woken \cap Producers)
  <2>0. IsFiniteSet(Producers) /\ Producers \cap Consumers = {} /\ maxSize \in Nat
    BY QueueAssumption
  <2>1. n \in Nat /\ Cardinality(woken' \cap Producers) \in Nat
    BY <2>0, WokenFinite
  <2>2. Len(queue_) \in Nat /\ (onNotFull # {} => maxSize - Len(queue_) <= n)
    BY DEF QueueTypeOK, NoProducerForgotten
  <2>3. ASSUME NEW p \in Producers, PutWait(p)
        PROVE  maxSize - Len(queue_') <= Cardinality(woken' \cap Producers)
    <3>1. queue_' = queue_ /\ Len(queue_) >= maxSize
      BY <2>3 DEF PutWait, full
    <3> QED  BY <3>1, <2>0, <2>1, <2>2
  <2>4. ASSUME NEW p \in Producers, Put(p)
        PROVE  maxSize - Len(queue_') <= Cardinality(woken' \cap Producers)
    <3>1. woken' \cap Producers = (woken \ {p}) \cap Producers
      BY <2>4, <2>0 DEF Put, Notified, QueueTypeOK
    <3>2. Cardinality(woken' \cap Producers) >= n - 1
      BY <3>1, <2>0, OneLessWoken, Zenon
    <3>3. Len(queue_') = Len(queue_) + 1 /\ onNotFull' = onNotFull
      BY <2>4 DEF Put, QueueTypeOK
    <3> QED  BY <3>2, <3>3, <2>0, <2>1, <2>2
  <2>5. ASSUME NEW c \in Consumers, TakeWait(c)
        PROVE  maxSize - Len(queue_') <= Cardinality(woken' \cap Producers)
    <3>1. woken' \cap Producers = woken \cap Producers /\ queue_' = queue_ /\ onNotFull' = onNotFull
      BY <2>0, <2>5 DEF TakeWait
    <3> QED  BY <3>1, <2>2, Zenon
  <2>6. ASSUME NEW c \in Consumers, Take(c)
        PROVE  maxSize - Len(queue_') <= Cardinality(woken' \cap Producers)
    <3>1. onNotFull # {}
      BY <2>6 DEF Take, Notified
    <3>2. PICK u \in onNotFull : woken' = (woken \ {c}) \cup {u}
      BY <3>1, <2>6 DEF Take, Notified
    <3>3. u \in Producers /\ u \notin woken
      BY DEF QueueTypeOK
    <3>4. woken' \cap Producers = (woken \cup {u}) \cap Producers
      BY <3>2, <2>0
    <3>5. Cardinality(woken' \cap Producers) = n + 1
      BY <3>3, <3>4, <2>0, OneMoreWoken
    <3>6. Len(queue_') = Len(queue_) - 1
      BY <2>6 DEF Take, empty, QueueTypeOK
    <3> QED  BY <3>1, <3>5, <3>6, <2>0, <2>1, <2>2
  <2>7. ASSUME NEW t \in Producers \cup Consumers, SpuriousWakeup(t)
        PROVE  maxSize - Len(queue_') <= Cardinality(woken' \cap Producers)
    <3>1. woken' = woken \cup {t} /\ onNotFull # {} /\ queue_' = queue_
      BY <2>7 DEF SpuriousWakeup
    <3>2. Cardinality(woken' \cap Producers) >= n
      BY <3>1, <2>0, NoFewerWoken, Zenon
    <3> QED  BY <3>1, <3>2, <2>0, <2>1, <2>2
  <2>8. CASE UNCHANGED blockingVars
    BY <2>2, <2>8 DEF blockingVars
  <2> QED  BY <2>3, <2>4, <2>5, <2>6, <2>7, <2>8, Zenon DEF QueueNext
<1> QED  BY <1>1, <1>2, QueueTypes, PTL DEF QueueSpec

\* Neither condition variable forgets a thread: the two theorems above together.
THEOREM NoWaiterIsForgotten == QueueSpec => []NoWaiterForgotten
BY NoItemWaitsForConsumer, NoPlaceWaitsForProducer, PTL DEF NoWaiterForgotten

------------------------------------------------------------------------------
(***************************************************************************)
(* DancingLinks: why cover() and uncover() of net/sudoku/sudoku.cc may edit*)
(* the matrix in place, for rings over any nodes.                          *)
(***************************************************************************)

\* A ring that Unlink or Relink returns is a ring over the same nodes.
LEMMA RingsClosed ==
  ASSUME NEW Nodes, NEW ring \in Rings(Nodes), NEW x \in Nodes
  PROVE  Unlink(ring, x) \in Rings(Nodes) /\ Relink(ring, x) \in Rings(Nodes)
BY Zenon DEF Rings, Unlink, Relink

\* put_left() and put_up(): a ring stays a ring when a node that is alone is put into
\* it, so the constructor's matrix consists of rings.
THEOREM PutBeforeLinks ==
  ASSUME NEW Nodes, NEW ring \in Rings(Nodes), \A x \in Nodes : Linked(ring, x),
         NEW old \in Nodes, NEW nnew \in Nodes, old # nnew,
         ring.next[nnew] = nnew, ring.prev[nnew] = nnew
  PROVE  /\ PutBefore(ring, old, nnew) \in Rings(Nodes)
         /\ \A x \in Nodes : Linked(PutBefore(ring, old, nnew), x)
BY DEF Rings, Linked, PutBefore

\* cover(): taking a node out leaves every other node of the rings linked.
THEOREM UnlinkKeepsOthers ==
  ASSUME NEW Nodes, NEW ring \in Rings(Nodes), NEW x \in Nodes, NEW y \in Nodes,
         x # y, Linked(ring, x), Linked(ring, y)
  PROVE  Linked(Unlink(ring, x), y)
BY DEF Rings, Linked, Unlink

\* uncover(): a node that was linked is put back where it was by its own links.
THEOREM RelinkUndoesUnlink ==
  ASSUME NEW Nodes, NEW ring \in Rings(Nodes), NEW x \in Nodes, Linked(ring, x)
  PROVE  Relink(Unlink(ring, x), x) = ring
BY Zenon DEF Rings, Linked, Unlink, Relink

\* solve(): nodes that come back in the reverse of the order in which they were taken
\* out leave the rings as they were.
THEOREM LastOutFirstIn ==
  ASSUME NEW Nodes, NEW ring \in Rings(Nodes), NEW x \in Nodes, NEW y \in Nodes,
         x # y, Linked(ring, x), Linked(ring, y)
  PROVE  Relink(Relink(Unlink(Unlink(ring, x), y), y), x) = ring
<1>1. Unlink(ring, x) \in Rings(Nodes)
  BY RingsClosed
<1>2. Linked(Unlink(ring, x), y)
  BY UnlinkKeepsOthers
<1>3. Relink(Unlink(Unlink(ring, x), y), y) = Unlink(ring, x)
  BY <1>1, <1>2, RelinkUndoesUnlink
<1>. QED
  BY <1>3, RelinkUndoesUnlink

==============================================================================
