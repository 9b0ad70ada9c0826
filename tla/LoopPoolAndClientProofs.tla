----------------------- MODULE LoopPoolAndClientProofs ----------------------
(***************************************************************************)
(* Proofs about the pool of loop threads and about TcpClient.              *)
(***************************************************************************)
EXTENDS EventLoopThreadPool, TcpClient, FiniteSetTheorems, TLAPS

\* The time that the provers may take for a step.
USE SMTT(20), ZenonT(20)


(***************************************************************************)
(* The pool of loop threads, for any number of threads: the pointers to the*)
(* loops on the threads' stacks are read only while the loops live, and no *)
(* loop outlives the pool.                                                 *)
(***************************************************************************)

Starting == {"create", "latch", "lock", "wait", "return"}
Destroying == {"dtor", "quit", "wakeup", "join"}

\* loop_ points to the EventLoop; the thread has set loop_; and cleared it again.
Live == {"enter", "loop", "left"}
Published == {"enter", "loop", "left", "exit", "finished"}
Over == {"exit", "finished"}

\* Type correctness, with the thread that the owner is at.
Types ==
  /\ LoopPoolTypeOK
  /\ owner \in Starting \cup Destroying => current \in Threads
  /\ owner = "started" => current = 1

\* The pool has a loop for each thread before the current one, or all.
LoopsCounted ==
  /\ Len(loops_) = IF owner \in Starting THEN current - 1 ELSE numThreads_
  /\ next_ = 0 \/ next_ < Len(loops_)

\* How far a thread is by where the owner is.
ThreadAt(i) ==
  /\ loop_[i] <=> io[i] \in Live
  /\ io[i] \in {"none", "created"} => latch_[i] = 1
  /\ owner \in Starting /\ i > current => io[i] = "none"
  /\ owner = "create" /\ i = current => io[i] = "none"
  /\ owner \in Starting /\ i < current => io[i] \in Published
  /\ owner = "return" /\ i = current => io[i] \in Published
  /\ owner \notin Starting => io[i] \in Published
  /\ owner \in Destroying /\ i < current => io[i] \in Over
  /\ owner = "gone" => io[i] \in Over

ThreadsAt == \A i \in Threads : ThreadAt(i)

PoolSound == Types /\ LoopsCounted /\ ThreadsAt

\* A loop that is to end, or has ended, was told to; and startLoop() misses no other.
EndsIfTold ==
  /\ \A i \in Threads : quit_[i] \/ quitQueued[i] \/ io[i] \in {"left", "exit", "finished"} => i \in told
  /\ \A k \in 1..Len(loops_) : loops_[k] = k \/ (loops_[k] = 0 /\ k \in told)

\* The invariant holds before start().
LEMMA InitSound == LoopPoolInit => PoolSound
<1> SUFFICES ASSUME LoopPoolInit PROVE PoolSound
  OBVIOUS
<1>1. Types
  BY NumThreadsAssumption DEF LoopPoolInit, Types, LoopPoolTypeOK, OwnerPC, ThreadPC, Threads, Starting, Destroying
<1>2. LoopsCounted
  BY NumThreadsAssumption DEF LoopPoolInit, LoopsCounted, Starting
<1>3. ThreadsAt
  BY NumThreadsAssumption DEF LoopPoolInit, ThreadsAt, ThreadAt, Starting, Live, Published, Threads, Destroying
<1> QED  BY <1>1, <1>2, <1>3 DEF PoolSound

\* Each step keeps the types.
LEMMA TypesKept ==
  ASSUME PoolSound, LoopPoolNext
  PROVE  Types'
<1> USE NumThreadsAssumption DEF PoolSound, Types, LoopPoolTypeOK, OwnerPC, ThreadPC, Starting, Destroying, Threads
<1>1. CASE StartThread
  BY <1>1 DEF StartThread, poolVars
<1>2. CASE StartFails \/ LatchOpens \/ TestLoop \/ StartWakesSpuriously
  BY <1>2, Zenon DEF StartFails, LatchOpens, TestLoop, StartWakesSpuriously, threadVars, poolVars
<1>3. CASE ReturnLoop
  BY <1>3 DEF ReturnLoop, threadVars
<1>4. CASE GetNextLoop
  <2>1. loops_ # <<>> => next_ + 1 \in 1..Len(loops_)
    BY DEF LoopsCounted
  <2>2. turns' \in Seq(0..numThreads_)
    <3>1. PICK l \in 0..numThreads_ : turns' = Append(turns, l)
      <4>1. loops_ # <<>> => loops_[next_ + 1] \in 0..numThreads_
        BY <2>1
      <4> QED  BY <1>4, <4>1 DEF GetNextLoop
    <3> QED  BY <3>1
  <2>3. next_' \in 0..numThreads_
    BY <1>4, <2>1 DEF GetNextLoop, NextAfter, LoopsCounted
  <2> QED  BY <1>4, <2>2, <2>3, Zenon DEF GetNextLoop, threadVars
<1>5. CASE DestroyPool
  BY <1>5 DEF DestroyPool, threadVars, poolVars
<1>6. CASE DtorTestsLoop
  BY <1>6 DEF DtorTestsLoop, NextThread, threadVars, poolVars
<1>7. CASE DtorQuits
  BY <1>7, Zenon DEF DtorQuits, threadVars
<1>17. CASE DtorWakes
  BY <1>17, Zenon DEF DtorWakes, threadVars, poolVars
<1>8. CASE DtorJoins
  <2>1. joined_' \in [Threads -> BOOLEAN]
    BY <1>8 DEF DtorJoins
  <2>2. owner' \in {"gone", "dtor"} /\ current' \in Threads
    BY <1>8 DEF DtorJoins, NextThread
  <2> QED  BY <1>8, <2>1, <2>2, Zenon DEF DtorJoins, poolVars
<1>9. ASSUME NEW i \in Threads, UserQuits(i) PROVE Types'
  BY <1>9, Zenon DEF UserQuits, threadVars
<1>10. ASSUME NEW i \in Threads, CountDown(i) PROVE Types'
  <2>1. latch_[i] = 1
    BY <1>10, Zenon DEF CountDown, ThreadsAt, ThreadAt
  <2>2. latch_' \in [Threads -> 0..1] /\ io' \in [Threads -> ThreadPC]
    BY <1>10, <2>1 DEF CountDown
  <2> QED  BY <1>10, <2>2, Zenon DEF CountDown, poolVars
<1>11. ASSUME NEW i \in Threads, InitCallback(i) PROVE Types'
  <2>1. quitQueued' \in [Threads -> BOOLEAN]
    <3>1. PICK q \in BOOLEAN : quitQueued' = [quitQueued EXCEPT ![i] = q]
      BY <1>11, Zenon DEF InitCallback
    <3> QED  BY <3>1
  <2>3. told' \subseteq Threads
    BY <1>11, Zenon DEF InitCallback
  <2>2. io' \in [Threads -> ThreadPC]
    BY <1>11, Zenon DEF InitCallback
  <2> QED  BY <1>11, <2>1, <2>2, <2>3, Zenon DEF InitCallback, threadVars
<1>12. ASSUME NEW i \in Threads, Publish(i) PROVE Types'
  <2>1. loop_' \in [Threads -> BOOLEAN] /\ io' \in [Threads -> ThreadPC]
    BY <1>12, Zenon DEF Publish
  <2>2. owner' = owner \/ (owner = "wait" /\ owner' = "lock")
    BY <1>12, Zenon DEF Publish
  <2> QED  BY <1>12, <2>1, <2>2, Zenon DEF Publish, threadVars, poolVars
<1>13. ASSUME NEW i \in Threads, EnterLoop(i) PROVE Types'
  BY <1>13, Zenon DEF EnterLoop, threadVars, poolVars
<1>14. ASSUME NEW i \in Threads, RunQuit(i) PROVE Types'
  BY <1>14 DEF RunQuit, threadVars, poolVars
<1>15. ASSUME NEW i \in Threads, LeaveLoop(i) \/ Finish(i) PROVE Types'
  BY <1>15, Zenon DEF LeaveLoop, Finish, threadVars, poolVars
<1>16. ASSUME NEW i \in Threads, ClearLoop(i) PROVE Types'
  BY <1>16 DEF ClearLoop, threadVars, poolVars
<1> HIDE DEF Types
<1> QED
  BY <1>1, <1>2, <1>3, <1>4, <1>5, <1>6, <1>7, <1>8, <1>9, <1>10, <1>11, <1>12, <1>13, <1>14, <1>15, <1>16, <1>17, Zenon
     DEF LoopPoolNext, Start, Destruct, Thread

\* Each step keeps the count of the loops, and next_ within it.
LEMMA CountKept ==
  ASSUME PoolSound, LoopPoolNext
  PROVE  LoopsCounted'
<1> USE NumThreadsAssumption DEF PoolSound, LoopsCounted, Types, LoopPoolTypeOK, Starting, Destroying, Threads
<1>1. CASE StartThread \/ StartFails \/ LatchOpens \/ TestLoop \/ StartWakesSpuriously
  BY <1>1, Zenon DEF StartThread, StartFails, LatchOpens, TestLoop, StartWakesSpuriously, poolVars
<1>2. CASE ReturnLoop
  BY <1>2 DEF ReturnLoop
<1>3. CASE GetNextLoop
  BY <1>3 DEF GetNextLoop, NextAfter
<1>4. CASE DestroyPool
  BY <1>4, Zenon DEF DestroyPool, poolVars
<1>5. CASE Destruct
  BY <1>5, Zenon DEF Destruct, DtorTestsLoop, DtorQuits, DtorWakes, DtorJoins, NextThread, poolVars
<1>6. ASSUME NEW i \in Threads, UserQuits(i) PROVE LoopsCounted'
  BY <1>6 DEF UserQuits, poolVars
<1>7. ASSUME NEW i \in Threads, Thread(i) PROVE LoopsCounted'
  <2>1. UNCHANGED <<loops_, next_, current>>
    BY <1>7, Zenon DEF Thread, CountDown, InitCallback, Publish, EnterLoop, RunQuit, LeaveLoop, ClearLoop, Finish,
       poolVars
  <2>2. owner' = owner \/ (owner = "wait" /\ owner' = "lock")
    BY <1>7, Zenon DEF Thread, CountDown, InitCallback, Publish, EnterLoop, RunQuit, LeaveLoop, ClearLoop, Finish
  <2> QED  BY <2>1, <2>2
<1> HIDE DEF LoopsCounted
<1> QED
  BY <1>1, <1>2, <1>3, <1>4, <1>5, <1>6, <1>7, Zenon DEF LoopPoolNext, Start

\* Each step keeps a thread where the owner takes it to be: start() leaves only
\* threads behind that have published their loop, and ~EventLoopThread() only
\* threads that have ended it.
LEMMA ThreadKept ==
  ASSUME PoolSound, LoopPoolNext, NEW j \in Threads
  PROVE  ThreadAt(j)'
<1> USE NumThreadsAssumption DEF Types, LoopPoolTypeOK, ThreadPC, Starting, Destroying, Threads, Live, Published, Over
<1>0. Types /\ ThreadAt(j)
  BY DEF PoolSound, ThreadsAt
<1> USE <1>0 DEF ThreadAt
<1>1. CASE StartThread
  BY <1>1, Zenon DEF StartThread
<1>2. CASE StartFails \/ LatchOpens \/ StartWakesSpuriously
  BY <1>2, Zenon DEF StartFails, LatchOpens, StartWakesSpuriously, threadVars
<1>3. CASE TestLoop
  BY <1>3, Zenon DEF TestLoop, threadVars
<1>4. CASE ReturnLoop
  BY <1>4 DEF ReturnLoop, threadVars
<1>5. CASE GetNextLoop
  BY <1>5, Zenon DEF GetNextLoop, threadVars
<1>6. CASE DestroyPool
  BY <1>6 DEF DestroyPool, threadVars
<1>7. CASE DtorTestsLoop
  BY <1>7 DEF DtorTestsLoop, NextThread, threadVars
<1>8. CASE DtorQuits \/ DtorWakes
  BY <1>8, Zenon DEF DtorQuits, DtorWakes, threadVars
<1>9. CASE DtorJoins
  BY <1>9 DEF DtorJoins, NextThread
<1>10. ASSUME NEW i \in Threads, UserQuits(i) PROVE ThreadAt(j)'
  BY <1>10, Zenon DEF UserQuits, threadVars
<1>11. ASSUME NEW i \in Threads, CountDown(i) PROVE ThreadAt(j)'
  BY <1>11, Zenon DEF CountDown
<1>12. ASSUME NEW i \in Threads, InitCallback(i) PROVE ThreadAt(j)'
  BY <1>12, Zenon DEF InitCallback, threadVars
<1>13. ASSUME NEW i \in Threads, Publish(i) PROVE ThreadAt(j)'
  BY <1>13, Zenon DEF Publish, threadVars
<1>14. ASSUME NEW i \in Threads, EnterLoop(i) PROVE ThreadAt(j)'
  BY <1>14, Zenon DEF EnterLoop, threadVars
<1>15. ASSUME NEW i \in Threads, RunQuit(i) PROVE ThreadAt(j)'
  BY <1>15, Zenon DEF RunQuit, threadVars
<1>16. ASSUME NEW i \in Threads, LeaveLoop(i) PROVE ThreadAt(j)'
  BY <1>16, Zenon DEF LeaveLoop, threadVars
<1>17. ASSUME NEW i \in Threads, ClearLoop(i) PROVE ThreadAt(j)'
  BY <1>17, Zenon DEF ClearLoop, threadVars
<1>18. ASSUME NEW i \in Threads, Finish(i) PROVE ThreadAt(j)'
  BY <1>18, Zenon DEF Finish, threadVars
<1> HIDE DEF ThreadAt
<1> QED
  BY <1>1, <1>2, <1>3, <1>4, <1>5, <1>6, <1>7, <1>8, <1>9, <1>10, <1>11, <1>12, <1>13, <1>14, <1>15, <1>16,
     <1>17, <1>18
     DEF LoopPoolNext, Start, Destruct, Thread

\* The pool of loop threads keeps its invariant, for any number of threads.
THEOREM PoolIsSound == LoopPoolSpec => []PoolSound
<1>1. PoolSound /\ [LoopPoolNext]_loopPoolVars => PoolSound'
  <2> SUFFICES ASSUME PoolSound, [LoopPoolNext]_loopPoolVars PROVE PoolSound'
    OBVIOUS
  <2>1. CASE LoopPoolNext
    <3>1. Threads' = Threads
      BY DEF Threads
    <3>2. ThreadsAt'
      BY <2>1, <3>1, ThreadKept DEF ThreadsAt
    <3> QED  BY <2>1, <3>2, TypesKept, CountKept DEF PoolSound
  <2>2. CASE UNCHANGED loopPoolVars
    BY <2>2, Zenon DEF loopPoolVars, threadVars, poolVars, PoolSound, Types, LoopPoolTypeOK, LoopsCounted,
       ThreadsAt, ThreadAt, Threads
  <2> QED  BY <2>1, <2>2
<1> QED  BY <1>1, InitSound, PTL DEF LoopPoolSpec

\* EventLoopThread::loop_ points to a live EventLoop or is NULL, whenever a thread
\* ends its loop.
THEOREM LoopPointersAreLive == LoopPoolSpec => []LoopPointerLive
<1>1. PoolSound => LoopPointerLive
  BY Zenon DEF PoolSound, ThreadsAt, ThreadAt, LoopPointerLive, Live
<1> QED  BY <1>1, PoolIsSound, PTL

\* When ~EventLoopThreadPool() is through no thread is in its loop, the detached
\* ones included.
THEOREM NoLoopIsLeft == LoopPoolSpec => []NoLoopOutlivesPool
<1>1. PoolSound => NoLoopOutlivesPool
  BY Zenon DEF PoolSound, ThreadsAt, ThreadAt, NoLoopOutlivesPool, Over
<1> QED  BY <1>1, PoolIsSound, PTL

\* No loop ends that was not told to.
LEMMA EndsIfToldKept ==
  ASSUME PoolSound, EndsIfTold, LoopPoolNext
  PROVE  EndsIfTold'
<1> USE NumThreadsAssumption DEF Types, LoopPoolTypeOK, ThreadPC, Starting, Threads
<1>0. Types /\ LoopsCounted /\ ThreadsAt
  BY Zenon DEF PoolSound
<1> USE <1>0 DEF EndsIfTold
<1>1. CASE StartThread
  BY <1>1 DEF StartThread, poolVars
<1>2. CASE StartFails \/ LatchOpens \/ TestLoop \/ StartWakesSpuriously
  BY <1>2, Zenon DEF StartFails, LatchOpens, TestLoop, StartWakesSpuriously, poolVars
<1>3. CASE ReturnLoop
  <2>1. current \in Threads /\ Len(loops_) = current - 1
    BY <1>3, Zenon DEF ReturnLoop, LoopsCounted
  <2>2. loop_[current] \/ current \in told
    BY <1>3, <2>1, Zenon DEF ReturnLoop, ThreadsAt, ThreadAt, Published, Live
  <2>3. CASE loop_[current]
    <3>1. loops_' = Append(loops_, current)
      BY <1>3, <2>3, Zenon DEF ReturnLoop
    <3>2. \A k \in 1..Len(loops_') : loops_'[k] = k \/ (loops_'[k] = 0 /\ k \in told)
      BY <2>1, <3>1
    <3> QED  BY <1>3, <3>2, Zenon DEF ReturnLoop
  <2>4. CASE ~loop_[current]
    <3>1. loops_' = Append(loops_, 0)
      BY <1>3, <2>4, Zenon DEF ReturnLoop
    <3>2. \A k \in 1..Len(loops_') : loops_'[k] = k \/ (loops_'[k] = 0 /\ k \in told)
      BY <2>1, <2>2, <2>4, <3>1
    <3> QED  BY <1>3, <3>2, Zenon DEF ReturnLoop
  <2> QED  BY <2>3, <2>4
<1>4. CASE GetNextLoop \/ DestroyPool \/ DtorTestsLoop \/ DtorWakes \/ DtorJoins
  <2>1. UNCHANGED <<io, quit_, quitQueued, loops_, told>>
    BY <1>4, Zenon DEF GetNextLoop, DestroyPool, DtorTestsLoop, DtorWakes, DtorJoins, poolVars
  <2> QED  BY <2>1, Zenon
<1>5. CASE DtorQuits
  BY <1>5, Zenon DEF DtorQuits
<1>6. ASSUME NEW i \in Threads, UserQuits(i) PROVE EndsIfTold'
  BY <1>6, Zenon DEF UserQuits
<1>7. ASSUME NEW i \in Threads, CountDown(i) PROVE EndsIfTold'
  BY <1>7 DEF CountDown, poolVars
<1>8. ASSUME NEW i \in Threads, InitCallback(i) PROVE EndsIfTold'
  <2>1. told \subseteq told' /\ (quitQueued'[i] => i \in told')
    BY <1>8, Zenon DEF InitCallback
  <2>2. \A j \in Threads \ {i} : quitQueued'[j] = quitQueued[j]
    BY <1>8, Zenon DEF InitCallback
  <2> QED  BY <1>8, <2>1, <2>2, Zenon DEF InitCallback
<1>9. ASSUME NEW i \in Threads, Publish(i) PROVE EndsIfTold'
  BY <1>9, Zenon DEF Publish, poolVars
<1>10. ASSUME NEW i \in Threads, EnterLoop(i) PROVE EndsIfTold'
  BY <1>10, Zenon DEF EnterLoop, poolVars
<1>11. ASSUME NEW i \in Threads, RunQuit(i) PROVE EndsIfTold'
  BY <1>11, Zenon DEF RunQuit, poolVars
<1>12. ASSUME NEW i \in Threads, LeaveLoop(i) \/ ClearLoop(i) \/ Finish(i) PROVE EndsIfTold'
  BY <1>12, Zenon DEF LeaveLoop, ClearLoop, Finish, poolVars
<1> HIDE DEF EndsIfTold
<1> QED
  BY <1>1, <1>2, <1>3, <1>4, <1>5, <1>6, <1>7, <1>8, <1>9, <1>10, <1>11, <1>12, Zenon
     DEF LoopPoolNext, Start, Destruct, Thread

\* Whatever the init callbacks and the users do, a pointer in the pool is NULL or to a
\* loop that has ended only if quit() was called on that loop, and the loop_ of a thread
\* is NULL or to a live one.
THEOREM PointersAreToLoops == LoopPoolSpec => []PointersToLoops
<1>1. LoopPoolInit => EndsIfTold
  BY NumThreadsAssumption DEF LoopPoolInit, EndsIfTold
<1>2. PoolSound /\ EndsIfTold /\ [LoopPoolNext]_loopPoolVars => EndsIfTold'
  <2> SUFFICES ASSUME PoolSound, EndsIfTold, [LoopPoolNext]_loopPoolVars PROVE EndsIfTold'
    OBVIOUS
  <2>1. CASE UNCHANGED loopPoolVars
    BY <2>1 DEF loopPoolVars, poolVars, EndsIfTold, Threads
  <2> QED  BY <2>1, EndsIfToldKept
<1>3. PoolSound /\ EndsIfTold /\ LoopPointerLive => PointersToLoops
  <2> SUFFICES ASSUME PoolSound, EndsIfTold, LoopPointerLive, NEW k \in 1..Len(loops_)
               PROVE  \/ loops_[k] = k /\ io[k] \in {"enter", "loop"}
                      \/ loops_[k] \in {0, k} /\ k \in told
    BY Zenon DEF PointersToLoops
  <2>1. k \in Threads /\ (owner \in Starting => k < current)
    BY NumThreadsAssumption DEF PoolSound, Types, LoopPoolTypeOK, LoopsCounted, Threads, Starting, Destroying
  <2>2. io[k] \in Published
    BY <2>1, Zenon DEF PoolSound, ThreadsAt, ThreadAt
  <2> QED  BY <2>1, <2>2, Zenon DEF EndsIfTold, Published
<1> QED  BY <1>1, <1>2, <1>3, PoolIsSound, LoopPointersAreLive, PTL DEF LoopPoolSpec

(***************************************************************************)
(* TcpClient, for any delays, any calls of the users and any number of     *)
(* calls of connect(): no socket leaks, a client that is to connect is     *)
(* never without an attempt, no attempt is made after stop() or outlives   *)
(* the client; and, for a program that calls connect() once and runs the   *)
(* functors of the Connector in time, no assertion fails, no functor runs  *)
(* on a Connector that is gone, and there is one attempt at a time.        *)
(***************************************************************************)

\* fn occurs at most once in s.
Single(s, fn) ==
  \A i, j \in 1..Len(s) : s[i] = fn /\ s[j] = fn => i = j

Queued(fn) == Contains(pending, fn) \/ Contains(batch, fn)

QueuedOnce(fn) ==
  /\ Single(pending, fn) /\ Single(batch, fn)
  /\ ~(Contains(pending, fn) /\ Contains(batch, fn))

\* The loop runs functors only in doPendingFunctors(), and events before it.
LoopInv ==
  /\ phase # "functors" => batch = <<>>
  /\ ready # {} => phase = "events"

\* The attempt in progress has the channel, which resetChannel() takes away once.
AttemptInv ==
  /\ state_ = "kConnecting" <=> channel_ = "on"
  /\ Running => (channel_ = "off" <=> Queued("resetChannel"))
  /\ QueuedOnce("resetChannel")
  /\ "attempt" \in ready => channel_ = "on"
  /\ "timer" \in ready => timers > 0

\* A connection is up, and the one before it waits for its connectDestroyed(); the
\* connection that is up is the client's, if the client lives.
ConnectionInv ==
  /\ conns = (IF up THEN 1 ELSE 0) + (IF Queued("connectDestroyed") THEN 1 ELSE 0)
  /\ QueuedOnce("connectDestroyed")
  /\ up => state_ = "kConnected"
  /\ connection_ <=> client /\ up
  /\ up /\ Contains(pending, "connectDestroyed") => phase = "events"
  /\ "down" \in ready => up /\ ~Queued("connectDestroyed")
  /\ restarting => state_ = "kConnected" /\ client /\ ~up

\* What stop() and the destructor leave behind.
StopInv ==
  /\ stopped = "yes" => ~connect_ /\ ~clientConnect_ /\ ~restarting
  /\ "yes" \notin late
  /\ ~client => thread = "idle" /\ (~connect_ \/ state_ = "kConnected")
  /\ ~client /\ state_ = "kConnecting" => Queued("stopInLoop")
  /\ keeper => ~client

\* NeverForgotten, on the two queues one by one.
Remembered ==
  connects > 0 /\ connect_ /\ ~gaveUp /\ state_ = "kDisconnected" =>
    timers > 0 \/ thread = "start" \/ Queued("startInLoop")

\* The inductive invariant.
ClientInv ==
  TypeOK /\ LoopInv /\ AttemptInv /\ ConnectionInv /\ StopInv /\ SocketsAccounted /\ Remembered

\* The program calls connect() once and runs the functors of the Connector before
\* ~TcpClient with a connection and before a timer is due.
ConnectsOnce ==
  MaxConnects <= 1 /\ ~SlowLoop /\ (EarlyDestroy => "destroy" \notin LoopOps)

\* startInLoop() of connect() is still to run, or connect() to be called.
Unstarted == connects = 0 \/ thread = "start" \/ Queued("startInLoop")

\* The start comes once, to a Connector at rest.
StartInv ==
  /\ QueuedOnce("startInLoop")
  /\ thread = "start" => ~Queued("startInLoop")
  /\ connects = 0 => thread # "start" /\ ~Queued("startInLoop")
  /\ Unstarted => state_ = "kDisconnected" /\ channel_ = "none" /\ timers = 0

\* Whoever may start an attempt finds no channel.
ChannelInv ==
  /\ {"timer", "down"} \cap ready # {} \/ restarting => channel_ = "none"
  /\ state_ = "kConnected" /\ channel_ = "off" =>
       \/ phase = "events" /\ Contains(pending, "resetChannel")
       \/ phase = "functors" /\ Contains(batch, "resetChannel")

\* No functor of the Connector is queued.
Quiet == \A fn \in {"startInLoop", "stopInLoop", "resetChannel"} : ~Queued(fn)

\* Functors of the Connector are queued only while the client or its timer holds it.
HeldInv ==
  /\ ~client /\ ~keeper => Quiet
  /\ "keeper" \in ready => ~client /\ Quiet

\* The inductive invariant of such a program, and all of it but HeldInv.
SoundOnce == ClientInv /\ NoAssertFails /\ SingleAttempt /\ StartInv /\ ChannelInv
OnceInv == SoundOnce /\ HeldInv

LEMMA ClientStutters ==
  ASSUME ClientInv, UNCHANGED vars
  PROVE  ClientInv'
  BY DEF vars, connectorVars, clientVars, loopVars, historyVars, ClientInv, TypeOK, LoopInv, AttemptInv,
     ConnectionInv, StopInv, SocketsAccounted, Remembered, Queued, QueuedOnce, Running

(***************************************************************************)
(* Queues of functors.                                                     *)
(***************************************************************************)

LEMMA EmptyQueue ==
  ASSUME NEW fn
  PROVE  ~Contains(<<>>, fn) /\ Single(<<>>, fn)
BY DEF Contains, Single

LEMMA AppendQueue ==
  ASSUME NEW s \in Seq(Functors), NEW g \in Functors, NEW fn
  PROVE  /\ Append(s, g) \in Seq(Functors)
         /\ Contains(Append(s, g), fn) <=> Contains(s, fn) \/ fn = g
         /\ Single(s, fn) /\ (fn = g => ~Contains(s, fn)) => Single(Append(s, g), fn)
<1>1. /\ Len(Append(s, g)) = Len(s) + 1 /\ Append(s, g)[Len(s) + 1] = g
      /\ \A i \in 1..Len(s) : Append(s, g)[i] = s[i]
  OBVIOUS
<1>2. Len(s) \in Nat
  OBVIOUS
<1>3. Contains(Append(s, g), fn) <=> Contains(s, fn) \/ fn = g
  BY <1>1, <1>2 DEF Contains
<1>4. Single(s, fn) /\ (fn = g => ~Contains(s, fn)) => Single(Append(s, g), fn)
  BY <1>1, <1>2 DEF Contains, Single
<1> QED
  BY <1>3, <1>4

LEMMA TailQueue ==
  ASSUME NEW s \in Seq(Functors), s # <<>>, NEW fn
  PROVE  /\ Tail(s) \in Seq(Functors)
         /\ Contains(s, Head(s))
         /\ Contains(Tail(s), fn) => Contains(s, fn)
         /\ Contains(s, fn) /\ fn # Head(s) => Contains(Tail(s), fn)
         /\ Single(s, fn) => Single(Tail(s), fn)
         /\ Single(s, fn) /\ fn = Head(s) => ~Contains(Tail(s), fn)
<1>1. /\ Len(s) \in Nat \ {0} /\ Head(s) = s[1] /\ Len(Tail(s)) = Len(s) - 1
      /\ \A i \in 1..(Len(s) - 1) : Tail(s)[i] = s[i + 1]
  OBVIOUS
<1>2. Contains(s, Head(s))
  BY <1>1 DEF Contains
<1>3. Contains(Tail(s), fn) => Contains(s, fn)
  BY <1>1 DEF Contains
<1>4. Contains(s, fn) /\ fn # Head(s) => Contains(Tail(s), fn)
  <2> SUFFICES ASSUME NEW i \in 1..Len(s), s[i] = fn, fn # s[1]
               PROVE  Contains(Tail(s), fn)
    BY <1>1 DEF Contains
  <2>1. i - 1 \in 1..(Len(s) - 1)
    BY <1>1
  <2>2. Tail(s)[i - 1] = fn
    BY <1>1, <2>1
  <2> QED
    BY <1>1, <2>1, <2>2 DEF Contains
<1>5. Single(s, fn) => Single(Tail(s), fn)
  BY <1>1 DEF Single
<1>6. Single(s, fn) /\ fn = Head(s) => ~Contains(Tail(s), fn)
  BY <1>1 DEF Single, Contains
<1> QED
  BY <1>2, <1>3, <1>4, <1>5, <1>6

LEMMA ConcatQueue ==
  ASSUME NEW s \in Seq(Functors), NEW t \in Seq(Functors), NEW fn
  PROVE  Contains(s \o t, fn) <=> Contains(s, fn) \/ Contains(t, fn)
<1>1. /\ Len(s) \in Nat /\ Len(t) \in Nat /\ Len(s \o t) = Len(s) + Len(t)
      /\ \A i \in 1..Len(s) : (s \o t)[i] = s[i]
      /\ \A i \in 1..Len(t) : (s \o t)[Len(s) + i] = t[i]
  OBVIOUS
<1>2. Contains(s, fn) => Contains(s \o t, fn)
  BY <1>1 DEF Contains
<1>3. Contains(t, fn) => Contains(s \o t, fn)
  <2> SUFFICES ASSUME NEW i \in 1..Len(t), t[i] = fn
               PROVE  Contains(s \o t, fn)
    BY DEF Contains
  <2>1. Len(s) + i \in 1..Len(s \o t) /\ (s \o t)[Len(s) + i] = fn
    BY <1>1
  <2> QED
    BY <2>1 DEF Contains
<1>4. Contains(s \o t, fn) => Contains(s, fn) \/ Contains(t, fn)
  <2> SUFFICES ASSUME NEW i \in 1..Len(s \o t), (s \o t)[i] = fn, ~(i \in 1..Len(s))
               PROVE  Contains(t, fn)
    BY <1>1 DEF Contains
  <2>1. i - Len(s) \in 1..Len(t) /\ t[i - Len(s)] = fn
    BY <1>1
  <2> QED
    BY <2>1 DEF Contains
<1> QED
  BY <1>2, <1>3, <1>4


\* What connect() leaves behind on a Connector without attempt, k timers being set
\* before it and stop being known of stop().
Attempted(on, k, stop) ==
  /\ state_' \in {"kDisconnected", "kConnecting"} /\ channel_' \in {channel_, "on"}
  /\ retryDelayMs_' \in kInitRetryDelayMs..kMaxRetryDelayMs
  /\ timers' \in {k, k + 1}
  /\ gaveUp' \in BOOLEAN
  /\ late' = late \cup ({stop} \ {"no"})
  /\ state_' = "kConnecting" <=> channel_' = "on"
  /\ fds' = fds + (IF channel_' = "on" THEN 1 ELSE 0)
  /\ failed' \in {failed, "connecting", "dtor"}
  /\ channel_' = "on" /\ channel_ # "none" => failed' = "connecting"
  /\ channel_ = "none" /\ (client \/ keeper) => failed' = failed
  /\ state_' = "kConnecting" => timers' = k
  /\ on /\ ~gaveUp' /\ state_' = "kDisconnected" => timers' = k + 1

LEMMA ConnectDoes ==
  ASSUME TypeOK, NEW on \in BOOLEAN, NEW d \in kInitRetryDelayMs..kMaxRetryDelayMs, NEW k \in Nat,
         NEW stop, connect(on, d, k, stop), channel_ # "on"
  PROVE  Attempted(on, k, stop)
<1> USE DEF Attempted, Released, HeldWith
<1>1. /\ Backoff(d) \in kInitRetryDelayMs..kMaxRetryDelayMs
      /\ late' = late \cup ({stop} \ {"no"})
  BY ClientAssumption DEF Backoff, connect
<1>2. CASE /\ failed' = IF channel_ = "none" THEN Released("on", k) ELSE "connecting"
           /\ state_' = "kConnecting" /\ channel_' = "on" /\ fds' = fds + 1
           /\ retryDelayMs_' = d /\ timers' = k /\ gaveUp' = FALSE
  <2>1. gaveUp' \in BOOLEAN
    BY <1>2, Zenon
  <2> QED
    BY <1>1, <1>2, <2>1
<1>3. CASE /\ retry(on, fds + 1, d, k) /\ gaveUp' = FALSE
           /\ failed' = Released(channel_, timers') /\ UNCHANGED channel_
  <2>1. gaveUp' \in BOOLEAN
    BY <1>3, Zenon
  <2> QED
    BY <1>1, <1>3, <2>1 DEF TypeOK, retry
<1>4. CASE /\ state_' = "kDisconnected" /\ gaveUp' = TRUE /\ failed' = Released(channel_, k)
           /\ retryDelayMs_' = d /\ timers' = k /\ UNCHANGED <<channel_, fds>>
  <2>1. gaveUp' \in BOOLEAN
    BY <1>4, Zenon
  <2> QED
    BY <1>1, <1>4, <2>1 DEF TypeOK
<1> QED
  BY <1>2, <1>3, <1>4, Zenon DEF connect

\* A failed assertion leaves everything else as it is.
LEMMA AbortInv ==
  ASSUME ClientInv, NEW a \in {"startInLoop", "dtor", "freed", "connection"}, Abort(a)
  PROVE  ClientInv'
BY DEF Abort, ClientInv, TypeOK, LoopInv, AttemptInv, ConnectionInv, StopInv, SocketsAccounted, Remembered,
   Queued, QueuedOnce, Running, connectorVars, clientVars, loopVars, historyVars

LEMMA TimerFiresInv ==
  ASSUME ClientInv, TimerFires
  PROVE  ClientInv'
<1>1. CASE state_ # "kDisconnected"
  BY <1>1, AbortInv DEF TimerFires
<1>2. CASE state_ = "kDisconnected" /\ ~connect_
  <2>1. /\ InLoop /\ "timer" \in ready /\ timers' = timers - 1 /\ ready' = ready \ {"timer"}
        /\ failed' = Released(channel_, timers - 1)
        /\ UNCHANGED <<connect_, state_, channel_, retryDelayMs_, gaveUp, keeper, clientVars, fds>>
        /\ UNCHANGED <<phase, restarting, pending, batch, thread, connects, stopped, late>>
    BY <1>2, Zenon DEF TimerFires, Starts
  <2>0. failed' \in {failed, "dtor"}
    BY <2>1 DEF Released
  <2> USE <1>2, <2>1 DEF ClientInv, InLoop, Running, clientVars
  <2>2. TypeOK'
    BY <2>0 DEF TypeOK, AttemptInv
  <2>3. LoopInv' /\ AttemptInv'
    BY <2>0 DEF LoopInv, AttemptInv, Queued, QueuedOnce
  <2>4. ConnectionInv' /\ StopInv'
    BY DEF ConnectionInv, StopInv, Queued, QueuedOnce
  <2>5. SocketsAccounted' /\ Remembered'
    BY DEF SocketsAccounted, Remembered
  <2> QED
    BY <2>2, <2>3, <2>4, <2>5
<1>3. CASE state_ = "kDisconnected" /\ connect_
  <2>1. /\ InLoop /\ "timer" \in ready /\ ready' = ready \ {"timer"}
        /\ connect(connect_, retryDelayMs_, timers - 1, stopped)
        /\ UNCHANGED <<connect_, keeper, clientVars>>
        /\ UNCHANGED <<phase, restarting, pending, batch, thread, connects, stopped>>
    BY <1>3, Zenon DEF TimerFires, Starts
  <2> USE <1>3, <2>1 DEF ClientInv, InLoop, Running, clientVars
  <2>2. /\ timers - 1 \in Nat /\ channel_ # "on"
        /\ connect_ \in BOOLEAN /\ retryDelayMs_ \in kInitRetryDelayMs..kMaxRetryDelayMs
    BY DEF TypeOK, AttemptInv
  <2>3. Attempted(connect_, timers - 1, stopped)
    BY <2>2, ConnectDoes, Zenon
  <2>4. TypeOK'
    BY <2>2, <2>3 DEF TypeOK, Attempted
  <2>5. LoopInv' /\ AttemptInv'
    BY <2>2, <2>3 DEF LoopInv, AttemptInv, Queued, QueuedOnce, Attempted
  <2>6. ConnectionInv' /\ StopInv'
    <3>1. client /\ ~up /\ stopped # "yes"
      BY DEF ConnectionInv, StopInv
    <3>2. ConnectionInv'
      BY <2>2, <3>1 DEF ConnectionInv, Queued, QueuedOnce
    <3>3. "yes" \notin late'
      BY <2>3, <3>1 DEF StopInv, Attempted
    <3> QED
      BY <2>2, <3>1, <3>2, <3>3 DEF StopInv
  <2>7. SocketsAccounted'
    BY <2>2, <2>3 DEF TypeOK, SocketsAccounted, Attempted
  <2>8. Remembered'
    BY <2>2, <2>3 DEF Remembered, Attempted
  <2> QED
    BY <2>4, <2>5, <2>6, <2>7, <2>8
<1> QED
  BY <1>1, <1>2, <1>3

LEMMA KeeperFiresInv ==
  ASSUME ClientInv, KeeperFires
  PROVE  ClientInv'
<1> USE DEF ClientInv, InLoop, Running, clientVars, historyVars
<1>1. /\ ready' = ready \ {"keeper"} /\ keeper' = FALSE /\ failed' \in {"none", "dtor"} /\ failed = "none"
      /\ UNCHANGED <<connect_, state_, retryDelayMs_, channel_, timers, gaveUp, clientVars, fds, phase, restarting>>
      /\ UNCHANGED <<pending, batch, thread, connects, historyVars>>
  BY DEF KeeperFires
<1>2. TypeOK'
  <2>1. keeper' \in BOOLEAN
    BY <1>1, Zenon
  <2> QED
    BY <1>1, <2>1 DEF TypeOK
<1>3. LoopInv' /\ AttemptInv'
  BY <1>1 DEF LoopInv, AttemptInv, Queued, QueuedOnce
<1>4. ConnectionInv' /\ StopInv'
  BY <1>1 DEF ConnectionInv, StopInv, Queued, QueuedOnce
<1>5. SocketsAccounted' /\ Remembered'
  BY <1>1 DEF SocketsAccounted, Remembered, Queued
<1> QED
  BY <1>2, <1>3, <1>4, <1>5

\* A functor is queued.
LEMMA Pushes ==
  ASSUME TypeOK, NEW g \in Functors, pending' = Append(pending, g)
  PROVE  /\ pending' \in Seq(Functors)
         /\ \A fn : Contains(pending', fn) <=> Contains(pending, fn) \/ fn = g
         /\ \A fn : Single(pending, fn) /\ (fn = g => ~Contains(pending, fn)) => Single(pending', fn)
<1>1. pending \in Seq(Functors)
  BY DEF TypeOK
<1> QED
  BY <1>1, AppendQueue, Zenon

\* The functor fn is taken from the batch.
LEMMA Pops ==
  ASSUME TypeOK, NEW g, NextFunctor(g), batch' = Tail(batch)
  PROVE  /\ batch' \in Seq(Functors)
         /\ Contains(batch, g) /\ (Single(batch, g) => ~Contains(batch', g))
         /\ \A fn : Contains(batch', fn) => Contains(batch, fn)
         /\ \A fn : Contains(batch, fn) /\ fn # g => Contains(batch', fn)
         /\ \A fn : Single(batch, fn) => Single(batch', fn)
<1>1. batch \in Seq(Functors) /\ batch # <<>> /\ Head(batch) = g
  BY DEF TypeOK, NextFunctor
<1> QED
  BY <1>1, TailQueue, Zenon

LEMMA DisconnectInv ==
  ASSUME ClientInv, Disconnect
  PROVE  ClientInv'
<1> USE DEF ClientInv, InLoop, Running, connectorVars, clientVars, loopVars, historyVars
<1>1. TypeOK
  OBVIOUS
<1>2. TypeOK'
  <2>1. clientConnect_' \in BOOLEAN
    BY Zenon DEF Disconnect
  <2> QED
    BY <1>1, <2>1 DEF TypeOK, Disconnect
<1>3. LoopInv'
  BY <1>1 DEF LoopInv, Disconnect
<1>4. AttemptInv'
  BY <1>1 DEF AttemptInv, Queued, QueuedOnce, Disconnect
<1>5. ConnectionInv'
  BY <1>1 DEF ConnectionInv, Queued, QueuedOnce, Disconnect
<1>6. StopInv'
  BY <1>1 DEF StopInv, Queued, Disconnect
<1>7. SocketsAccounted'
  BY <1>1 DEF SocketsAccounted, Disconnect
<1>8. Remembered'
  BY <1>1 DEF Remembered, Queued, Disconnect
<1> QED
  BY <1>2, <1>3, <1>4, <1>5, <1>6, <1>7, <1>8

LEMMA PollInv ==
  ASSUME ClientInv, Poll
  PROVE  ClientInv'
<1> USE DEF ClientInv, InLoop, Running, connectorVars, clientVars, loopVars, historyVars
<1>1. TypeOK
  OBVIOUS
<1>0. /\ "attempt" \in ready' => channel_ = "on"
      /\ "timer" \in ready' => timers > 0
      /\ "down" \in ready' => up
      /\ ready' \subseteq {"timer", "keeper", "attempt", "down"}
      /\ batch = <<>> /\ (up => ~Contains(pending, "connectDestroyed"))
  BY DEF Poll, LoopInv, ConnectionInv
<1>2. TypeOK'
  BY <1>0, <1>1 DEF TypeOK, Poll
<1>3. LoopInv'
  BY <1>1 DEF LoopInv, Poll
<1>4. AttemptInv'
  BY <1>0, EmptyQueue DEF AttemptInv, ConnectionInv, Queued, QueuedOnce, Poll
<1>5. ConnectionInv'
  BY <1>0, EmptyQueue DEF ConnectionInv, Queued, QueuedOnce, Poll
<1>6. StopInv'
  BY <1>1 DEF StopInv, Queued, Poll
<1>7. SocketsAccounted'
  BY <1>1 DEF SocketsAccounted, Poll
<1>8. Remembered'
  BY <1>1 DEF Remembered, Queued, Poll
<1> QED
  BY <1>2, <1>3, <1>4, <1>5, <1>6, <1>7, <1>8

LEMMA FunctorsDoneInv ==
  ASSUME ClientInv, FunctorsDone
  PROVE  ClientInv'
<1> USE DEF ClientInv, InLoop, Running, connectorVars, clientVars, loopVars, historyVars
<1>1. TypeOK
  OBVIOUS
<1>2. TypeOK'
  BY <1>1 DEF TypeOK, FunctorsDone
<1>3. LoopInv'
  BY <1>1 DEF LoopInv, FunctorsDone
<1>4. AttemptInv'
  BY <1>1 DEF AttemptInv, Queued, QueuedOnce, FunctorsDone
<1>5. ConnectionInv'
  BY <1>1 DEF ConnectionInv, Queued, QueuedOnce, FunctorsDone
<1>6. StopInv'
  BY <1>1 DEF StopInv, Queued, FunctorsDone
<1>7. SocketsAccounted'
  BY <1>1 DEF SocketsAccounted, FunctorsDone
<1>8. Remembered'
  BY <1>1 DEF Remembered, Queued, FunctorsDone
<1> QED
  BY <1>2, <1>3, <1>4, <1>5, <1>6, <1>7, <1>8

LEMMA ConnectionDownInv ==
  ASSUME ClientInv, ConnectionDown
  PROVE  ClientInv'
<1> USE DEF ClientInv, InLoop, Running, connectorVars, clientVars, loopVars, historyVars
<1>1. TypeOK /\ up /\ (client <=> connection_) /\ failed = "none"
  BY DEF ConnectionDown, ConnectionInv
<1>2. /\ ready' = ready \ {"down"} /\ up' = FALSE /\ connection_' = FALSE
      /\ pending' = Append(pending, "connectDestroyed")
      /\ restarting' = (client /\ retry_ /\ clientConnect_)
      /\ UNCHANGED <<connectorVars, clientConnect_, client, conns, fds, phase, batch, thread, connects>>
      /\ UNCHANGED <<historyVars, failed>>
  BY <1>1, Zenon DEF ConnectionDown
<1>3. /\ pending' \in Seq(Functors)
      /\ \A fn : Contains(pending', fn) <=> Contains(pending, fn) \/ fn = "connectDestroyed"
      /\ \A fn : Single(pending, fn) /\ (fn = "connectDestroyed" => ~Contains(pending, fn)) => Single(pending', fn)
  BY <1>2, Pushes DEF Functors
<1>4. TypeOK'
  <2>1. connection_' \in BOOLEAN /\ restarting' \in BOOLEAN /\ up' \in BOOLEAN
    BY <1>2, Zenon
  <2> QED
    BY <1>1, <1>2, <1>3, <2>1 DEF TypeOK
<1>5. LoopInv' /\ AttemptInv'
  BY <1>2, <1>3 DEF LoopInv, AttemptInv, Queued, QueuedOnce
<1>6. ~Queued("connectDestroyed")
  BY <1>1 DEF ConnectionDown, Closes, ConnectionInv, Queued
<1>7. ConnectionInv'
  <2>1. conns = 1 /\ state_ = "kConnected" /\ QueuedOnce("connectDestroyed")
    BY <1>1, <1>6 DEF ConnectionInv
  <2>2. QueuedOnce("connectDestroyed")' /\ Queued("connectDestroyed")'
    BY <1>2, <1>3, <1>6, <2>1 DEF Queued, QueuedOnce
  <2>3. ~up' /\ ~connection_' /\ "down" \notin ready' /\ conns' = 1 /\ state_' = "kConnected"
    BY <1>2, <2>1
  <2>4. restarting' => client'
    BY <1>2, Zenon
  <2> QED
    BY <2>2, <2>3, <2>4 DEF ConnectionInv
<1>8. StopInv'
  BY <1>2, <1>3, Zenon DEF StopInv, Queued
<1>9. SocketsAccounted' /\ Remembered'
  BY <1>2, <1>3 DEF SocketsAccounted, Remembered, Queued
<1> QED
  BY <1>4, <1>5, <1>7, <1>8, <1>9

LEMMA LoopStopInv ==
  ASSUME ClientInv, LoopStop
  PROVE  ClientInv'
<1> USE DEF ClientInv, InLoop, Running, connectorVars, clientVars, loopVars, historyVars
<1>1. TypeOK
  OBVIOUS
<1>2. /\ pending' \in Seq(Functors)
      /\ \A fn : Contains(pending', fn) <=> Contains(pending, fn) \/ fn = "stopInLoop"
      /\ \A fn : Single(pending, fn) /\ (fn = "stopInLoop" => ~Contains(pending, fn)) => Single(pending', fn)
  BY Pushes DEF LoopStop, Functors
<1>3. TypeOK'
  <2>1. connect_' \in BOOLEAN /\ clientConnect_' \in BOOLEAN
    BY Zenon DEF LoopStop
  <2> QED
    BY <1>1, <1>2, <2>1 DEF TypeOK, LoopStop
<1>4. LoopInv'
  BY <1>1, <1>2 DEF LoopInv, LoopStop
<1>5. AttemptInv'
  BY <1>1, <1>2 DEF AttemptInv, Queued, QueuedOnce, LoopStop
<1>6. ConnectionInv'
  BY <1>1, <1>2 DEF ConnectionInv, Queued, QueuedOnce, LoopStop
<1>7. StopInv'
  BY <1>1, <1>2 DEF StopInv, Queued, LoopStop
<1>8. SocketsAccounted'
  BY <1>1, <1>2 DEF SocketsAccounted, LoopStop
<1>9. Remembered'
  BY <1>1, <1>2 DEF Remembered, LoopStop
<1> QED
  BY <1>3, <1>4, <1>5, <1>6, <1>7, <1>8, <1>9

LEMMA AttemptFailsInv ==
  ASSUME ClientInv, AttemptFails
  PROVE  ClientInv'
<1> USE DEF ClientInv, InLoop, Running, connectorVars, clientVars, loopVars, historyVars
<1>1. TypeOK
  OBVIOUS
<1>2. /\ pending' \in Seq(Functors)
      /\ \A fn : Contains(pending', fn) <=> Contains(pending, fn) \/ fn = "resetChannel"
      /\ \A fn : Single(pending, fn) /\ (fn = "resetChannel" => ~Contains(pending, fn)) => Single(pending', fn)
  BY Pushes DEF AttemptFails, removeAndResetChannel, Functors
<1>3. TypeOK'
  <2>1. Backoff(retryDelayMs_) \in kInitRetryDelayMs..kMaxRetryDelayMs /\ fds - 1 \in Nat
    BY ClientAssumption DEF TypeOK, Backoff, SocketsAccounted, AttemptInv, AttemptFails
  <2>2. /\ retryDelayMs_' \in kInitRetryDelayMs..kMaxRetryDelayMs /\ timers' \in Nat /\ fds' \in Nat
        /\ state_' = "kDisconnected" /\ channel_' = "off"
    BY <2>1 DEF TypeOK, AttemptFails, retry, removeAndResetChannel
  <2> QED
    BY <1>1, <1>2, <2>2 DEF TypeOK, AttemptFails
<1>4. LoopInv'
  BY <1>1, <1>2 DEF LoopInv, AttemptFails
<1>5. AttemptInv'
  BY <1>1, <1>2 DEF TypeOK, AttemptInv, Queued, QueuedOnce, AttemptFails, retry, removeAndResetChannel
<1>6. ConnectionInv'
  BY <1>1, <1>2 DEF ConnectionInv, Queued, QueuedOnce, AttemptFails
<1>7. StopInv'
  BY <1>1, <1>2 DEF StopInv, Queued, AttemptFails
<1>8. SocketsAccounted'
  BY <1>1, <1>2 DEF TypeOK, SocketsAccounted, AttemptInv, AttemptFails, retry, removeAndResetChannel
<1>9. Remembered'
  BY <1>1, <1>2 DEF TypeOK, Remembered, AttemptFails, retry
<1> QED
  BY <1>3, <1>4, <1>5, <1>6, <1>7, <1>8, <1>9

LEMMA AttemptSucceedsInv ==
  ASSUME ClientInv, AttemptSucceeds
  PROVE  ClientInv'
<1> USE DEF ClientInv, InLoop, Running, connectorVars, clientVars, loopVars, historyVars
<1>1. TypeOK
  OBVIOUS
<1>2. /\ pending' \in Seq(Functors)
      /\ \A fn : Contains(pending', fn) <=> Contains(pending, fn) \/ fn = "resetChannel"
      /\ \A fn : Single(pending, fn) /\ (fn = "resetChannel" => ~Contains(pending, fn)) => Single(pending', fn)
  BY Pushes DEF AttemptSucceeds, removeAndResetChannel, Functors
<1>3. TypeOK'
  <2>1. fds - 1 \in Nat /\ conns \in Nat
    BY DEF TypeOK, SocketsAccounted, AttemptInv, AttemptSucceeds
  <2>2. fds' \in Nat /\ conns' \in Nat
    BY <2>1 DEF TypeOK, AttemptSucceeds
  <2>3. connection_' \in BOOLEAN /\ up' \in BOOLEAN
    BY <1>1, Zenon DEF TypeOK, AttemptSucceeds
  <2> QED
    BY <1>1, <1>2, <2>2, <2>3 DEF TypeOK, AttemptSucceeds, removeAndResetChannel
<1>4. LoopInv'
  BY <1>1, <1>2 DEF LoopInv, AttemptSucceeds
<1>5. AttemptInv'
  BY <1>1, <1>2 DEF AttemptInv, Queued, QueuedOnce, AttemptSucceeds, removeAndResetChannel
<1>6. ConnectionInv'
  <2>1. /\ ~restarting /\ ~up /\ "down" \notin ready' /\ (connect_ => client) /\ phase = "events"
        /\ state_' = "kConnected" /\ UNCHANGED <<batch, restarting, client, phase>>
    BY DEF ConnectionInv, AttemptInv, StopInv, LoopInv, AttemptSucceeds
  <2>2. CASE connect_
    <3>1. connection_' /\ up' /\ conns' = conns + 1
      BY <2>2, Zenon DEF AttemptSucceeds
    <3> QED
      BY <1>2, <2>1, <2>2, <3>1 DEF TypeOK, ConnectionInv, Queued, QueuedOnce
  <2>3. CASE ~connect_
    <3>1. UNCHANGED <<connection_, up, conns>>
      BY <2>3, Zenon DEF AttemptSucceeds
    <3> QED
      BY <1>2, <2>1, <2>3, <3>1 DEF ConnectionInv, Queued, QueuedOnce
  <2> QED
    BY <2>2, <2>3
<1>7. StopInv'
  BY <1>1, <1>2 DEF StopInv, Queued, AttemptSucceeds
<1>8. SocketsAccounted'
  BY <1>1, <1>2 DEF TypeOK, SocketsAccounted, AttemptInv, AttemptSucceeds, removeAndResetChannel
<1>9. Remembered'
  BY <1>1, <1>2 DEF Remembered, AttemptSucceeds
<1> QED
  BY <1>3, <1>4, <1>5, <1>6, <1>7, <1>8, <1>9

LEMMA RunResetInv ==
  ASSUME ClientInv, RunReset
  PROVE  ClientInv'
<1> USE DEF ClientInv, InLoop, Running, clientVars, historyVars
<1>1. CASE Abort("freed")
  BY <1>1, AbortInv
<1>2. CASE ~Abort("freed")
  <2>1. /\ TypeOK /\ NextFunctor("resetChannel") /\ batch' = Tail(batch) /\ channel_' = "none"
        /\ UNCHANGED <<connect_, state_, retryDelayMs_, timers, keeper, gaveUp, clientVars, fds, phase, ready>>
        /\ UNCHANGED <<restarting, pending, thread, connects, historyVars, failed>>
    BY <1>2, Zenon DEF RunReset
  <2>2. /\ batch' \in Seq(Functors)
        /\ Contains(batch, "resetChannel") /\ (Single(batch, "resetChannel") => ~Contains(batch', "resetChannel"))
        /\ \A fn : Contains(batch', fn) => Contains(batch, fn)
        /\ \A fn : Contains(batch, fn) /\ fn # "resetChannel" => Contains(batch', fn)
        /\ \A fn : Single(batch, fn) => Single(batch', fn)
    BY <2>1, Pops
  <2>3. channel_ = "off" /\ phase = "functors" /\ ready = {}
    BY <2>1, <2>2 DEF AttemptInv, LoopInv, Queued, NextFunctor
  <2>4. TypeOK' /\ LoopInv'
    BY <2>1, <2>2, <2>3 DEF TypeOK, LoopInv
  <2>5. AttemptInv'
    BY <2>1, <2>2, <2>3 DEF AttemptInv, Queued, QueuedOnce, NextFunctor
  <2>6. ConnectionInv'
    BY <2>1, <2>2, <2>3 DEF ConnectionInv, Queued, QueuedOnce
  <2>7. StopInv'
    BY <2>1, <2>2 DEF StopInv, Queued
  <2>8. SocketsAccounted' /\ Remembered'
    BY <2>1, <2>2, <2>3 DEF SocketsAccounted, Remembered, Queued
  <2> QED
    BY <2>4, <2>5, <2>6, <2>7, <2>8
<1> QED
  BY <1>1, <1>2

LEMMA RunDestroyedInv ==
  ASSUME ClientInv, RunDestroyed
  PROVE  ClientInv'
<1> USE DEF ClientInv, InLoop, Running, connectorVars, clientVars, loopVars, historyVars
<1>1. TypeOK
  OBVIOUS
<1>2. /\ batch' \in Seq(Functors)
      /\ Contains(batch, "connectDestroyed") /\ (Single(batch, "connectDestroyed") => ~Contains(batch', "connectDestroyed"))
      /\ \A fn : Contains(batch', fn) => Contains(batch, fn)
      /\ \A fn : Contains(batch, fn) /\ fn # "connectDestroyed" => Contains(batch', fn)
      /\ \A fn : Single(batch, fn) => Single(batch', fn)
  BY Pops DEF RunDestroyed
<1>3. TypeOK'
  <2>1. conns - 1 \in Nat /\ fds - 1 \in Nat
    BY <1>2 DEF TypeOK, ConnectionInv, Queued, SocketsAccounted
  <2> QED
    BY <1>1, <1>2, <2>1 DEF TypeOK, RunDestroyed
<1>4. LoopInv'
  BY <1>1, <1>2 DEF LoopInv, RunDestroyed
<1>5. AttemptInv'
  BY <1>1, <1>2 DEF AttemptInv, Queued, QueuedOnce, LoopInv, RunDestroyed
<1>6. ConnectionInv'
  BY <1>1, <1>2 DEF ConnectionInv, Queued, QueuedOnce, RunDestroyed, NextFunctor
<1>7. StopInv'
  BY <1>1, <1>2 DEF StopInv, Queued, RunDestroyed
<1>8. SocketsAccounted'
  BY <1>1, <1>2 DEF TypeOK, SocketsAccounted, RunDestroyed
<1>9. Remembered'
  BY <1>1, <1>2 DEF Remembered, Queued, RunDestroyed
<1> QED
  BY <1>3, <1>4, <1>5, <1>6, <1>7, <1>8, <1>9

LEMMA SwapInv ==
  ASSUME ClientInv, Swap
  PROVE  ClientInv'
<1> USE DEF ClientInv, InLoop, Running, connectorVars, clientVars, loopVars, historyVars
<1>1. TypeOK
  OBVIOUS
<1>0. /\ batch = <<>> /\ batch' = pending /\ pending' = <<>> /\ ~restarting
      /\ UNCHANGED <<connectorVars, clientVars, fds, ready, restarting, thread, connects, historyVars, failed>>
      /\ ready = {} /\ phase' = "functors"
  BY DEF Swap, LoopInv
<1>2. TypeOK'
  BY <1>0 DEF TypeOK
<1>3. LoopInv'
  BY <1>0, EmptyQueue DEF LoopInv
<1>4. AttemptInv'
  BY <1>0, EmptyQueue DEF AttemptInv, Queued, QueuedOnce
<1>5. ConnectionInv'
  BY <1>0, EmptyQueue DEF ConnectionInv, Queued, QueuedOnce
<1>6. StopInv'
  BY <1>0, EmptyQueue DEF StopInv, Queued
<1>7. SocketsAccounted'
  BY <1>0 DEF SocketsAccounted
<1>8. Remembered'
  BY <1>0, EmptyQueue DEF Remembered, Queued
<1> QED
  BY <1>2, <1>3, <1>4, <1>5, <1>6, <1>7, <1>8

LEMMA RestartInv ==
  ASSUME ClientInv, Restart
  PROVE  ClientInv'
<1> USE DEF ClientInv, InLoop, Running, clientVars, historyVars
<1>1. /\ TypeOK /\ channel_ # "on" /\ timers \in Nat
      /\ kInitRetryDelayMs \in kInitRetryDelayMs..kMaxRetryDelayMs
  BY ClientAssumption DEF TypeOK, AttemptInv, ConnectionInv, Restart
<1>2. Attempted(TRUE, timers, stopped)
  BY <1>1, ConnectDoes, Zenon DEF Restart
<1>3. /\ state_ = "kConnected" /\ restarting /\ failed = "none" /\ client
      /\ connect_' = TRUE /\ restarting' = FALSE
      /\ UNCHANGED <<keeper, clientVars, phase, ready, pending, batch, thread, connects, stopped>>
  BY DEF Restart, ConnectionInv
<1>4. TypeOK'
  <2>1. connect_' \in BOOLEAN /\ restarting' \in BOOLEAN
    BY <1>3, Zenon
  <2> QED
    BY <1>1, <1>2, <1>3, <2>1 DEF TypeOK, Attempted
<1>5. LoopInv'
  BY <1>3 DEF LoopInv
<1>6. AttemptInv'
  BY <1>1, <1>2, <1>3 DEF AttemptInv, Attempted, Queued, QueuedOnce
<1>7. ConnectionInv' /\ StopInv'
  <2>1. stopped # "yes" /\ "yes" \notin late'
    BY <1>2, <1>3 DEF StopInv, Attempted
  <2> QED
    BY <1>1, <1>3, <2>1 DEF ConnectionInv, StopInv, Queued, QueuedOnce
<1>8. SocketsAccounted'
  BY <1>1, <1>2, <1>3 DEF SocketsAccounted, Attempted, TypeOK
<1>9. Remembered'
  BY <1>1, <1>2, <1>3 DEF Remembered, Attempted
<1> QED
  BY <1>4, <1>5, <1>6, <1>7, <1>8, <1>9

LEMMA RunStartInv ==
  ASSUME ClientInv, RunStart
  PROVE  ClientInv'
<1> USE DEF ClientInv, InLoop, Running, clientVars, historyVars, NextFunctor
<1>1. CASE ~HeldWith(timers) \/ state_ # "kDisconnected"
  <2>1. Abort("startInLoop") \/ Abort("freed")
    BY <1>1, Zenon DEF RunStart
  <2> QED
    BY <2>1, AbortInv
<1>2. CASE HeldWith(timers) /\ state_ = "kDisconnected"
  <2>1. /\ TypeOK /\ channel_ # "on" /\ connect_ \in BOOLEAN /\ timers \in Nat
        /\ retryDelayMs_ \in kInitRetryDelayMs..kMaxRetryDelayMs
    BY <1>2 DEF TypeOK, AttemptInv
  <2>2. /\ NextFunctor("startInLoop") /\ batch' = Tail(batch) /\ failed = "none" /\ ~restarting
        /\ UNCHANGED <<connect_, keeper, clientVars, phase, ready, restarting, pending, thread, connects, stopped>>
    BY <1>2 DEF RunStart
  <2>3. /\ batch' \in Seq(Functors)
        /\ \A fn : Contains(batch', fn) => Contains(batch, fn)
        /\ \A fn : Contains(batch, fn) /\ fn # "startInLoop" => Contains(batch', fn)
        /\ \A fn : Single(batch, fn) => Single(batch', fn)
    BY <2>1, <2>2, Pops, Zenon
  <2>4. \/ connect_ /\ Attempted(connect_, timers, stopped)
        \/ ~connect_ /\ UNCHANGED <<state_, channel_, retryDelayMs_, timers, fds, gaveUp, late, failed>>
    BY <1>2, <2>1, ConnectDoes, Zenon DEF RunStart, Starts
  <2>5. LoopInv'
    BY <2>2, <2>3 DEF LoopInv
  <2>6. CASE connect_ /\ Attempted(connect_, timers, stopped)
    <3>1. TypeOK'
      BY <2>1, <2>2, <2>3, <2>6 DEF TypeOK, Attempted
    <3>2. AttemptInv'
      BY <2>1, <2>2, <2>3, <2>6 DEF AttemptInv, Attempted, Queued, QueuedOnce
    <3>3. ConnectionInv' /\ StopInv'
      <4>1. client /\ ~up /\ stopped # "yes"
        BY <1>2, <2>6 DEF ConnectionInv, StopInv
      <4>2. ConnectionInv'
        BY <2>1, <2>2, <2>3, <4>1 DEF ConnectionInv, Queued, QueuedOnce
      <4>3. "yes" \notin late'
        BY <2>6, <4>1 DEF StopInv, Attempted
      <4> QED
        BY <2>2, <4>1, <4>2, <4>3 DEF StopInv
    <3>4. SocketsAccounted'
      BY <2>1, <2>2, <2>6 DEF SocketsAccounted, Attempted, TypeOK
    <3>5. Remembered'
      BY <2>1, <2>2, <2>3, <2>6 DEF Remembered, Attempted
    <3> QED
      BY <2>5, <3>1, <3>2, <3>3, <3>4, <3>5, Zenon
  <2>7. CASE ~connect_ /\ UNCHANGED <<state_, channel_, retryDelayMs_, timers, fds, gaveUp, late, failed>>
    <3>1. TypeOK'
      BY <2>1, <2>2, <2>3, <2>7, Zenon DEF TypeOK
    <3>2. AttemptInv'
      BY <2>1, <2>2, <2>3, <2>7 DEF AttemptInv, Queued, QueuedOnce
    <3>3. ConnectionInv' /\ StopInv'
      BY <2>1, <2>2, <2>3, <2>7, Zenon DEF ConnectionInv, StopInv, Queued, QueuedOnce
    <3>4. SocketsAccounted' /\ Remembered'
      BY <2>2, <2>7 DEF SocketsAccounted, Remembered
    <3> QED
      BY <2>5, <3>1, <3>2, <3>3, <3>4
  <2> QED
    BY <2>4, <2>6, <2>7
<1> QED
  BY <1>1, <1>2

LEMMA RunStopInv ==
  ASSUME ClientInv, RunStop
  PROVE  ClientInv'
<1> USE DEF ClientInv, InLoop, Running, clientVars, historyVars, NextFunctor
<1> SUFFICES ASSUME HeldWith(timers)
             PROVE  ClientInv'
  BY AbortInv DEF RunStop
<1>1. TypeOK /\ NextFunctor("stopInLoop") /\ batch' = Tail(batch)
  BY DEF RunStop
<1>2. /\ batch' \in Seq(Functors)
      /\ \A fn : Contains(batch', fn) => Contains(batch, fn)
      /\ \A fn : Contains(batch, fn) /\ fn # "stopInLoop" => Contains(batch', fn)
      /\ \A fn : Single(batch, fn) => Single(batch', fn)
  BY <1>1, Pops, Zenon
<1>3. /\ failed = "none" /\ ~restarting /\ phase = "functors"
      /\ UNCHANGED <<connect_, keeper, gaveUp, clientVars, phase, ready, restarting, thread, connects>>
      /\ UNCHANGED <<historyVars, failed>>
  BY DEF RunStop
<1>4. CASE state_ # "kConnecting"
  <2>1. UNCHANGED <<channel_, pending, fds, state_, timers, retryDelayMs_>>
    BY <1>4 DEF RunStop
  <2>2. TypeOK' /\ LoopInv'
    BY <1>1, <1>2, <1>3, <2>1 DEF TypeOK, LoopInv
  <2>3. AttemptInv'
    BY <1>1, <1>2, <1>3, <2>1 DEF AttemptInv, Queued, QueuedOnce
  <2>4. ConnectionInv' /\ StopInv'
    <3>1. ConnectionInv'
      BY <1>2, <1>3, <2>1 DEF ConnectionInv, Queued, QueuedOnce
    <3>2. StopInv'
      BY <1>3, <1>4, <2>1 DEF StopInv
    <3> QED
      BY <3>1, <3>2
  <2>5. SocketsAccounted' /\ Remembered'
    BY <1>1, <1>2, <1>3, <2>1 DEF SocketsAccounted, Remembered, Queued
  <2> QED
    BY <2>2, <2>3, <2>4, <2>5
<1>5. CASE state_ = "kConnecting"
  <2>1. removeAndResetChannel(pending) /\ retry(connect_, fds, retryDelayMs_, timers)
    BY <1>5 DEF RunStop
  <2>2. /\ pending' \in Seq(Functors)
        /\ \A fn : Contains(pending', fn) <=> Contains(pending, fn) \/ fn = "resetChannel"
        /\ \A fn : Single(pending, fn) /\ (fn = "resetChannel" => ~Contains(pending, fn)) => Single(pending', fn)
    BY <1>1, <2>1, Pushes DEF removeAndResetChannel, Functors
  <2>3. /\ Backoff(retryDelayMs_) \in kInitRetryDelayMs..kMaxRetryDelayMs
        /\ fds - 1 \in Nat /\ timers \in Nat /\ channel_ = "on"
    BY <1>5, ClientAssumption DEF TypeOK, Backoff, SocketsAccounted, AttemptInv
  <2>4. /\ retryDelayMs_' \in kInitRetryDelayMs..kMaxRetryDelayMs /\ timers' \in Nat /\ timers' >= timers
        /\ fds' = fds - 1 /\ state_' = "kDisconnected" /\ channel_' = "off"
        /\ connect_ => timers' > 0
    BY <2>1, <2>3 DEF TypeOK, retry, removeAndResetChannel
  <2>5. TypeOK'
    BY <1>1, <1>2, <1>3, <2>2, <2>3, <2>4 DEF TypeOK
  <2>6. LoopInv'
    BY <1>3, <2>2, Zenon DEF LoopInv
  <2>7. AttemptInv'
    BY <1>2, <1>3, <2>2, <2>3, <2>4 DEF AttemptInv, LoopInv, Queued, QueuedOnce
  <2>8. ConnectionInv' /\ StopInv'
    BY <1>2, <1>3, <1>5, <2>2, <2>4, Zenon DEF ConnectionInv, StopInv, Queued, QueuedOnce
  <2>9. SocketsAccounted'
    BY <1>1, <1>3, <2>3, <2>4 DEF SocketsAccounted, TypeOK
  <2>10. Remembered'
    BY <1>3, <2>4 DEF Remembered
  <2> QED
    BY <2>5, <2>6, <2>7, <2>8, <2>9, <2>10
<1> QED
  BY <1>4, <1>5

LEMMA LoopConnectInv ==
  ASSUME ClientInv, LoopConnect
  PROVE  ClientInv'
<1> USE DEF ClientInv, InLoop, Running, loopVars
<1>1. CASE state_ # "kDisconnected"
  BY <1>1, AbortInv DEF LoopConnect
<1>2. CASE state_ = "kDisconnected"
  <2>1. /\ TypeOK /\ channel_ # "on" /\ timers \in Nat
        /\ retryDelayMs_ \in kInitRetryDelayMs..kMaxRetryDelayMs
    BY <1>2 DEF TypeOK, AttemptInv
  <2>2. /\ client /\ failed = "none" /\ ~restarting /\ connects < MaxConnects
        /\ connects' = connects + 1 /\ clientConnect_' = TRUE /\ connect_' = TRUE /\ stopped' = "no"
        /\ UNCHANGED <<keeper, connection_, client, up, conns, loopVars, thread>>
    BY <1>2 DEF LoopConnect
  <2>3. Attempted(TRUE, timers, "no")
    BY <1>2, <2>1, ConnectDoes, Zenon DEF LoopConnect
  <2>4. TypeOK'
    <3>1. connect_' \in BOOLEAN /\ clientConnect_' \in BOOLEAN
      BY <2>2, Zenon
    <3>2. connects' \in 0..MaxConnects
      BY <2>2, ClientAssumption DEF TypeOK
    <3> QED
      BY <2>1, <2>2, <2>3, <3>1, <3>2 DEF TypeOK, Attempted
  <2>5. LoopInv'
    BY <2>2 DEF LoopInv
  <2>6. AttemptInv'
    BY <2>1, <2>2, <2>3 DEF AttemptInv, Attempted, Queued, QueuedOnce
  <2>7. ConnectionInv' /\ StopInv'
    <3>1. "yes" \notin late' /\ ~up
      BY <1>2, <2>3 DEF StopInv, ConnectionInv, Attempted
    <3> QED
      BY <2>1, <2>2, <3>1 DEF ConnectionInv, StopInv, Queued, QueuedOnce
  <2>8. SocketsAccounted'
    BY <2>1, <2>2, <2>3 DEF SocketsAccounted, Attempted, TypeOK
  <2>9. Remembered'
    BY <2>1, <2>2, <2>3 DEF Remembered, Attempted
  <2> QED
    BY <2>4, <2>5, <2>6, <2>7, <2>8, <2>9
<1> QED
  BY <1>1, <1>2

LEMMA ThreadFlagsInv ==
  ASSUME ClientInv, NEW op \in ThreadOps, ThreadFlags(op)
  PROVE  ClientInv'
<1> USE DEF ClientInv, Running, loopVars, ThreadFlags
<1>1. TypeOK'
  <2>1. connect_' \in BOOLEAN /\ clientConnect_' \in BOOLEAN
    BY Zenon
  <2>2. connects' \in 0..MaxConnects /\ thread' \in {"idle", "start", "stop"}
    BY ClientAssumption DEF TypeOK
  <2>3. stopped' \in {"no", "yes", "raced"}
    BY Zenon
  <2> QED
    BY <2>1, <2>2, <2>3 DEF TypeOK
<1>2. LoopInv' /\ AttemptInv'
  BY Zenon DEF LoopInv, AttemptInv, Queued, QueuedOnce
<1>3. ConnectionInv'
  BY Zenon DEF ConnectionInv, Queued, QueuedOnce
<1>4. StopInv'
  <2>1. CASE op = "connect"
    BY <2>1 DEF StopInv, Queued
  <2>2. CASE op # "connect"
    <3>1. ~connect_' /\ ~clientConnect_'
      BY <2>2, Zenon
    <3>2. restarting => stopped' = "raced"
      BY <2>2
    <3>3. UNCHANGED <<late, client, keeper, state_, restarting, pending, batch>> /\ client
      OBVIOUS
    <3> QED
      BY <3>1, <3>2, <3>3 DEF StopInv
  <2> QED
    BY <2>1, <2>2
<1>5. SocketsAccounted' /\ Remembered'
  BY Zenon DEF SocketsAccounted, Remembered
<1> QED
  BY <1>1, <1>2, <1>3, <1>4, <1>5

LEMMA ThreadQueueInv ==
  ASSUME ClientInv, ThreadQueue
  PROVE  ClientInv'
<1> USE DEF ClientInv, Running, connectorVars, clientVars, historyVars
<1> DEFINE g == IF thread = "start" THEN "startInLoop" ELSE "stopInLoop"
<1>1. TypeOK /\ g \in Functors /\ pending' = Append(pending, g)
  BY DEF ThreadQueue, Functors
<1>2. g # "resetChannel" /\ g # "connectDestroyed" /\ (thread = "start" => g = "startInLoop")
  OBVIOUS
<1> HIDE DEF g
<1>3. /\ pending' \in Seq(Functors)
      /\ \A fn : Contains(pending', fn) <=> Contains(pending, fn) \/ fn = g
      /\ \A fn : Single(pending, fn) /\ (fn = g => ~Contains(pending, fn)) => Single(pending', fn)
  BY <1>1, Pushes, Zenon
<1>4. /\ thread' = "idle"
      /\ UNCHANGED <<connectorVars, clientVars, fds, phase, ready, restarting, batch, connects, historyVars, failed>>
  BY DEF ThreadQueue
<1>5. TypeOK'
  BY <1>3, <1>4 DEF TypeOK
<1>6. LoopInv' /\ AttemptInv'
  BY <1>2, <1>3, <1>4 DEF LoopInv, AttemptInv, Queued, QueuedOnce
<1>7. ConnectionInv' /\ StopInv'
  BY <1>2, <1>3, <1>4, Zenon DEF ConnectionInv, StopInv, Queued, QueuedOnce
<1>8. SocketsAccounted' /\ Remembered'
  BY <1>2, <1>3, <1>4 DEF SocketsAccounted, Remembered, Queued
<1> QED
  BY <1>5, <1>6, <1>7, <1>8

LEMMA DestroyInv ==
  ASSUME ClientInv, Destroy
  PROVE  ClientInv'
<1> USE DEF ClientInv, InLoop, Running, historyVars
<1>1. CASE Abort("dtor")
  BY <1>1, AbortInv
<1>2. CASE ~Abort("dtor")
  <2>1. /\ client' = FALSE /\ connection_' = FALSE /\ ~restarting
        /\ client /\ thread = "idle"
        /\ \/ connection_ /\ UNCHANGED <<connect_, keeper, pending>>
           \/ ~connection_ /\ connect_' = FALSE /\ keeper' = TRUE /\ pending' = Append(pending, "stopInLoop")
        /\ UNCHANGED <<state_, retryDelayMs_, channel_, timers, gaveUp, clientConnect_, up, conns, fds, phase,
                       ready, restarting, batch>>
        /\ UNCHANGED <<thread, connects, historyVars, failed>>
    BY <1>2, Zenon DEF Destroy
  <2>2. TypeOK /\ "stopInLoop" \in Functors
    BY DEF Functors
  <2>3. /\ pending' \in Seq(Functors)
        /\ \A fn : fn # "stopInLoop" => (Contains(pending', fn) <=> Contains(pending, fn))
        /\ \A fn : Single(pending, fn) /\ fn # "stopInLoop" => Single(pending', fn)
        /\ ~connection_ => Contains(pending', "stopInLoop")
    <3>1. CASE connection_ /\ UNCHANGED pending
      BY <2>2, <3>1 DEF TypeOK
    <3>2. CASE pending' = Append(pending, "stopInLoop")
      BY <2>2, <3>2, Pushes, Zenon
    <3> QED
      BY <2>1, <3>1, <3>2
  <2>4. TypeOK'
    <3>1. connect_' \in BOOLEAN /\ client' \in BOOLEAN /\ connection_' \in BOOLEAN /\ keeper' \in BOOLEAN
      BY <2>1, <2>2, Zenon DEF TypeOK
    <3> QED
      BY <2>1, <2>2, <2>3, <3>1 DEF TypeOK
  <2>5. LoopInv' /\ AttemptInv'
    BY <2>1, <2>3, Zenon DEF LoopInv, AttemptInv, Queued, QueuedOnce
  <2>6. ConnectionInv'
    BY <2>1, <2>3, Zenon DEF ConnectionInv, Queued, QueuedOnce
  <2>8. StopInv'
    <3>1. CASE connection_
      BY <2>1, <3>1 DEF ConnectionInv, StopInv
    <3>2. CASE ~connection_
      BY <2>1, <2>3, <3>2 DEF StopInv, Queued
    <3> QED
      BY <3>1, <3>2
  <2>7. SocketsAccounted' /\ Remembered'
    BY <2>1, <2>3 DEF SocketsAccounted, Remembered, Queued
  <2> QED
    BY <2>4, <2>5, <2>6, <2>7, <2>8
<1> QED
  BY <1>1, <1>2

(***************************************************************************)
(* A program that calls connect() once.                                    *)
(***************************************************************************)

\* An attempt of a Connector at rest is the only one, and fails no assertion.
LEMMA FirstAttempt ==
  ASSUME NEW on, NEW stop, Attempted(on, 0, stop), channel_ = "none", failed = "none", client
  PROVE  NoAssertFails' /\ SingleAttempt'
<1>1. failed' = "none" /\ (state_' = "kConnecting" <=> channel_' = "on")
  BY DEF Attempted
<1>2. CASE state_' = "kConnecting"
  BY <1>1, <1>2 DEF Attempted, NoAssertFails, SingleAttempt
<1>3. CASE state_' = "kDisconnected" /\ timers' = 0
  BY <1>1, <1>3 DEF NoAssertFails, SingleAttempt
<1>4. CASE state_' = "kDisconnected" /\ timers' = 1
  BY <1>1, <1>4 DEF NoAssertFails, SingleAttempt
<1> QED
  BY <1>2, <1>3, <1>4 DEF Attempted

\* Steps that leave the Connector, its connection and the queues alone.
LEMMA QuietOnce ==
  ASSUME OnceInv, ClientInv',
         UNCHANGED <<state_, channel_, timers, phase, ready, restarting, pending, batch, thread,
                     connects, failed>>
  PROVE  SoundOnce'
<1>1. NoAssertFails' /\ SingleAttempt' /\ ChannelInv'
  BY DEF OnceInv, SoundOnce, NoAssertFails, SingleAttempt, ChannelInv
<1>2. StartInv'
  BY DEF OnceInv, SoundOnce, StartInv, Unstarted, Queued, QueuedOnce
<1> QED
  BY <1>1, <1>2 DEF SoundOnce

\* A functor other than startInLoop() and resetChannel() is queued, or none.
LEMMA QueuedOther ==
  ASSUME OnceInv, ClientInv', NEW g \in Functors \ {"startInLoop", "resetChannel"},
         UNCHANGED pending \/ pending' = Append(pending, g),
         UNCHANGED <<state_, channel_, timers, phase, ready, restarting, batch, thread, connects, failed>>
  PROVE  SoundOnce'
<1>1. TypeOK /\ failed = "none" /\ SingleAttempt /\ StartInv /\ ChannelInv
  BY DEF OnceInv, SoundOnce, ClientInv, NoAssertFails
<1>2. \A fn \in {"startInLoop", "resetChannel"} :
        /\ Contains(pending', fn) <=> Contains(pending, fn)
        /\ Single(pending, fn) => Single(pending', fn)
  <2>1. CASE UNCHANGED pending
    BY <2>1
  <2>2. CASE pending' = Append(pending, g)
    BY <1>1, <2>2, Pushes
  <2> QED
    BY <2>1, <2>2
<1>3. NoAssertFails' /\ SingleAttempt'
  BY <1>1 DEF NoAssertFails, SingleAttempt
<1>4. ChannelInv'
  BY <1>1, <1>2 DEF ChannelInv
<1>5. StartInv'
  BY <1>1, <1>2 DEF StartInv, Unstarted, Queued, QueuedOnce
<1> QED
  BY <1>3, <1>4, <1>5 DEF SoundOnce

\* A functor other than startInLoop() and resetChannel() is run.
LEMMA RanOther ==
  ASSUME OnceInv, ClientInv', NEW g \in Functors \ {"startInLoop", "resetChannel"},
         NextFunctor(g), batch' = Tail(batch),
         UNCHANGED <<state_, channel_, timers, phase, ready, restarting, pending, thread, connects, failed>>
  PROVE  SoundOnce'
<1>1. TypeOK /\ failed = "none" /\ SingleAttempt /\ StartInv /\ ChannelInv
  BY DEF OnceInv, SoundOnce, ClientInv, NoAssertFails
<1>2. \A fn \in {"startInLoop", "resetChannel"} :
        /\ Contains(batch', fn) <=> Contains(batch, fn)
        /\ Single(batch, fn) => Single(batch', fn)
  BY <1>1, Pops
<1>3. NoAssertFails' /\ SingleAttempt'
  BY <1>1 DEF NoAssertFails, SingleAttempt
<1>4. ChannelInv'
  BY <1>1, <1>2 DEF ChannelInv
<1>5. StartInv'
  BY <1>1, <1>2 DEF StartInv, Unstarted, Queued, QueuedOnce
<1> QED
  BY <1>3, <1>4, <1>5 DEF SoundOnce

\* The attempt in progress ends and resetChannel() is queued: k timers are set.
LEMMA AttemptEnds ==
  ASSUME OnceInv, ClientInv', channel_ = "on", removeAndResetChannel(pending),
         \/ state_' = "kDisconnected" /\ timers' \in {timers, timers + 1}
         \/ state_' = "kConnected" /\ timers' = timers /\ phase = "events",
         ready' \in {ready, ready \ {"attempt"}},
         UNCHANGED <<phase, restarting, thread, connects, failed>>,
         \A fn : Contains(batch', fn) => Contains(batch, fn),
         \A fn : Single(batch, fn) => Single(batch', fn)
  PROVE  SoundOnce'
<1>1. TypeOK /\ failed = "none" /\ SingleAttempt /\ StartInv /\ ChannelInv /\ "resetChannel" \in Functors
  BY DEF OnceInv, SoundOnce, ClientInv, NoAssertFails, Functors
<1>2. timers = 0 /\ ~Unstarted /\ ~restarting /\ "timer" \notin ready /\ "down" \notin ready
  BY <1>1 DEF SingleAttempt, StartInv, ChannelInv, TypeOK
<1>3. channel_' = "off" /\ pending' = Append(pending, "resetChannel")
  BY DEF removeAndResetChannel
<1>4. /\ \A fn : Contains(pending', fn) <=> Contains(pending, fn) \/ fn = "resetChannel"
      /\ \A fn : Single(pending, fn) /\ (fn = "resetChannel" => ~Contains(pending, fn)) => Single(pending', fn)
  BY <1>1, <1>3, Pushes, Zenon
<1>5. NoAssertFails' /\ SingleAttempt'
  <2>1. CASE state_' = "kDisconnected" /\ timers' = 0
    BY <1>1, <1>3, <2>1 DEF NoAssertFails, SingleAttempt
  <2>2. CASE state_' = "kDisconnected" /\ timers' = 1
    BY <1>1, <1>3, <2>2 DEF NoAssertFails, SingleAttempt
  <2>3. CASE state_' = "kConnected" /\ timers' = 0
    BY <1>1, <1>3, <2>3 DEF NoAssertFails, SingleAttempt
  <2> QED
    BY <1>2, <2>1, <2>2, <2>3
<1>6. ChannelInv'
  BY <1>2, <1>4 DEF ChannelInv
<1>7. StartInv'
  BY <1>1, <1>2, <1>4 DEF StartInv, Unstarted, Queued, QueuedOnce
<1> QED
  BY <1>5, <1>6, <1>7 DEF SoundOnce

LEMMA PollOnce ==
  ASSUME ConnectsOnce, OnceInv, ClientInv', Poll
  PROVE  SoundOnce'
<1>0. /\ TypeOK /\ LoopInv /\ AttemptInv /\ ConnectionInv /\ failed = "none"
      /\ SingleAttempt /\ StartInv /\ ChannelInv
  BY DEF OnceInv, SoundOnce, ClientInv, NoAssertFails
<1>1. /\ "timer" \in ready' => timers > 0 /\ channel_ # "off"
      /\ "down" \in ready' => up
      /\ "attempt" \in ready' => channel_ = "on"
      /\ phase = "poll" /\ phase' = "events" /\ ~restarting
      /\ UNCHANGED <<state_, channel_, timers, restarting, pending, batch, thread, connects, failed>>
  BY DEF ConnectsOnce, Poll, InLoop, connectorVars, clientVars
<1>2. batch = <<>> /\ ~(state_ = "kConnected" /\ channel_ = "off")
  BY <1>0, <1>1 DEF LoopInv, ChannelInv
<1>3. "timer" \in ready' => channel_ = "none"
  BY <1>0, <1>1 DEF TypeOK, SingleAttempt
<1>4. "down" \in ready' => channel_ = "none"
  BY <1>0, <1>1, <1>2 DEF TypeOK, AttemptInv, ConnectionInv
<1>5. ChannelInv'
  BY <1>1, <1>2, <1>3, <1>4 DEF ChannelInv
<1>6. NoAssertFails' /\ SingleAttempt'
  BY <1>0, <1>1 DEF NoAssertFails, SingleAttempt
<1>7. StartInv'
  BY <1>0, <1>1 DEF StartInv, Unstarted, Queued, QueuedOnce
<1> QED
  BY <1>5, <1>6, <1>7 DEF SoundOnce

LEMMA SwapOnce ==
  ASSUME OnceInv, ClientInv', Swap
  PROVE  SoundOnce'
<1>0. LoopInv /\ failed = "none" /\ SingleAttempt /\ StartInv /\ ChannelInv
  BY DEF OnceInv, SoundOnce, ClientInv, NoAssertFails
<1>1. /\ batch = <<>> /\ batch' = pending /\ pending' = <<>> /\ ready = {} /\ ~restarting
      /\ phase = "events" /\ phase' = "functors"
      /\ UNCHANGED <<state_, channel_, timers, ready, restarting, thread, connects, failed>>
  BY <1>0 DEF Swap, InLoop, LoopInv, connectorVars, clientVars
<1>2. NoAssertFails' /\ SingleAttempt'
  BY <1>0, <1>1 DEF NoAssertFails, SingleAttempt
<1>3. StartInv'
  BY <1>0, <1>1, EmptyQueue DEF StartInv, Unstarted, Queued, QueuedOnce
<1>4. ChannelInv'
  BY <1>0, <1>1, EmptyQueue DEF ChannelInv
<1> QED
  BY <1>2, <1>3, <1>4 DEF SoundOnce

LEMMA FunctorsDoneOnce ==
  ASSUME OnceInv, ClientInv', FunctorsDone
  PROVE  SoundOnce'
<1>0. LoopInv /\ failed = "none" /\ SingleAttempt /\ StartInv /\ ChannelInv
  BY DEF OnceInv, SoundOnce, ClientInv, NoAssertFails
<1>1. /\ phase = "functors" /\ phase' = "poll" /\ batch = <<>>
      /\ UNCHANGED <<state_, channel_, timers, ready, restarting, pending, batch, thread, connects, failed>>
  BY DEF FunctorsDone, connectorVars, clientVars
<1>2. NoAssertFails' /\ SingleAttempt'
  BY <1>0, <1>1 DEF NoAssertFails, SingleAttempt
<1>3. StartInv'
  BY <1>0, <1>1 DEF StartInv, Unstarted, Queued, QueuedOnce
<1>4. ChannelInv'
  BY <1>0, <1>1, EmptyQueue DEF ChannelInv
<1> QED
  BY <1>2, <1>3, <1>4 DEF SoundOnce

LEMMA TimerFiresOnce ==
  ASSUME OnceInv, ClientInv', TimerFires
  PROVE  SoundOnce'
<1>0. /\ TypeOK /\ LoopInv /\ AttemptInv /\ ConnectionInv /\ StopInv /\ failed = "none"
      /\ SingleAttempt /\ StartInv /\ ChannelInv
  BY DEF OnceInv, SoundOnce, ClientInv, NoAssertFails
<1>1. "timer" \in ready /\ ~restarting /\ timers \in Nat \ {0}
  BY <1>0 DEF TimerFires, InLoop, AttemptInv, TypeOK
<1>2. channel_ = "none" /\ timers = 1 /\ state_ = "kDisconnected"
  BY <1>0, <1>1 DEF ChannelInv, SingleAttempt
<1>3. connect_ \in BOOLEAN /\ retryDelayMs_ \in kInitRetryDelayMs..kMaxRetryDelayMs
  BY <1>0 DEF TypeOK
<1>4. /\ ready' = ready \ {"timer"}
      /\ \/ connect_ /\ connect(connect_, retryDelayMs_, timers - 1, stopped)
         \/ ~connect_ /\ timers' = timers - 1 /\ UNCHANGED <<state_, channel_>>
            /\ failed' = Released(channel_, timers - 1)
      /\ UNCHANGED <<phase, restarting, pending, batch, thread, connects>>
  BY <1>2, Zenon DEF TimerFires, Starts, clientVars
<1>5. timers - 1 = 0
  BY <1>2
<1>7. NoAssertFails' /\ SingleAttempt' /\ state_' # "kConnected"
  <2>1. CASE connect_ /\ connect(connect_, retryDelayMs_, timers - 1, stopped)
    <3>1. Attempted(connect_, 0, stopped)
      BY <1>0, <1>2, <1>3, <1>5, <2>1, ConnectDoes, Zenon
    <3>2. state_' # "kConnected"
      BY <3>1 DEF Attempted
    <3>3. client
      BY <1>0, <1>2, <2>1 DEF StopInv
    <3> QED
      BY <1>0, <1>2, <3>1, <3>2, <3>3, FirstAttempt
  <2>2. CASE /\ ~connect_ /\ timers' = timers - 1 /\ UNCHANGED <<state_, channel_>>
             /\ failed' = Released(channel_, timers - 1)
    BY <1>0, <1>2, <1>5, <2>2 DEF NoAssertFails, SingleAttempt, Released
  <2> QED
    BY <1>4, <2>1, <2>2
<1>8. ~Unstarted /\ "down" \notin ready
  BY <1>0, <1>1, <1>2 DEF StartInv, ConnectionInv
<1>9. StartInv'
  BY <1>0, <1>4, <1>8, Zenon DEF StartInv, Unstarted, Queued, QueuedOnce
<1>10. ChannelInv'
  BY <1>1, <1>4, <1>7, <1>8 DEF ChannelInv
<1> QED
  BY <1>7, <1>9, <1>10 DEF SoundOnce

LEMMA KeeperFiresOnce ==
  ASSUME OnceInv, ClientInv', KeeperFires
  PROVE  SoundOnce'
<1>0. /\ TypeOK /\ AttemptInv /\ StopInv /\ failed = "none"
      /\ SingleAttempt /\ StartInv /\ ChannelInv /\ HeldInv
  BY DEF OnceInv, SoundOnce, ClientInv, NoAssertFails
<1>1. channel_ = "none"
  <2>1. ~client /\ ~Queued("stopInLoop") /\ ~Queued("resetChannel")
    BY <1>0 DEF KeeperFires, HeldInv, Quiet
  <2> QED
    BY <1>0, <2>1 DEF TypeOK, AttemptInv, StopInv, Running
<1>2. /\ ready' = ready \ {"keeper"}
      /\ UNCHANGED <<state_, channel_, timers, phase, restarting, pending, batch, thread, connects, failed>>
  BY <1>0, <1>1 DEF KeeperFires
<1>3. NoAssertFails' /\ SingleAttempt' /\ ChannelInv'
  BY <1>0, <1>2 DEF NoAssertFails, SingleAttempt, ChannelInv
<1>4. StartInv'
  BY <1>0, <1>2 DEF StartInv, Unstarted, Queued, QueuedOnce
<1> QED
  BY <1>3, <1>4 DEF SoundOnce

LEMMA AttemptFailsOnce ==
  ASSUME OnceInv, ClientInv', AttemptFails
  PROVE  SoundOnce'
<1>1. channel_ = "on"
  BY DEF AttemptFails, OnceInv, SoundOnce, ClientInv, AttemptInv
<1>2. /\ removeAndResetChannel(pending) /\ ready' = ready \ {"attempt"}
      /\ state_' = "kDisconnected" /\ timers' \in {timers, timers + 1}
      /\ UNCHANGED <<phase, restarting, batch, thread, connects, failed>>
  BY DEF AttemptFails, retry
<1> QED
  BY <1>1, <1>2, AttemptEnds

LEMMA AttemptSucceedsOnce ==
  ASSUME OnceInv, ClientInv', AttemptSucceeds
  PROVE  SoundOnce'
<1>1. channel_ = "on" /\ phase = "events"
  BY DEF AttemptSucceeds, OnceInv, SoundOnce, ClientInv, AttemptInv, LoopInv
<1>2. /\ removeAndResetChannel(pending) /\ ready' = ready \ {"attempt"}
      /\ state_' = "kConnected" /\ timers' = timers
      /\ UNCHANGED <<phase, restarting, batch, thread, connects, failed>>
  BY DEF AttemptSucceeds
<1> QED
  BY <1>1, <1>2, AttemptEnds, Zenon

LEMMA ConnectionDownOnce ==
  ASSUME OnceInv, ClientInv', ConnectionDown
  PROVE  SoundOnce'
<1>0. /\ TypeOK /\ AttemptInv /\ ConnectionInv /\ failed = "none"
      /\ SingleAttempt /\ StartInv /\ ChannelInv /\ "connectDestroyed" \in Functors
  BY DEF OnceInv, SoundOnce, ClientInv, NoAssertFails, Functors
<1>1. up /\ (client <=> connection_) /\ state_ = "kConnected" /\ Closes
  BY <1>0 DEF ConnectionDown, ConnectionInv
<1>2. /\ ready' = ready \ {"down"}
      /\ pending' = Append(pending, "connectDestroyed")
      /\ UNCHANGED <<state_, channel_, timers, phase, batch, thread, connects, failed>>
  BY <1>1, Zenon DEF ConnectionDown, connectorVars
<1>3. channel_ = "none" /\ ~Unstarted
  <2>1. channel_ # "on" /\ channel_ # "off"
    BY <1>0, <1>1 DEF Closes, AttemptInv, ChannelInv
  <2> QED
    BY <1>0, <1>1, <2>1 DEF TypeOK, StartInv
<1>4. /\ \A fn : Contains(pending', fn) <=> Contains(pending, fn) \/ fn = "connectDestroyed"
      /\ \A fn : Single(pending, fn) /\ fn # "connectDestroyed" => Single(pending', fn)
  BY <1>0, <1>2, Pushes, Zenon
<1>5. NoAssertFails' /\ SingleAttempt'
  BY <1>0, <1>2 DEF NoAssertFails, SingleAttempt
<1>6. ChannelInv'
  BY <1>2, <1>3 DEF ChannelInv
<1>7. StartInv'
  BY <1>0, <1>2, <1>3, <1>4, Zenon DEF StartInv, Unstarted, Queued, QueuedOnce
<1> QED
  BY <1>5, <1>6, <1>7 DEF SoundOnce

LEMMA RestartOnce ==
  ASSUME OnceInv, ClientInv', Restart
  PROVE  SoundOnce'
<1>0. /\ TypeOK /\ AttemptInv /\ ConnectionInv /\ failed = "none"
      /\ SingleAttempt /\ StartInv /\ ChannelInv /\ restarting
  BY DEF OnceInv, SoundOnce, ClientInv, NoAssertFails, Restart
<1>1. /\ channel_ = "none" /\ timers = 0 /\ state_ = "kConnected"
      /\ kInitRetryDelayMs \in kInitRetryDelayMs..kMaxRetryDelayMs
      /\ "timer" \notin ready /\ "down" \notin ready /\ client
  BY <1>0, ClientAssumption DEF ChannelInv, SingleAttempt, ConnectionInv, AttemptInv, TypeOK
<1>2. /\ connect(TRUE, kInitRetryDelayMs, timers, stopped) /\ restarting' = FALSE
      /\ UNCHANGED <<phase, ready, pending, batch, thread, connects>>
  BY Zenon DEF Restart, clientVars
<1>3. Attempted(TRUE, 0, stopped)
  BY <1>0, <1>1, <1>2, ConnectDoes, Zenon
<1>4. NoAssertFails' /\ SingleAttempt'
  BY <1>0, <1>1, <1>3, FirstAttempt, Zenon
<1>5. StartInv'
  BY <1>0, <1>1, <1>2, Zenon DEF StartInv, Unstarted, Queued, QueuedOnce
<1>6. state_' # "kConnected"
  BY <1>3 DEF Attempted
<1>7. ChannelInv'
  BY <1>1, <1>2, <1>6 DEF ChannelInv
<1> QED
  BY <1>4, <1>5, <1>7 DEF SoundOnce

LEMMA RunStartOnce ==
  ASSUME OnceInv, ClientInv', RunStart
  PROVE  SoundOnce'
<1>0. /\ TypeOK /\ failed = "none" /\ StartInv /\ SingleAttempt /\ LoopInv /\ ConnectionInv /\ StopInv
      /\ HeldInv /\ NextFunctor("startInLoop")
  BY DEF OnceInv, SoundOnce, ClientInv, NoAssertFails, RunStart
<1>1. Contains(batch, "startInLoop") /\ batch # <<>>
  BY <1>0, TailQueue DEF TypeOK, NextFunctor
<1>2. /\ state_ = "kDisconnected" /\ channel_ = "none" /\ timers = 0 /\ ready = {} /\ ~restarting
      /\ connects # 0 /\ thread # "start" /\ QueuedOnce("startInLoop")
  BY <1>0, <1>1 DEF StartInv, Unstarted, Queued, LoopInv, ConnectionInv, NextFunctor
<1>3. connect_ \in BOOLEAN /\ retryDelayMs_ \in kInitRetryDelayMs..kMaxRetryDelayMs
  BY <1>0 DEF TypeOK
<1>4. /\ batch' = Tail(batch)
      /\ \/ connect_ /\ connect(connect_, retryDelayMs_, timers, stopped)
         \/ UNCHANGED <<state_, channel_, timers, failed>>
      /\ UNCHANGED <<phase, ready, restarting, pending, thread, connects>>
  <2>1. HeldWith(timers)
    BY <1>0, <1>1 DEF HeldInv, Quiet, Queued, HeldWith
  <2> QED
    BY <1>2, <2>1, Zenon DEF RunStart, Starts, clientVars
<1>5. /\ Single(batch, "startInLoop") => ~Contains(batch', "startInLoop")
      /\ Single(batch, "startInLoop") => Single(batch', "startInLoop")
  BY <1>0, <1>4, Pops, Zenon
<1>6. NoAssertFails' /\ SingleAttempt' /\ state_' # "kConnected"
  <2>1. CASE connect_ /\ connect(connect_, retryDelayMs_, timers, stopped)
    <3>1. Attempted(connect_, 0, stopped)
      BY <1>0, <1>2, <1>3, <2>1, ConnectDoes, Zenon
    <3>2. state_' # "kConnected"
      BY <3>1 DEF Attempted
    <3>3. client
      BY <1>0, <1>2, <2>1 DEF StopInv
    <3> QED
      BY <1>0, <1>2, <3>1, <3>2, <3>3, FirstAttempt
  <2>2. CASE UNCHANGED <<state_, channel_, timers, failed>>
    BY <1>0, <1>2, <2>2, Zenon DEF NoAssertFails, SingleAttempt
  <2> QED
    BY <1>4, <2>1, <2>2
<1>7. StartInv'
  BY <1>1, <1>2, <1>4, <1>5 DEF StartInv, Unstarted, Queued, QueuedOnce
<1>8. ChannelInv'
  BY <1>2, <1>4, <1>6 DEF ChannelInv
<1> QED
  BY <1>6, <1>7, <1>8 DEF SoundOnce

LEMMA RunStopOnce ==
  ASSUME OnceInv, ClientInv', RunStop
  PROVE  SoundOnce'
<1>4. HeldWith(timers)
  <2>1. Contains(batch, "stopInLoop")
    BY TailQueue DEF OnceInv, SoundOnce, ClientInv, TypeOK, RunStop, NextFunctor
  <2> QED
    BY <2>1 DEF OnceInv, HeldInv, Quiet, Queued, HeldWith
<1>0. /\ TypeOK /\ AttemptInv /\ NextFunctor("stopInLoop") /\ batch' = Tail(batch)
      /\ "stopInLoop" \in Functors \ {"startInLoop", "resetChannel"}
  BY <1>4 DEF OnceInv, SoundOnce, ClientInv, RunStop, Functors
<1>1. UNCHANGED <<phase, ready, restarting, thread, connects, failed>>
  BY <1>4 DEF RunStop
<1>2. CASE state_ # "kConnecting"
  <2>1. UNCHANGED <<channel_, pending, state_, timers>>
    BY <1>2, <1>4 DEF RunStop
  <2> QED
    BY <1>0, <1>1, <2>1, RanOther
<1>3. CASE state_ = "kConnecting"
  <2>1. /\ removeAndResetChannel(pending)
        /\ state_' = "kDisconnected" /\ timers' \in {timers, timers + 1}
    BY <1>3, <1>4 DEF RunStop, retry
  <2>2. /\ \A fn : Contains(batch', fn) => Contains(batch, fn)
        /\ \A fn : Single(batch, fn) => Single(batch', fn)
    BY <1>0, Pops, Zenon
  <2>3. channel_ = "on"
    BY <1>0, <1>3 DEF AttemptInv
  <2> QED
    BY <1>1, <2>1, <2>2, <2>3, AttemptEnds
<1> QED
  BY <1>2, <1>3

LEMMA RunResetOnce ==
  ASSUME OnceInv, ClientInv', RunReset
  PROVE  SoundOnce'
<1>7. HeldWith(timers)
  <2>1. Contains(batch, "resetChannel")
    BY TailQueue DEF OnceInv, SoundOnce, ClientInv, TypeOK, RunReset, NextFunctor
  <2> QED
    BY <2>1 DEF OnceInv, HeldInv, Quiet, Queued, HeldWith
<1>0. /\ TypeOK /\ AttemptInv /\ failed = "none" /\ SingleAttempt /\ StartInv /\ ChannelInv
      /\ NextFunctor("resetChannel") /\ batch' = Tail(batch)
  BY <1>7 DEF OnceInv, SoundOnce, ClientInv, NoAssertFails, RunReset
<1>1. /\ Contains(batch, "resetChannel")
      /\ \A fn : Contains(batch', fn) => Contains(batch, fn)
      /\ \A fn : Single(batch, fn) => Single(batch', fn)
  BY <1>0, Pops, Zenon
<1>2. /\ channel_' = "none"
      /\ UNCHANGED <<state_, timers, phase, ready, restarting, pending, thread, connects, failed>>
  BY <1>7 DEF RunReset
<1>3. channel_ = "off"
  BY <1>0, <1>1 DEF AttemptInv, Queued, Running
<1>4. NoAssertFails' /\ SingleAttempt'
  BY <1>0, <1>2, <1>3 DEF NoAssertFails, SingleAttempt
<1>5. StartInv'
  BY <1>0, <1>1, <1>2, Zenon DEF StartInv, Unstarted, Queued, QueuedOnce
<1>6. ChannelInv'
  BY <1>2 DEF ChannelInv
<1> QED
  BY <1>4, <1>5, <1>6 DEF SoundOnce

LEMMA RunDestroyedOnce ==
  ASSUME OnceInv, ClientInv', RunDestroyed
  PROVE  SoundOnce'
<1>1. "connectDestroyed" \in Functors \ {"startInLoop", "resetChannel"}
  BY DEF Functors
<1>2. /\ NextFunctor("connectDestroyed") /\ batch' = Tail(batch)
      /\ UNCHANGED <<state_, channel_, timers, phase, ready, restarting, pending, thread, connects, failed>>
  BY DEF RunDestroyed, connectorVars
<1> QED
  BY <1>1, <1>2, RanOther, Zenon

LEMMA LoopConnectOnce ==
  ASSUME ConnectsOnce, OnceInv, ClientInv', LoopConnect
  PROVE  SoundOnce'
<1>0. /\ TypeOK /\ AttemptInv /\ ConnectionInv /\ failed = "none" /\ StartInv /\ SingleAttempt
  BY DEF OnceInv, SoundOnce, ClientInv, NoAssertFails
<1>1. connects = 0
  BY <1>0, ClientAssumption DEF LoopConnect, ConnectsOnce, TypeOK
<1>2. /\ state_ = "kDisconnected" /\ channel_ = "none" /\ timers = 0 /\ ~restarting
      /\ thread # "start" /\ ~Queued("startInLoop") /\ "timer" \notin ready /\ "down" \notin ready
  BY <1>0, <1>1 DEF StartInv, Unstarted, AttemptInv, ConnectionInv
<1>3. /\ client /\ connect(TRUE, retryDelayMs_, timers, "no") /\ connects' = connects + 1
      /\ UNCHANGED <<phase, ready, restarting, pending, batch, thread>>
  BY <1>2, Zenon DEF LoopConnect, loopVars
<1>4. Attempted(TRUE, 0, "no")
  <2>1. retryDelayMs_ \in kInitRetryDelayMs..kMaxRetryDelayMs
    BY <1>0 DEF TypeOK
  <2> QED
    BY <1>0, <1>2, <1>3, <2>1, ConnectDoes, Zenon
<1>5. NoAssertFails' /\ SingleAttempt'
  BY <1>0, <1>2, <1>3, <1>4, FirstAttempt, Zenon
<1>6. StartInv'
  BY <1>0, <1>1, <1>2, <1>3 DEF StartInv, Unstarted, Queued, QueuedOnce
<1>7. state_' # "kConnected"
  BY <1>4 DEF Attempted
<1>8. ChannelInv'
  BY <1>2, <1>3, <1>7 DEF ChannelInv
<1> QED
  BY <1>5, <1>6, <1>8 DEF SoundOnce

LEMMA LoopStopOnce ==
  ASSUME OnceInv, ClientInv', LoopStop
  PROVE  SoundOnce'
<1>1. "stopInLoop" \in Functors \ {"startInLoop", "resetChannel"}
  BY DEF Functors
<1>2. /\ pending' = Append(pending, "stopInLoop")
      /\ UNCHANGED <<state_, channel_, timers, phase, ready, restarting, batch, thread, connects, failed>>
  BY DEF LoopStop
<1> QED
  BY <1>1, <1>2, QueuedOther

LEMMA DestroyOnce ==
  ASSUME ConnectsOnce, OnceInv, ClientInv', Destroy
  PROVE  SoundOnce'
<1>1. ~(connection_ /\ timers = 0 /\ channel_ # "none")
  <2> SUFFICES ASSUME connection_
               PROVE  channel_ = "none"
    OBVIOUS
  <2>1. state_ = "kConnected" /\ ~Calls /\ TypeOK /\ AttemptInv /\ Running
    BY DEF Destroy, InLoop, ConnectsOnce, OnceInv, SoundOnce, ClientInv, ConnectionInv
  <2>2. ~Queued("resetChannel")
    BY <2>1, ConcatQueue DEF Calls, TypeOK, Queued
  <2> QED
    BY <2>1, <2>2 DEF TypeOK, AttemptInv
<1>2. /\ UNCHANGED pending \/ pending' = Append(pending, "stopInLoop")
      /\ UNCHANGED <<state_, channel_, timers, phase, ready, restarting, batch, thread, connects, failed>>
  BY <1>1 DEF Destroy
<1>3. "stopInLoop" \in Functors \ {"startInLoop", "resetChannel"}
  BY DEF Functors
<1> QED
  BY <1>2, <1>3, QueuedOther

LEMMA ThreadFlagsOnce ==
  ASSUME ConnectsOnce, OnceInv, ClientInv', NEW op \in ThreadOps, ThreadFlags(op)
  PROVE  SoundOnce'
<1>0. TypeOK /\ failed = "none" /\ StartInv /\ SingleAttempt /\ ChannelInv
  BY Zenon DEF OnceInv, SoundOnce, ClientInv, NoAssertFails
<1>1. /\ op = "connect" => connects = 0 /\ connects' = 1 /\ thread' = "start"
      /\ op # "connect" => connects' = connects /\ thread' = "stop"
      /\ thread = "idle"
      /\ UNCHANGED <<state_, channel_, timers, phase, ready, restarting, pending, batch, failed>>
  BY <1>0, ClientAssumption DEF ThreadFlags, ConnectsOnce, TypeOK, loopVars
<1>2. NoAssertFails' /\ SingleAttempt' /\ ChannelInv'
  BY <1>0, <1>1, Zenon DEF NoAssertFails, SingleAttempt, ChannelInv
<1>3. StartInv'
  BY <1>0, <1>1 DEF StartInv, Unstarted, Queued, QueuedOnce
<1> QED
  BY <1>2, <1>3 DEF SoundOnce

LEMMA ThreadQueueOnce ==
  ASSUME OnceInv, ClientInv', ThreadQueue
  PROVE  SoundOnce'
<1>0. TypeOK /\ failed = "none" /\ StartInv /\ SingleAttempt /\ ChannelInv
  BY DEF OnceInv, SoundOnce, ClientInv, NoAssertFails
<1>1. /\ thread # "idle" /\ thread' = "idle"
      /\ pending' = Append(pending, IF thread = "start" THEN "startInLoop" ELSE "stopInLoop")
      /\ UNCHANGED <<state_, channel_, timers, phase, ready, restarting, batch, connects, failed>>
  BY DEF ThreadQueue, connectorVars, clientVars
<1>2. "startInLoop" \in Functors /\ "stopInLoop" \in Functors
  BY DEF Functors
<1>3. /\ Contains(pending', "startInLoop") <=> Contains(pending, "startInLoop") \/ thread = "start"
      /\ Contains(pending', "resetChannel") <=> Contains(pending, "resetChannel")
      /\ Single(pending, "startInLoop") /\ ~(thread = "start" /\ Contains(pending, "startInLoop")) =>
           Single(pending', "startInLoop")
  <2>1. CASE thread = "start"
    BY <1>0, <1>1, <1>2, <2>1, Pushes
  <2>2. CASE thread # "start"
    BY <1>0, <1>1, <1>2, <2>2, Pushes, Zenon
  <2> QED
    BY <2>1, <2>2
<1>4. NoAssertFails' /\ SingleAttempt' /\ ChannelInv'
  BY <1>0, <1>1, <1>3 DEF NoAssertFails, SingleAttempt, ChannelInv
<1>5. StartInv'
  BY <1>0, <1>1, <1>3, Zenon DEF StartInv, Unstarted, Queued, QueuedOnce
<1> QED
  BY <1>4, <1>5 DEF SoundOnce

LEMMA DisconnectOnce ==
  ASSUME OnceInv, ClientInv', Disconnect
  PROVE  SoundOnce'
<1>1. UNCHANGED <<state_, channel_, timers, phase, ready, restarting, pending, batch, thread, connects, failed>>
  BY DEF Disconnect, connectorVars, loopVars
<1> QED
  BY <1>1, QuietOnce

(***************************************************************************)
(* Theorems.                                                               *)
(***************************************************************************)

\* Every step keeps the invariant.
LEMMA ClientInductive ==
  ClientInv /\ [Next]_vars => ClientInv'
<1> SUFFICES ASSUME ClientInv, [Next]_vars
             PROVE  ClientInv'
  OBVIOUS
<1>1. CASE UNCHANGED vars
  BY <1>1, ClientStutters, Zenon
<1>2. CASE LoopThread
  BY <1>2, PollInv, TimerFiresInv, KeeperFiresInv, AttemptFailsInv, AttemptSucceedsInv, ConnectionDownInv, RestartInv,
     SwapInv, FunctorsDoneInv, RunStartInv, RunStopInv, RunResetInv, RunDestroyedInv, Zenon DEF LoopThread
<1>3. CASE Users
  BY <1>3, LoopConnectInv, LoopStopInv, DisconnectInv, DestroyInv, ThreadQueueInv, ThreadFlagsInv,
     Zenon DEF Users
<1> QED
  BY <1>1, <1>2, <1>3 DEF Next

LEMMA ClientInitially ==
  Init => ClientInv
<1> SUFFICES ASSUME Init
             PROVE  ClientInv
  OBVIOUS
<1>1. TypeOK
  <2>1. /\ connect_ \in BOOLEAN /\ clientConnect_ \in BOOLEAN /\ connection_ \in BOOLEAN
        /\ up \in BOOLEAN /\ keeper \in BOOLEAN /\ client \in BOOLEAN /\ restarting \in BOOLEAN /\ gaveUp \in BOOLEAN
    BY Zenon DEF Init
  <2> QED
    BY <2>1, ClientAssumption DEF Init, TypeOK
<1>2. LoopInv /\ AttemptInv
  BY EmptyQueue DEF Init, LoopInv, AttemptInv, Queued, QueuedOnce
<1>3. ConnectionInv /\ StopInv
  BY EmptyQueue DEF Init, ConnectionInv, StopInv, Queued, QueuedOnce
<1>4. SocketsAccounted /\ Remembered
  BY DEF Init, SocketsAccounted, Remembered
<1> QED
  BY <1>1, <1>2, <1>3, <1>4, Zenon DEF ClientInv

\* The invariant holds whatever the users call and however often.
THEOREM ClientIsSound == Spec => []ClientInv
BY ClientInitially, ClientInductive, PTL DEF Spec

\* No socket that the Connector makes is lost: each is closed, or the attempt in
\* progress or a connection has it.
THEOREM SocketsAreAccounted == Spec => []SocketsAccounted
<1>1. ClientInv => SocketsAccounted
  BY DEF ClientInv
<1> QED
  BY <1>1, ClientIsSound, PTL

\* A Connector that is to connect has an attempt, a connection, a timer or a functor
\* that goes on, unless connect(2) failed for good.
THEOREM ConnectIsNotForgotten == Spec => []NeverForgotten
<1>1. ClientInv => NeverForgotten
  <2> SUFFICES ASSUME ClientInv
               PROVE  NeverForgotten
    OBVIOUS
  <2>1. Contains(pending \o batch, "startInLoop") <=> Queued("startInLoop")
    BY ConcatQueue DEF ClientInv, TypeOK, Queued
  <2> QED
    BY <2>1 DEF ClientInv, Remembered, NeverForgotten
<1> QED
  BY <1>1, ClientIsSound, PTL

\* No attempt is made after a stop() of any thread, unless restart() is due when it is
\* called, and none is left that could call into a TcpClient that is destructed.
THEOREM NoAttemptIsLate == Spec => []NoLateAttempt
<1>1. ClientInv => NoLateAttempt
  BY DEF ClientInv, StopInv, NoLateAttempt, NoAttemptAfterStop, NoAttemptWithoutClient
<1> QED
  BY <1>1, ClientIsSound, PTL

LEMMA CallsAreQueued ==
  ASSUME TypeOK, ~Calls
  PROVE  Quiet
BY ConcatQueue DEF TypeOK, Calls, Quiet, Queued

\* Once the client is gone, nothing queues a functor of the Connector again.
LEMMA StaysQuiet ==
  ASSUME ClientInv, Quiet, ~client, [Next]_vars
  PROVE  Quiet'
<1>0. /\ TypeOK /\ channel_ # "on" /\ state_ # "kConnecting" /\ ~restarting /\ thread = "idle"
      /\ "attempt" \notin ready
  BY DEF ClientInv, AttemptInv, ConnectionInv, StopInv, Quiet
<1>1. CASE UNCHANGED <<pending, batch>>
  BY <1>1 DEF Quiet, Queued
<1>2. CASE ConnectionDown
  <2>1. CASE UNCHANGED pending
    BY <1>2, <2>1, <1>1, Zenon DEF ConnectionDown, Abort, loopVars
  <2>2. CASE pending' = Append(pending, "connectDestroyed")
    <3>1. \A fn : Contains(pending', fn) <=> Contains(pending, fn) \/ fn = "connectDestroyed"
      BY <1>0, <2>2, Pushes DEF Functors
    <3>2. UNCHANGED batch
      BY <1>2 DEF ConnectionDown, Abort, loopVars
    <3> QED
      BY <3>1, <3>2 DEF Quiet, Queued
  <2> QED
    BY <1>2, <2>1, <2>2, Zenon DEF ConnectionDown, Abort, loopVars
<1>3. CASE Swap
  BY <1>3, EmptyQueue DEF Swap, ClientInv, LoopInv, Quiet, Queued
<1>4. CASE RunDestroyed
  <2>1. \A fn : Contains(batch', fn) => Contains(batch, fn)
    BY <1>0, <1>4, Pops, Zenon DEF RunDestroyed
  <2>2. UNCHANGED pending
    BY <1>4 DEF RunDestroyed
  <2> QED
    BY <2>1, <2>2 DEF Quiet, Queued
<1>5. CASE RunStart \/ RunStop \/ RunReset
  <2>1. \E fn \in {"startInLoop", "stopInLoop", "resetChannel"} : NextFunctor(fn)
    BY <1>5, Zenon DEF RunStart, RunStop, RunReset
  <2>2. PICK fn \in {"startInLoop", "stopInLoop", "resetChannel"} : NextFunctor(fn)
    BY <2>1
  <2>3. Contains(batch, fn)
    BY <1>0, <2>2, TailQueue DEF NextFunctor, TypeOK
  <2> QED
    BY <2>3 DEF Quiet, Queued
<1>6. CASE Poll \/ TimerFires \/ KeeperFires \/ FunctorsDone \/ UNCHANGED vars
  <2>1. UNCHANGED <<pending, batch>>
    BY <1>6, Zenon DEF Poll, TimerFires, Abort, KeeperFires, FunctorsDone, vars, loopVars
  <2> QED
    BY <1>1, <2>1
<1>7. CASE AttemptFails \/ AttemptSucceeds \/ Restart
  BY <1>0, <1>7, Zenon DEF AttemptFails, AttemptSucceeds, Restart
<1>8. CASE Users
  BY <1>0, <1>8, Zenon DEF Users, LoopConnect, LoopStop, Disconnect, Destroy, ThreadQueue, ThreadFlags
<1> QED
  BY <1>2, <1>3, <1>4, <1>5, <1>6, <1>7, <1>8, Zenon DEF Next, LoopThread

\* The timer of ~TcpClient is due only when the functors of the Connector have run.
LEMMA KeeperIsDue ==
  ASSUME ConnectsOnce, ClientInv, [Next]_vars, "keeper" \in ready', "keeper" \notin ready
  PROVE  Quiet /\ ~client /\ ~client'
<1>1. Poll
  <2>1. CASE UNCHANGED vars
    BY <2>1 DEF vars, loopVars
  <2>2. CASE LoopThread
    BY <2>2, Zenon DEF LoopThread, Abort, TimerFires, KeeperFires, AttemptFails, AttemptSucceeds,
       ConnectionDown, Restart, Swap, FunctorsDone, RunStart, RunStop, RunReset, RunDestroyed, loopVars
  <2>3. CASE Users
    BY <2>3, Zenon DEF Users, LoopConnect, Abort, LoopStop, Disconnect, Destroy, ThreadQueue, ThreadFlags,
       loopVars
  <2> QED
    BY <2>1, <2>2, <2>3 DEF Next
<1>2. keeper /\ ~Calls /\ UNCHANGED client
  BY <1>1 DEF Poll, ConnectsOnce, clientVars
<1> QED
  BY <1>2, CallsAreQueued DEF ClientInv, StopInv

\* What becomes of those who hold the Connector.
LEMMA HoldersStep ==
  ASSUME ConnectsOnce, OnceInv, [Next]_vars
  PROVE  /\ client' => client
         /\ client /\ ~client' => Destroy /\ (~keeper' => connection_)
         /\ keeper /\ ~keeper' => "keeper" \in ready
<1>1. CASE UNCHANGED vars
  BY <1>1 DEF vars, connectorVars, clientVars
<1>2. CASE LoopThread
  <2>1. UNCHANGED client
    BY <1>2, Zenon DEF LoopThread, Abort, Poll, TimerFires, KeeperFires, AttemptFails, AttemptSucceeds,
       ConnectionDown, Restart, Swap, FunctorsDone, RunStart, RunStop, RunReset, RunDestroyed, clientVars
  <2>2. UNCHANGED keeper \/ KeeperFires
    BY <1>2, Zenon DEF LoopThread, Abort, Poll, TimerFires, AttemptFails, AttemptSucceeds,
       ConnectionDown, Restart, Swap, FunctorsDone, RunStart, RunStop, RunReset, RunDestroyed, connectorVars
  <2> QED
    BY <2>1, <2>2 DEF KeeperFires
<1>3. CASE Destroy
  <2>1. client /\ (keeper => keeper') /\ (keeper' \/ connection_ \/ client')
    BY <1>3, Zenon DEF Destroy, Abort, connectorVars, clientVars
  <2> QED
    BY <1>3, <2>1
<1>4. CASE LoopConnect \/ LoopStop \/ Disconnect \/ ThreadQueue \/ \E op \in ThreadOps : ThreadFlags(op)
  <2>1. UNCHANGED <<client, keeper>>
    BY <1>4, Zenon DEF LoopConnect, Abort, LoopStop, Disconnect, ThreadQueue, ThreadFlags, connectorVars, clientVars
  <2> QED
    BY <2>1
<1> QED
  BY <1>1, <1>2, <1>3, <1>4 DEF Next, Users

LEMMA HeldOnce ==
  ASSUME ConnectsOnce, OnceInv, ClientInv', [Next]_vars
  PROVE  HeldInv'
<1>0. ClientInv /\ TypeOK /\ HeldInv /\ StopInv
  BY DEF OnceInv, SoundOnce, ClientInv
<1>1. ASSUME ~client', ~keeper'
      PROVE  Quiet'
  <2>1. CASE client
    <3>1. Destroy /\ connection_
      BY <1>1, <2>1, HoldersStep
    <3>2. Quiet
      BY <1>0, <3>1, CallsAreQueued DEF Destroy, ConnectsOnce
    <3>3. UNCHANGED <<pending, batch>>
      BY <3>1, Zenon DEF Destroy, Abort, loopVars
    <3> QED
      BY <3>2, <3>3 DEF Quiet, Queued
  <2>2. CASE ~client
    <3>1. Quiet
      BY <1>0, <1>1, <2>2, HoldersStep DEF HeldInv
    <3> QED
      BY <1>0, <2>2, <3>1, StaysQuiet
  <2> QED
    BY <2>1, <2>2
<1>2. ASSUME "keeper" \in ready'
      PROVE  ~client' /\ Quiet'
  <2>1. ~client /\ Quiet
    BY <1>0, <1>2, KeeperIsDue DEF HeldInv
  <2> QED
    BY <1>0, <2>1, HoldersStep, StaysQuiet
<1> QED
  BY <1>1, <1>2 DEF HeldInv

LEMMA OnceInductive ==
  ASSUME ConnectsOnce
  PROVE  OnceInv /\ [Next]_vars => OnceInv'
<1> SUFFICES ASSUME OnceInv, [Next]_vars
             PROVE  OnceInv'
  OBVIOUS
<1>0. ClientInv'
  BY ClientInductive DEF OnceInv, SoundOnce
<1>1. SoundOnce'
  <2>1. CASE UNCHANGED vars
    BY <1>0, <2>1, QuietOnce DEF vars, connectorVars, clientVars, loopVars
  <2>2. CASE LoopThread
    BY <1>0, <2>2, PollOnce, TimerFiresOnce, KeeperFiresOnce, AttemptFailsOnce, AttemptSucceedsOnce,
       ConnectionDownOnce, RestartOnce, SwapOnce, FunctorsDoneOnce, RunStartOnce, RunStopOnce, RunResetOnce,
       RunDestroyedOnce, Zenon DEF LoopThread
  <2>3. CASE Users
    BY <1>0, <2>3, LoopConnectOnce, LoopStopOnce, DisconnectOnce, DestroyOnce, ThreadQueueOnce,
       ThreadFlagsOnce, Zenon DEF Users
  <2> QED
    BY <2>1, <2>2, <2>3 DEF Next
<1> QED
  BY <1>0, <1>1, HeldOnce DEF OnceInv

LEMMA OnceInitially ==
  Init => OnceInv
<1> SUFFICES ASSUME Init
             PROVE  OnceInv
  OBVIOUS
<1>1. NoAssertFails /\ SingleAttempt /\ ChannelInv
  BY DEF Init, NoAssertFails, SingleAttempt, ChannelInv
<1>2. StartInv /\ HeldInv
  BY EmptyQueue DEF Init, StartInv, HeldInv, Queued, QueuedOnce
<1> QED
  BY <1>1, <1>2, ClientInitially DEF OnceInv, SoundOnce

\* A program that calls connect() once, and lets the functors of the Connector run before
\* it destructs a connected client and before a timer is due, fails no assertion, and
\* calls no Connector that is gone.
THEOREM ConnectorNeverAsserts ==
  ASSUME ConnectsOnce
  PROVE  Spec => []NoAssertFails
<1>1. OnceInv => NoAssertFails
  BY DEF OnceInv, SoundOnce
<1> QED
  BY <1>1, OnceInitially, OnceInductive, PTL DEF Spec

\* Such a program has one attempt at a time, through every retry and restart.
THEOREM OneAttemptAtATime ==
  ASSUME ConnectsOnce
  PROVE  Spec => []SingleAttempt
<1>1. OnceInv => SingleAttempt
  BY DEF OnceInv, SoundOnce
<1> QED
  BY <1>1, OnceInitially, OnceInductive, PTL DEF Spec

=============================================================================
