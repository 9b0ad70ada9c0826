------------------------- MODULE EventLoopThreadPool -------------------------
(***************************************************************************)
(* net/event_loop_threadPool.{h,cc} with the threads it is made of:        *)
(* net/event_loop_thread.{h,cc} and the start and join of base/thread.cc   *)
(* with its CountDownLatch.  The owner starts the threads one after the    *)
(* other, hands out their loops in turn and at last destroys them; each    *)
(* thread has an EventLoop on its stack.                                   *)
(*                                                                         *)
(* An EventLoop is what EventLoop.tla shows of it: loop() stores false to  *)
(* quit_ on entry and returns some time after quit_ is true.               *)
(***************************************************************************)
EXTENDS Integers, Sequences, FiniteSets

CONSTANTS
  numThreads_,   \* setThreadNum()
  InitQuits,     \* the init callback may queue EventLoop::quit
  CreateFails,   \* pthread_create() may fail
  MaxTurns       \* bound: calls of getNextLoop()

ASSUME NumThreadsAssumption ==
  /\ numThreads_ \in Nat /\ MaxTurns \in Nat
  /\ InitQuits \in BOOLEAN /\ CreateFails \in BOOLEAN

Threads == 1..numThreads_

VARIABLES
  owner,       \* where the owner is, see OwnerPC
  current,     \* the thread it is starting or destroying
  started_,    \* of each Thread
  joined_,
  latch_,      \* count of each Thread's CountDownLatch
  io,          \* where each thread is, see ThreadPC
  loop_,       \* EventLoopThread::loop_ is not NULL
  quit_,       \* EventLoop::quit_
  quitQueued,  \* a functor that calls quit() waits in the loop
  loops_,      \* the pool's loops; 0: NULL
  next_,
  turns,       \* history: the loops that getNextLoop() returned
  told         \* history: the loops on which somebody called quit(), or queued the call

threadVars == <<started_, joined_, latch_>>
poolVars == <<loops_, next_, turns, told>>
loopPoolVars == <<owner, current, threadVars, io, loop_, quit_, quitQueued, poolVars>>

\* create: start() is about to make a thread; latch: in Thread::start(); lock:
\* about to lock mutex_ in startLoop(); wait: in cond_.wait(); return: past the
\* loop; started: between start() and the destructor; dtor: entering
\* ~EventLoopThread(); quit: loop_ was not NULL; wakeup: quit() has stored to quit_;
\* join; gone: all destroyed.
OwnerPC ==
  {"create", "latch", "lock", "wait", "return", "started", "dtor", "quit", "wakeup", "join", "gone"}

\* none: not created; created; func: in threadFunc(); publish: the callback
\* returned; enter: loop_ is set; loop: in loop(); left: loop() returned; exit:
\* loop_ is NULL again; finished: the EventLoop is destructed.
ThreadPC == {"none", "created", "func", "publish", "enter", "loop", "left", "exit", "finished"}

LoopPoolTypeOK ==
  /\ owner \in OwnerPC
  /\ current \in Threads \cup {1}
  /\ started_ \in [Threads -> BOOLEAN] /\ joined_ \in [Threads -> BOOLEAN]
  /\ latch_ \in [Threads -> 0..1]
  /\ io \in [Threads -> ThreadPC]
  /\ loop_ \in [Threads -> BOOLEAN] /\ quit_ \in [Threads -> BOOLEAN]
  /\ quitQueued \in [Threads -> BOOLEAN]
  /\ loops_ \in Seq(0..numThreads_) /\ next_ \in 0..numThreads_
  /\ turns \in Seq(0..numThreads_) /\ told \subseteq Threads

LoopPoolInit ==
  /\ owner = IF numThreads_ = 0 THEN "started" ELSE "create"
  /\ current = 1
  /\ started_ = [i \in Threads |-> FALSE] /\ joined_ = [i \in Threads |-> FALSE]
  /\ latch_ = [i \in Threads |-> 1]
  /\ io = [i \in Threads |-> "none"]
  /\ loop_ = [i \in Threads |-> FALSE]
  /\ quit_ = [i \in Threads |-> FALSE] /\ quitQueued = [i \in Threads |-> FALSE]
  /\ loops_ = <<>> /\ next_ = 0 /\ turns = <<>> /\ told = {}

(***************************************************************************)
(* The owner in EventLoopThreadPool::start().                              *)
(***************************************************************************)

\* Thread::start() up to latch_.wait().
StartThread ==
  /\ owner = "create"
  /\ started_' = [started_ EXCEPT ![current] = TRUE]
  /\ io' = [io EXCEPT ![current] = "created"]
  /\ owner' = "latch"
  /\ UNCHANGED <<current, joined_, latch_, loop_, quit_, quitQueued, poolVars>>

\* pthread_create() fails: nobody is told, and startLoop() goes on to wait.
StartFails ==
  /\ owner = "create" /\ CreateFails
  /\ owner' = "lock"
  /\ UNCHANGED <<current, threadVars, io, loop_, quit_, quitQueued, poolVars>>

\* CountDownLatch::wait().
LatchOpens ==
  /\ owner = "latch" /\ latch_[current] = 0
  /\ owner' = "lock"
  /\ UNCHANGED <<current, threadVars, io, loop_, quit_, quitQueued, poolVars>>

\* Mutant: startLoop() waits for the notification without looking.
WaitFirst ==
  /\ owner = "lock"
  /\ owner' = "wait"
  /\ UNCHANGED <<current, threadVars, io, loop_, quit_, quitQueued, poolVars>>

\* startLoop() holds mutex_ and tests loop_; cond_.wait() gives the mutex up.
TestLoop ==
  /\ owner = "lock"
  /\ owner' = IF loop_[current] THEN "return" ELSE "wait"
  /\ UNCHANGED <<current, threadVars, io, loop_, quit_, quitQueued, poolVars>>

\* pthread_cond_wait() may return without a notification.
StartWakesSpuriously ==
  /\ owner = "wait"
  /\ owner' = "lock"
  /\ UNCHANGED <<current, threadVars, io, loop_, quit_, quitQueued, poolVars>>

\* startLoop() reads loop_ once more, without mutex_, and start() goes on.
ReturnLoop ==
  /\ owner = "return"
  /\ loops_' = Append(loops_, IF loop_[current] THEN current ELSE 0)
  /\ IF current = numThreads_ THEN owner' = "started" /\ current' = 1
     ELSE owner' = "create" /\ current' = current + 1
  /\ UNCHANGED <<threadVars, io, loop_, quit_, quitQueued, next_, turns, told>>

(***************************************************************************)
(* The owner between start() and the destructor.                           *)
(***************************************************************************)

\* getNextLoop()'s ++next_, back to 0 behind the last loop.
NextAfter(n) == IF n >= Len(loops_) THEN 0 ELSE n

\* getNextLoop(): 0 is the base loop.
GetNextLoop ==
  /\ owner = "started"
  /\ Len(turns) < MaxTurns
  /\ IF loops_ = <<>> THEN turns' = Append(turns, 0) /\ UNCHANGED next_
     ELSE turns' = Append(turns, loops_[next_ + 1]) /\ next_' = NextAfter(next_ + 1)
  /\ UNCHANGED <<owner, current, threadVars, io, loop_, quit_, quitQueued, loops_, told>>

\* runInLoop(quit) by a user that got the loop from getNextLoop(), while it runs.
UserQuits(i) ==
  /\ owner = "started"
  /\ i \in {turns[k] : k \in 1..Len(turns)} \ {0}
  /\ io[i] \in {"enter", "loop"}
  /\ quitQueued' = [quitQueued EXCEPT ![i] = TRUE] /\ told' = told \cup {i}
  /\ UNCHANGED <<owner, current, threadVars, io, loop_, quit_, loops_, next_, turns>>

(***************************************************************************)
(* ~EventLoopThread() for each of threads_.                                *)
(***************************************************************************)

\* The pool is destroyed.
DestroyPool ==
  /\ owner = "started"
  /\ owner' = IF numThreads_ = 0 THEN "gone" ELSE "dtor"
  /\ UNCHANGED <<current, threadVars, io, loop_, quit_, quitQueued, poolVars>>

\* The next thread, or the end.
NextThread ==
  IF current = numThreads_ THEN owner' = "gone" /\ UNCHANGED current
  ELSE owner' = "dtor" /\ current' = current + 1

\* The unlocked test of loop_; without a loop the thread is detached.
DtorTestsLoop ==
  /\ owner = "dtor"
  /\ IF loop_[current] THEN owner' = "quit" /\ UNCHANGED current ELSE NextThread
  /\ UNCHANGED <<threadVars, io, loop_, quit_, quitQueued, poolVars>>

\* loop_->quit() stores to quit_, of an object that may be gone already.
DtorQuits ==
  /\ owner = "quit"
  /\ quit_' = [quit_ EXCEPT ![current] = TRUE] /\ told' = told \cup {current}
  /\ owner' = "wakeup"
  /\ UNCHANGED <<current, threadVars, io, loop_, quitQueued, loops_, next_, turns>>

\* And wakes the loop up, which may have ended in between.
DtorWakes ==
  /\ owner = "wakeup"
  /\ owner' = "join"
  /\ UNCHANGED <<current, threadVars, io, loop_, quit_, quitQueued, poolVars>>

\* Thread::join() returns.
DtorJoins ==
  /\ owner = "join" /\ io[current] = "finished"
  /\ joined_' = [joined_ EXCEPT ![current] = TRUE]
  /\ NextThread
  /\ UNCHANGED <<started_, latch_, io, loop_, quit_, quitQueued, poolVars>>

(***************************************************************************)
(* A thread.                                                               *)
(***************************************************************************)

\* ThreadData::runInThread() up to func_().
CountDown(i) ==
  /\ io[i] = "created"
  /\ latch_' = [latch_ EXCEPT ![i] = @ - 1]
  /\ io' = [io EXCEPT ![i] = "func"]
  /\ UNCHANGED <<owner, current, started_, joined_, loop_, quit_, quitQueued, poolVars>>

\* EventLoop loop; callback_(&loop).
InitCallback(i) ==
  /\ io[i] = "func"
  /\ \E q \in {FALSE, InitQuits} :
       /\ quitQueued' = [quitQueued EXCEPT ![i] = q]
       /\ told' = IF q THEN told \cup {i} ELSE told
  /\ io' = [io EXCEPT ![i] = "publish"]
  /\ UNCHANGED <<owner, current, threadVars, loop_, quit_, loops_, next_, turns>>

\* loop_ = &loop; cond_.notify(), under mutex_.
Publish(i) ==
  /\ io[i] = "publish"
  /\ loop_' = [loop_ EXCEPT ![i] = TRUE]
  /\ owner' = IF owner = "wait" /\ current = i THEN "lock" ELSE owner
  /\ io' = [io EXCEPT ![i] = "enter"]
  /\ UNCHANGED <<current, threadVars, quit_, quitQueued, poolVars>>

\* loop() begins: quit_ = false.
EnterLoop(i) ==
  /\ io[i] = "enter"
  /\ quit_' = [quit_ EXCEPT ![i] = FALSE]
  /\ io' = [io EXCEPT ![i] = "loop"]
  /\ UNCHANGED <<owner, current, threadVars, loop_, quitQueued, poolVars>>

\* A queued functor calls quit().
RunQuit(i) ==
  /\ io[i] = "loop" /\ quitQueued[i]
  /\ quitQueued' = [quitQueued EXCEPT ![i] = FALSE]
  /\ quit_' = [quit_ EXCEPT ![i] = TRUE]
  /\ UNCHANGED <<owner, current, threadVars, io, loop_, poolVars>>

\* loop() returns.
LeaveLoop(i) ==
  /\ io[i] = "loop" /\ quit_[i]
  /\ io' = [io EXCEPT ![i] = "left"]
  /\ UNCHANGED <<owner, current, threadVars, loop_, quit_, quitQueued, poolVars>>

\* Mutant: loop_ is left pointing into the stack frame.
KeepLoop(i) ==
  /\ io[i] = "left"
  /\ io' = [io EXCEPT ![i] = "exit"]
  /\ UNCHANGED <<owner, current, threadVars, loop_, quit_, quitQueued, poolVars>>

\* loop_ = NULL, without mutex_.
ClearLoop(i) ==
  /\ io[i] = "left"
  /\ loop_' = [loop_ EXCEPT ![i] = FALSE]
  /\ io' = [io EXCEPT ![i] = "exit"]
  /\ UNCHANGED <<owner, current, threadVars, quit_, quitQueued, poolVars>>

\* threadFunc() returns, destructs the EventLoop, and the thread ends.
Finish(i) ==
  /\ io[i] = "exit"
  /\ io' = [io EXCEPT ![i] = "finished"]
  /\ UNCHANGED <<owner, current, threadVars, loop_, quit_, quitQueued, poolVars>>

Thread(i) ==
  \/ CountDown(i) \/ InitCallback(i) \/ Publish(i) \/ EnterLoop(i) \/ RunQuit(i) \/ LeaveLoop(i)
  \/ ClearLoop(i) \/ Finish(i)

Start == StartThread \/ StartFails \/ LatchOpens \/ TestLoop \/ ReturnLoop

Destruct == DtorTestsLoop \/ DtorQuits \/ DtorWakes \/ DtorJoins

LoopPoolNext ==
  \/ Start \/ StartWakesSpuriously
  \/ GetNextLoop \/ DestroyPool \/ \E i \in Threads : UserQuits(i)
  \/ Destruct
  \/ \E i \in Threads : Thread(i)

LoopPoolSpec == LoopPoolInit /\ [][LoopPoolNext]_loopPoolVars

\* Threads run, the owner runs; users need not quit and nobody wakes up for
\* nothing.
LoopPoolFairSpec ==
  /\ LoopPoolSpec
  /\ WF_loopPoolVars(Start) /\ WF_loopPoolVars(Destruct)
  /\ \A i \in Threads : WF_loopPoolVars(Thread(i))

(***************************************************************************)
(* Properties.                                                             *)
(***************************************************************************)

\* The loops that start() collected are the threads' loops in order: startLoop() never
\* returns NULL.
StartLoopReturnsLoop == \A k \in 1..Len(loops_) : loops_[k] = k

\* EventLoopThread's promise to itself: loop_ points to a live EventLoop whenever it
\* is not NULL, although the EventLoop is on another thread's stack.
LoopPointerLive == \A i \in Threads : loop_[i] => io[i] \in {"enter", "loop", "left"}

\* Pointers to the EventLoops on the threads' stacks.  A loop_ that is not NULL points
\* to a live one.  The pool's loops_, which getNextLoop() hands out and nobody ever
\* clears, has the threads' loops in order, and a loop that runs or is about to, unless
\* quit() was called on it: then the loop may have ended, or may have ended so early
\* that startLoop(), which reads loop_ again after the unlock, returned NULL.
PointersToLoops ==
  /\ LoopPointerLive
  /\ \A k \in 1..Len(loops_) :
       \/ loops_[k] = k /\ io[k] \in {"enter", "loop"}
       \/ loops_[k] \in {0, k} /\ k \in told

\* What the comment in ~EventLoopThread() admits may fail: the quit() that it calls
\* finds the EventLoop, from its store to its wakeup().
QuitFindsLoop == owner \in {"quit", "wakeup"} => io[current] \in {"enter", "loop", "left"}

\* When the pool is gone no thread runs in a loop any more: each was joined, or
\* its loop had ended before.
NoLoopOutlivesPool ==
  owner = "gone" => \A i \in Threads : io[i] \in {"exit", "finished"}

\* getNextLoop() takes the loops in turn: after any number of calls no loop was
\* returned two times more than another.
RoundRobin ==
  \A i, j \in 1..Len(loops_) :
    Cardinality({k \in 1..Len(turns) : turns[k] = loops_[i]})
      <= Cardinality({k \in 1..Len(turns) : turns[k] = loops_[j]}) + 1

\* start() returns: neither the latch nor the condition variable loses a signal, and
\* the only threads it can wait for in vain are one that pthread_create() did not make
\* and one that has left its loop again, as its init callback told it to.
StartReturns ==
  (owner = "create") ~>
    \/ owner = "started"
    \/ owner \in {"lock", "wait"} /\ (~started_[current] \/ io[current] \in {"exit", "finished"})

\* ~EventLoopThread() quits the loop and waits for the thread: it returns.
DestructorReturns == (owner = "dtor") ~> (owner = "gone")
=============================================================================
