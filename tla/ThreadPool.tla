------------------------------ MODULE ThreadPool ------------------------------
(***************************************************************************)
(* base/thread_pool.cc: workers that take tasks from a queue, callers of   *)
(* run(), and one call of stop(), by a thread of its own or by ~ThreadPool.*)
(*                                                                         *)
(* As in BoundedBlockingQueue, a stretch under mutex_ is one step.  The    *)
(* test of runInThread()'s while loop reads running_ without the mutex and *)
(* is a step of its own.  Tasks are numbered in the order in which run()   *)
(* accepts them.                                                           *)
(***************************************************************************)
EXTENDS Integers, Sequences, FiniteSets

CONSTANTS
  Workers,        \* threads_
  Callers,        \* other threads, which call run()
  TasksCall,      \* may a task call run() too
  Stops,          \* is stop() ever called
  maxQueueSize_,  \* 0: unbounded
  MaxTasks        \* bound: calls of run()

ASSUME PoolAssumption ==
  /\ IsFiniteSet(Workers) /\ IsFiniteSet(Callers) /\ Workers \cap Callers = {}
  /\ TasksCall \in BOOLEAN /\ Stops \in BOOLEAN
  /\ maxQueueSize_ \in Nat /\ MaxTasks \in Nat

VARIABLES
  running_, queue_,
  pc,          \* worker: "test" the loop condition, "take", run a "task", "exit"
  onNotEmpty,  \* workers in notEmpty_.wait()
  onNotFull,   \* threads in notFull_.wait()
  woken,       \* threads that left a wait() and are about to test again
  stop,        \* "no", "join", "done"
  calls,       \* calls of run() begun
  started      \* history: tasks run, in the order they were taken

taskPoolVars == <<running_, queue_, pc, onNotEmpty, onNotFull, woken, stop, calls, started>>

PoolUsers == Callers \cup (IF TasksCall THEN Workers ELSE {})

TaskPoolTypeOK ==
  /\ running_ \in BOOLEAN /\ queue_ \in Seq(1..MaxTasks)
  /\ pc \in [Workers -> {"test", "take", "task", "exit"}]
  /\ onNotEmpty \subseteq {w \in Workers : pc[w] = "take"}
  /\ onNotFull \subseteq PoolUsers
  /\ woken \subseteq (PoolUsers \cup Workers) \ (onNotEmpty \cup onNotFull)
  /\ stop \in {"no", "join", "done"}
  /\ calls \in 0..MaxTasks /\ started \in Seq(1..MaxTasks)

\* After start(): the workers exist, and may not have run at all yet.
TaskPoolInit ==
  /\ running_ = TRUE /\ queue_ = <<>>
  /\ pc = [w \in Workers |-> "test"]
  /\ onNotEmpty = {} /\ onNotFull = {} /\ woken = {}
  /\ stop = "no" /\ calls = 0 /\ started = <<>>

isFull == maxQueueSize_ > 0 /\ Len(queue_) >= maxQueueSize_

InTask == {w \in Workers : pc[w] = "task"}
InUserCode(t) == t \in Workers => t \in InTask

\* t is at the test of run()'s while loop.
AtRun(t) ==
  /\ InUserCode(t) /\ t \notin onNotFull
  /\ t \in woken \/ calls < MaxTasks
  /\ calls' = IF t \in woken THEN calls ELSE calls + 1

\* notify(): one thread that waits is woken; t itself goes on.
Notified(waiting, rest, t) ==
  IF waiting = {}
  THEN rest = waiting /\ woken' = woken \ {t}
  ELSE \E u \in waiting : rest = waiting \ {u} /\ woken' = (woken \ {t}) \cup {u}

RunWaits(t) ==
  /\ AtRun(t) /\ Workers # {} /\ isFull
  /\ onNotFull' = onNotFull \cup {t} /\ woken' = woken \ {t}
  /\ UNCHANGED <<running_, queue_, pc, onNotEmpty, stop, started>>

\* run() accepts its task; without workers it runs it at once.
Run(t) ==
  LET task == Len(started) + Len(queue_) + 1 IN
  /\ AtRun(t) /\ ~(Workers # {} /\ isFull)
  /\ IF Workers = {}
     THEN started' = Append(started, task) /\ queue_' = queue_
     ELSE queue_' = Append(queue_, task) /\ started' = started
  /\ Notified(onNotEmpty, onNotEmpty', t)
  /\ UNCHANGED <<running_, pc, onNotFull, stop>>

\* Mutant: the loop of runInThread() has no condition.
TestNothing(w) ==
  /\ pc[w] = "test"
  /\ pc' = [pc EXCEPT ![w] = "take"]
  /\ UNCHANGED <<running_, queue_, onNotEmpty, onNotFull, woken, stop, calls, started>>

\* runInThread() tests running_.
TestRunning(w) ==
  /\ pc[w] = "test"
  /\ pc' = [pc EXCEPT ![w] = IF running_ THEN "take" ELSE "exit"]
  /\ UNCHANGED <<running_, queue_, onNotEmpty, onNotFull, woken, stop, calls, started>>

\* The test of take()'s while loop.
NoTask == queue_ = <<>> /\ running_

AtTake(w) == pc[w] = "take" /\ w \notin onNotEmpty

TakeWaits(w) ==
  /\ AtTake(w) /\ NoTask
  /\ onNotEmpty' = onNotEmpty \cup {w} /\ woken' = woken \ {w}
  /\ UNCHANGED <<running_, queue_, pc, onNotFull, stop, calls, started>>

\* take() returns the front task, and runInThread() calls it.
TakeTask(w) ==
  /\ AtTake(w) /\ queue_ # <<>>
  /\ started' = Append(started, Head(queue_)) /\ queue_' = Tail(queue_)
  /\ pc' = [pc EXCEPT ![w] = "task"]
  /\ IF maxQueueSize_ > 0
     THEN Notified(onNotFull, onNotFull', w)
     ELSE onNotFull' = onNotFull /\ woken' = woken \ {w}
  /\ UNCHANGED <<running_, onNotEmpty, stop, calls>>

\* take() returns an empty task: the pool was stopped.
TakeNothing(w) ==
  /\ AtTake(w) /\ queue_ = <<>> /\ ~NoTask
  /\ pc' = [pc EXCEPT ![w] = "test"] /\ woken' = woken \ {w}
  /\ UNCHANGED <<running_, queue_, onNotEmpty, onNotFull, stop, calls, started>>

\* Mutant: a worker leaves after its task.
FinishAndExit(w) ==
  /\ pc[w] = "task" /\ w \notin onNotFull \cup woken
  /\ pc' = [pc EXCEPT ![w] = "exit"]
  /\ UNCHANGED <<running_, queue_, onNotEmpty, onNotFull, woken, stop, calls, started>>

FinishTask(w) ==
  /\ pc[w] = "task" /\ w \notin onNotFull \cup woken
  /\ pc' = [pc EXCEPT ![w] = "test"]
  /\ UNCHANGED <<running_, queue_, onNotEmpty, onNotFull, woken, stop, calls, started>>

\* Mutant: stop() notifies one worker.
StopOne ==
  /\ Stops /\ stop = "no"
  /\ running_' = FALSE /\ stop' = "join"
  /\ Notified(onNotEmpty, onNotEmpty', 0)
  /\ UNCHANGED <<queue_, pc, onNotFull, calls, started>>

\* stop() clears running_ and wakes every worker, in one critical section.
Stop ==
  /\ Stops /\ stop = "no"
  /\ running_' = FALSE /\ stop' = "join"
  /\ woken' = woken \cup onNotEmpty /\ onNotEmpty' = {}
  /\ UNCHANGED <<queue_, pc, onNotFull, calls, started>>

\* Every join() has returned.
Joined ==
  /\ stop = "join" /\ \A w \in Workers : pc[w] = "exit"
  /\ stop' = "done"
  /\ UNCHANGED <<running_, queue_, pc, onNotEmpty, onNotFull, woken, calls, started>>

SpuriousWakeup(t) ==
  /\ t \in onNotEmpty \cup onNotFull
  /\ onNotEmpty' = onNotEmpty \ {t} /\ onNotFull' = onNotFull \ {t}
  /\ woken' = woken \cup {t}
  /\ UNCHANGED <<running_, queue_, pc, stop, calls, started>>

WorkerStep(w) ==
  TestRunning(w) \/ TakeWaits(w) \/ TakeTask(w) \/ TakeNothing(w) \/ FinishTask(w)

TaskPoolNext ==
  \/ \E t \in PoolUsers : RunWaits(t) \/ Run(t)
  \/ \E w \in Workers : WorkerStep(w)
  \/ \E t \in PoolUsers \cup Workers : SpuriousWakeup(t)
  \/ Stop \/ Joined

TaskPoolSpec == TaskPoolInit /\ [][TaskPoolNext]_taskPoolVars

\* Every thread that can go on does: workers are scheduled, tasks return, a woken
\* caller gets the mutex, stop() sees the last thread exit.
TaskPoolFairSpec ==
  /\ TaskPoolSpec /\ WF_taskPoolVars(Joined)
  /\ \A w \in Workers : WF_taskPoolVars(WorkerStep(w))
  /\ \A t \in PoolUsers : WF_taskPoolVars(t \in woken /\ (RunWaits(t) \/ Run(t)))

(***************************************************************************)
(* Properties.                                                             *)
(***************************************************************************)

\* Workers take the tasks in the order in which run() accepted them, each once,
\* and the queue keeps to maxQueueSize_.
TakenInOrder ==
  /\ started \o queue_ = [i \in 1..(Len(started) + Len(queue_)) |-> i]
  /\ maxQueueSize_ > 0 => Len(queue_) <= maxQueueSize_

\* While a worker waits in take() the pool runs, and there are as many workers
\* already woken as there are tasks: neither run()'s notify() nor stop()'s
\* notifyAll() is lost.
NoWorkerForgotten ==
  onNotEmpty # {} =>
    running_ /\ Len(queue_) <= Cardinality({w \in woken \cap Workers : pc[w] = "take"})

\* While a thread waits in run(), there are as many such threads already woken as
\* there are free places.
NoCallerForgotten ==
  onNotFull # {} =>
    maxQueueSize_ - Len(queue_) <=
      Cardinality({t \in woken \cap PoolUsers : InUserCode(t)})

\* No notification is lost on either condition variable.
NoWaiterForgotten == NoWorkerForgotten /\ NoCallerForgotten

\* Workers whose task waits in run() for room in the queue.
InRun == InTask \cap (onNotFull \cup woken)

\* stop() returns: it never waits for a sleeping worker, and what it can wait for in
\* vain is only a task that waits in run() for ever.
StopReturns == []<>(InRun = {}) => (stop = "join" ~> stop = "done")

\* Calls of run() that added their task to the queue.
Accepted == Len(started) + Len(queue_)

\* Unless the pool is stopped or all the workers end up in tasks that themselves wait
\* in run(), a task that run() added to the queue is run by a worker, and while calls
\* of run() wait for room one call after the other gets it.  Which one is open: the
\* mutex may go to a call that begins before it goes to the caller that was notified,
\* so that a caller can wait for ever while others never cease to call.
WorkGoesOn ==
  []<>(~(Workers \subseteq InRun)) =>
    /\ \A i \in 1..MaxTasks :
         (\E k \in DOMAIN queue_ : queue_[k] = i)
           ~> (~running_ \/ \E k \in DOMAIN started : started[k] = i)
    /\ \A n \in 0..MaxTasks :
         (onNotFull # {} /\ Accepted = n) ~> (~running_ \/ Accepted > n)
==============================================================================
