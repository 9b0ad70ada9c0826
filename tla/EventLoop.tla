------------------------------ MODULE EventLoop ------------------------------
(***************************************************************************)
(* The reactor of net/event_loop.{h,cc}: one thread, the owner, runs       *)
(* loop(); other threads hand it functors with queueInLoop() and stop it   *)
(* with quit().  Both publish first (under mutex_, or by a plain store of  *)
(* quit_) and only then write to the eventfd that ends a blocking poll, so *)
(* a caller is modelled with a program counter between the two.            *)
(*                                                                         *)
(* Functors are numbered in the order in which push_back stored them; what *)
(* a functor or a channel callback does is any sequence of calls into the  *)
(* loop, until it returns.  The eventfd is abstracted to readable or not:  *)
(* handleRead() throws the counter away.                                   *)
(***************************************************************************)
EXTENDS Integers, Sequences, Functions

CONSTANTS
  Callers,      \* threads other than the one that owns the loop
  Channels,     \* channels registered with the poller besides wakeupChannel_
  WakeupChannel,
  MaxFunctors   \* bound: functors queued in one behaviour

ASSUME WakeupAssumption == WakeupChannel \notin Channels
ASSUME MaxFunctorsAssumption == MaxFunctors \in Nat

VARIABLES
  pc,                      \* where the owner is, see OwnerPC
  looping_, quit_, callingPendingFunctors_,
  pendingFunctors_,        \* guarded by mutex_
  functors,                \* doPendingFunctors' batch, not yet run
  activeChannels_,         \* returned by poll, not yet handled
  wakeupFd_,               \* the eventfd is readable
  ready,                   \* user channels with an event
  caller,                  \* where each other thread is, see CallerPC
  ran,                     \* history: functors in the order they ran
  queued,                  \* history: number of functors pushed
  unwoken                  \* history: functors the owner pushed where nothing follows

loopVars == <<pc, looping_, quit_, callingPendingFunctors_>>
queueVars == <<pendingFunctors_, functors, ran, queued, unwoken>>
fdVars == <<wakeupFd_, ready, activeChannels_>>
vars == <<loopVars, queueVars, fdVars, caller>>

\* out: not in loop(); while: testing quit_; poll: inside epoll_wait;
\* dispatch: between two handleEvent() calls; channel: in a user channel's
\* callback; swap: entering doPendingFunctors(); functors: between two
\* functors; functor: inside one; release: doPendingFunctors() returns and
\* destructs the functors of the batch, and what they captured.
OwnerPC == {"out", "while", "poll", "dispatch", "channel", "swap", "functors", "functor", "release"}

\* pushed: queueInLoop() released mutex_, wakeup() is next; quitting: quit()
\* stored quit_, wakeup() is next.
CallerPC == {"idle", "pushed", "quitting"}

TypeOK ==
  /\ pc \in OwnerPC
  /\ looping_ \in BOOLEAN
  /\ quit_ \in BOOLEAN
  /\ callingPendingFunctors_ \in BOOLEAN
  /\ pendingFunctors_ \in Seq(Nat)
  /\ functors \in Seq(Nat)
  /\ activeChannels_ \subseteq Channels \cup {WakeupChannel}
  /\ wakeupFd_ \in BOOLEAN
  /\ ready \subseteq Channels
  /\ caller \in [Callers -> CallerPC]
  /\ ran \in Seq(Nat)
  /\ queued \in 0..MaxFunctors
  /\ unwoken \subseteq Nat

Init ==
  /\ pc = "out"
  /\ looping_ = FALSE
  /\ quit_ = FALSE
  /\ callingPendingFunctors_ = FALSE
  /\ pendingFunctors_ = <<>>
  /\ functors = <<>>
  /\ activeChannels_ = {}
  /\ wakeupFd_ = FALSE
  /\ ready = {}
  /\ caller = [t \in Callers |-> "idle"]
  /\ ran = <<>>
  /\ queued = 0
  /\ unwoken = {}

(***************************************************************************)
(* Calls from the other threads.                                           *)
(***************************************************************************)

\* The critical section of queueInLoop().
PushBack ==
  /\ queued < MaxFunctors
  /\ queued' = queued + 1
  /\ pendingFunctors_' = Append(pendingFunctors_, queued + 1)

\* queueInLoop() by another thread, and runInLoop(), which forwards to it
\* there: up to the end of the critical section.
QueueInLoop(t) ==
  /\ caller[t] = "idle"
  /\ PushBack
  /\ caller' = [caller EXCEPT ![t] = "pushed"]
  /\ UNCHANGED <<loopVars, functors, ran, unwoken, fdVars>>

\* Mutant: quit() does not wake the loop.
QuitNoWakeup(t) ==
  /\ caller[t] = "idle"
  /\ quit_' = TRUE
  /\ UNCHANGED <<pc, looping_, callingPendingFunctors_, queueVars, fdVars, caller>>

\* quit() by another thread, up to the store.
Quit(t) ==
  /\ caller[t] = "idle"
  /\ quit_' = TRUE
  /\ caller' = [caller EXCEPT ![t] = "quitting"]
  /\ UNCHANGED <<pc, looping_, callingPendingFunctors_, queueVars, fdVars>>

\* wakeup(), the last step of queueInLoop() and quit() in another thread.
Wakeup(t) ==
  /\ caller[t] \in {"pushed", "quitting"}
  /\ wakeupFd_' = TRUE
  /\ caller' = [caller EXCEPT ![t] = "idle"]
  /\ UNCHANGED <<loopVars, queueVars, ready, activeChannels_>>

(***************************************************************************)
(* Calls from the owner: before or after loop(), from a channel callback,  *)
(* from a functor, or from the destructor of what a functor captured.      *)
(* runInLoop() runs its argument on the spot there, which is the same as   *)
(* that argument's own calls.                                              *)
(***************************************************************************)

InUserCode == pc \in {"out", "channel", "functor", "release"}

\* Where queueInLoop() of the owner neither wakes the loop nor has
\* doPendingFunctors() after it: outside loop(), and in a destructor that runs
\* after callingPendingFunctors_ = false.
NothingFollows == pc \in {"out", "release"}

\* Mutant: queueInLoop() wakes only for another thread.
OwnerQueueInLoopNoWakeup ==
  /\ InUserCode
  /\ PushBack
  /\ unwoken' = IF NothingFollows THEN unwoken \cup {queued + 1} ELSE unwoken
  /\ UNCHANGED <<loopVars, functors, ran, fdVars, caller>>

\* No other thread reads the eventfd, so the push and the wakeup are one step.
OwnerQueueInLoop ==
  /\ InUserCode
  /\ PushBack
  /\ wakeupFd_' = (wakeupFd_ \/ callingPendingFunctors_)
  /\ unwoken' = IF NothingFollows THEN unwoken \cup {queued + 1} ELSE unwoken
  /\ UNCHANGED <<loopVars, functors, ran, ready, activeChannels_, caller>>

OwnerQuit ==
  /\ InUserCode
  /\ quit_' = TRUE
  /\ UNCHANGED <<pc, looping_, callingPendingFunctors_, queueVars, fdVars, caller>>

(***************************************************************************)
(* loop() itself.                                                          *)
(***************************************************************************)

\* Mutant: loop() does not set looping_.
EnterLoopNoFlag ==
  /\ pc = "out"
  /\ pc' = "while"
  /\ quit_' = FALSE
  /\ UNCHANGED <<looping_, callingPendingFunctors_, queueVars, fdVars, caller>>

\* loop() up to the while: a quit() from before this line is forgotten.
EnterLoop ==
  /\ pc = "out"
  /\ pc' = "while"
  /\ looping_' = TRUE
  /\ quit_' = FALSE
  /\ UNCHANGED <<callingPendingFunctors_, queueVars, fdVars, caller>>

\* Mutant: the loop waits until the queue is empty before it polls.
WhileQueueEmpty ==
  /\ pc = "while" /\ pendingFunctors_ = <<>>
  /\ pc' = IF quit_ THEN "out" ELSE "poll"
  /\ looping_' = (looping_ /\ ~quit_)
  /\ UNCHANGED <<quit_, callingPendingFunctors_, queueVars, fdVars, caller>>

\* The while condition; loop() returns when quit_ is set.
While ==
  /\ pc = "while"
  /\ pc' = IF quit_ THEN "out" ELSE "poll"
  /\ looping_' = (looping_ /\ ~quit_)
  /\ UNCHANGED <<quit_, callingPendingFunctors_, queueVars, fdVars, caller>>

\* What epoll_wait() may report.
ReadyChannels == ready \cup (IF wakeupFd_ THEN {WakeupChannel} ELSE {})

\* poll() returns some of what is ready: the kernel cuts the list at the size
\* of the poller's array.
PollReady ==
  /\ pc = "poll"
  /\ \E some \in (SUBSET ReadyChannels) \ {{}} : activeChannels_' = some
  /\ pc' = "dispatch"
  /\ UNCHANGED <<looping_, quit_, callingPendingFunctors_, queueVars, wakeupFd_, ready, caller>>

\* poll() returns after kPollTimeMs, or was interrupted, with nothing.
PollTimeout ==
  /\ pc = "poll"
  /\ activeChannels_' = {}
  /\ pc' = "dispatch"
  /\ UNCHANGED <<looping_, quit_, callingPendingFunctors_, queueVars, wakeupFd_, ready, caller>>

\* wakeupChannel_'s turn: handleRead() reads the eventfd, which empties it.
HandleRead ==
  /\ pc = "dispatch"
  /\ WakeupChannel \in activeChannels_
  /\ activeChannels_' = activeChannels_ \ {WakeupChannel}
  /\ wakeupFd_' = FALSE
  /\ UNCHANGED <<loopVars, queueVars, ready, caller>>

\* A user channel's turn: its callback consumes the event and starts to run.
HandleEvent(c) ==
  /\ pc = "dispatch"
  /\ c \in activeChannels_ \ {WakeupChannel}
  /\ activeChannels_' = activeChannels_ \ {c}
  /\ ready' = ready \ {c}
  /\ pc' = "channel"
  /\ UNCHANGED <<looping_, quit_, callingPendingFunctors_, queueVars, wakeupFd_, caller>>

\* The callback returns.
EventHandled ==
  /\ pc = "channel"
  /\ pc' = "dispatch"
  /\ UNCHANGED <<looping_, quit_, callingPendingFunctors_, queueVars, fdVars, caller>>

\* The for over activeChannels_ ends: eventHandling_ = false, and
\* doPendingFunctors() sets its flag.
Dispatched ==
  /\ pc = "dispatch"
  /\ activeChannels_ = {}
  /\ pc' = "swap"
  /\ callingPendingFunctors_' = TRUE
  /\ UNCHANGED <<looping_, quit_, queueVars, fdVars, caller>>

\* The critical section of doPendingFunctors(); after it, nothing is left to do
\* of an empty batch but to lower the flag, which only the owner reads.
Swap ==
  /\ pc = "swap"
  /\ functors' = pendingFunctors_
  /\ pendingFunctors_' = <<>>
  /\ callingPendingFunctors_' = (pendingFunctors_ # <<>>)
  /\ pc' = IF pendingFunctors_ = <<>> THEN "while" ELSE "functors"
  /\ UNCHANGED <<looping_, quit_, ran, queued, unwoken, fdVars, caller>>

RunFunctor ==
  /\ pc = "functors"
  /\ functors # <<>>
  /\ ran' = Append(ran, Head(functors))
  /\ functors' = Tail(functors)
  /\ pc' = "functor"
  /\ UNCHANGED <<looping_, quit_, callingPendingFunctors_, pendingFunctors_, queued, unwoken,
                 fdVars, caller>>

\* The functor returns.
FunctorDone ==
  /\ pc = "functor"
  /\ pc' = "functors"
  /\ UNCHANGED <<looping_, quit_, callingPendingFunctors_, queueVars, fdVars, caller>>

\* The for over functors ends and the flag is lowered.
FunctorsDone ==
  /\ pc = "functors"
  /\ functors = <<>>
  /\ pc' = "release"
  /\ callingPendingFunctors_' = FALSE
  /\ UNCHANGED <<looping_, quit_, queueVars, fdVars, caller>>

\* The local vector of functors is gone, and doPendingFunctors() has returned.
Released ==
  /\ pc = "release"
  /\ pc' = "while"
  /\ UNCHANGED <<looping_, quit_, callingPendingFunctors_, queueVars, fdVars, caller>>

\* A peer, a timer or the network makes a user channel ready.
ChannelReady(c) ==
  /\ c \notin ready
  /\ ready' = ready \cup {c}
  /\ UNCHANGED <<loopVars, queueVars, wakeupFd_, activeChannels_, caller>>

Owner ==
  \/ OwnerQueueInLoop \/ OwnerQuit
  \/ EnterLoop \/ While \/ PollReady \/ PollTimeout
  \/ HandleRead \/ (\E c \in Channels : HandleEvent(c)) \/ EventHandled \/ Dispatched
  \/ Swap \/ RunFunctor \/ FunctorDone \/ FunctorsDone \/ Released

Next ==
  \/ Owner
  \/ \E t \in Callers : QueueInLoop(t) \/ Quit(t) \/ Wakeup(t)
  \/ \E c \in Channels : ChannelReady(c)

Spec == Init /\ [][Next]_vars

\* The owner keeps running while it has something to do: callbacks return, and
\* poll returns when a descriptor stays ready.  Its timeout is not relied on,
\* and nobody is forced to call loop(), queueInLoop() or quit().
OwnerProgress ==
  \/ While \/ PollReady \/ HandleRead \/ (\E c \in Channels : HandleEvent(c)) \/ EventHandled
  \/ Dispatched \/ Swap \/ RunFunctor \/ FunctorDone \/ FunctorsDone \/ Released

Fairness ==
  /\ WF_vars(OwnerProgress)
  /\ \A t \in Callers : WF_vars(Wakeup(t))

FairSpec == Spec /\ Fairness

(***************************************************************************)
(* Properties.                                                             *)
(***************************************************************************)

\* While the owner sits in poll, every functor that queueInLoop() stored has a
\* wakeup behind it: the eventfd is readable, or a thread is between the unlock
\* and its wakeup().  The only functors without one are those the owner itself
\* queued outside loop(), or in a destructor that the end of a batch ran, where
\* queueInLoop() skips wakeup(); they wait for the next event or for kPollTimeMs.
NoLostWakeup ==
  (pc = "poll" /\ ~wakeupFd_ /\ \A t \in Callers : caller[t] # "pushed")
    => Range(pendingFunctors_) \subseteq unwoken

\* While the owner sits in poll, a quit() it has not seen yet is followed by a
\* wakeup: the eventfd is readable, or a thread is still inside quit().
QuitWakesPoll ==
  (pc = "poll" /\ quit_) => wakeupFd_ \/ \E t \in Callers : caller[t] = "quitting"

\* Functors run exactly once and in the order of push_back, across batches,
\* nested queueInLoop() calls and several runs of loop(): what ran, what is left
\* of the batch and what is pending are consecutive pieces of the push order.
InPushOrder ==
  /\ \A i \in DOMAIN ran : ran[i] = i
  /\ \A i \in DOMAIN functors : functors[i] = Len(ran) + i
  /\ \A i \in DOMAIN pendingFunctors_ : pendingFunctors_[i] = Len(ran) + Len(functors) + i
  /\ queued = Len(ran) + Len(functors) + Len(pendingFunctors_)

\* Without any help from the poll timeout, a functor queued while the loop runs
\* is run, unless loop() returns first; those that nothing wakes the loop for, as
\* in NoLostWakeup, excepted.
QueuedFunctorRuns ==
  \A f \in 1..MaxFunctors :
    (looping_ /\ f \in Range(pendingFunctors_) \ unwoken) ~> (~looping_ \/ f \in Range(ran))

\* Without any help from the poll timeout, loop() returns after a quit() that
\* comes after loop() started, from whichever thread.
QuitStopsLoop == (looping_ /\ quit_) ~> ~looping_

\* What queueInLoop() is for: no functor waits for kPollTimeMs.
FunctorsWake ==
  (pc = "poll" /\ ~wakeupFd_ /\ \A t \in Callers : caller[t] # "pushed") => pendingFunctors_ = <<>>

\* The loop as the abstract executor: the batch and the pending functors are one
\* queue.
Executor == INSTANCE SerialExecutor WITH
  queue <- functors \o pendingFunctors_,
  executing <- (pc = "functor"),
  open <- looping_

\* The loop implements the executor: swapping batches out, polling and waking up
\* are invisible to the threads that queue functors.
ImplementsExecutor == Executor!Spec

\* With poll's timeout relied on too, the executor makes progress: not even a
\* functor that nothing wakes the loop for waits for ever.
ExecutorProgress == WF_vars(PollTimeout) => Executor!Fairness
=============================================================================
