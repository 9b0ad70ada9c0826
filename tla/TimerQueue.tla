----------------------------- MODULE TimerQueue -----------------------------
(***************************************************************************)
(* The timers of net/timer_queue.{h,cc}, timer.{h,cc} and timer_id.h: all  *)
(* sets belong to the loop thread; other threads reach them through        *)
(* runInLoop(), whose functors wait in pending.                            *)
(*                                                                         *)
(* Timer objects live in heap, at addresses that operator new may reuse as *)
(* soon as a timer is deleted.  User code runs in the loop thread between  *)
(* handlers and inside every timer's callback, and calls addTimer() and    *)
(* cancel() there; both then take effect at once.                          *)
(***************************************************************************)
EXTENDS Integers, Sequences, FiniteSetsExt

CONSTANTS
  Callers,     \* threads other than the loop's
  Addresses,   \* what operator new can return, a set of numbers
  Intervals,   \* intervals of repeating timers
  MinDelay,    \* the 100 microseconds of howMuchTimeFromNow()
  Horizon,     \* bound: time stops here, but for timers that are due
  MaxTimers,   \* bound: timers created in one behaviour
  MaxPending   \* bound: functors waiting for the loop

ASSUME TimeAssumption ==
  /\ MinDelay \in Nat \ {0} /\ Horizon \in Nat \ {0}
  /\ Addresses \subseteq Nat
  /\ Intervals \subseteq Nat \ {0}
  /\ MaxTimers \in Nat /\ MaxPending \in Nat

VARIABLES
  clock,                 \* Timestamp::now()
  armed,                 \* when timerfd_ expires or expired; 0: disarmed or read
  heap,                  \* the Timer objects; sequence 0: not allocated
  timers_,               \* pairs <<expiration, address>>
  activeTimers_,         \* pairs <<address, sequence>>
  cancelingTimers_,
  callingExpiredTimers_,
  pc,                    \* loop: between handlers; active: timerfd_ is in
                         \* activeChannels_; calling: in handleRead()
  now, expired, todo,    \* handleRead()'s locals; todo: not yet called
  pending,               \* functors of addTimer() and cancel()
  caller,                \* <<>> or the timer that addTimer() is about to read
  ids,                   \* the TimerIds that users hold
  numCreated,            \* Timer::s_numCreated_
  repeating,             \* history: sequences of repeating timers
  ran,                   \* history: sequences of timers that ran
  cancelled,             \* history: what cancelInLoop() was called with
  missed                 \* history: those whose timer was not yet inserted

queueVars == <<timers_, activeTimers_, armed>>
batchVars == <<pc, now, expired, todo, callingExpiredTimers_>>
historyVars == <<repeating, ran, cancelled, missed>>
vars == <<clock, heap, queueVars, cancelingTimers_, batchVars, pending, caller, ids, numCreated,
          historyVars>>

Free == [expiration |-> 0, interval |-> 0, sequence |-> 0]

allocated == {a \in Addresses : heap[a].sequence # 0}

TimerIds == Addresses \X (0..MaxTimers)

TypeOK ==
  /\ clock \in Nat \ {0} /\ armed \in Nat
  /\ heap \in [Addresses -> [expiration : Nat, interval : Intervals \cup {0}, sequence : 0..MaxTimers]]
  /\ \A a \in allocated : heap[a].expiration # 0
  /\ timers_ \subseteq Nat \X Addresses
  /\ activeTimers_ \subseteq TimerIds /\ cancelingTimers_ \subseteq TimerIds
  /\ callingExpiredTimers_ \in BOOLEAN
  /\ pc \in {"loop", "active", "calling"}
  /\ now \in Nat /\ expired \subseteq Addresses /\ todo \subseteq expired
  /\ pending \in Seq([op : {"add", "cancel"}, id : TimerIds])
  /\ caller \in [Callers -> TimerIds \cup {<<>>}]
  /\ ids \subseteq TimerIds /\ cancelled \subseteq TimerIds /\ missed \subseteq cancelled
  /\ numCreated \in 0..MaxTimers /\ repeating \subseteq 1..numCreated /\ ran \subseteq 1..numCreated

Init ==
  /\ clock = 1 /\ armed = 0
  /\ heap = [a \in Addresses |-> Free]
  /\ timers_ = {} /\ activeTimers_ = {} /\ cancelingTimers_ = {}
  /\ callingExpiredTimers_ = FALSE
  /\ pc = "loop" /\ now = 0 /\ expired = {} /\ todo = {}
  /\ pending = <<>> /\ caller = [t \in Callers |-> <<>>] /\ ids = {}
  /\ numCreated = 0 /\ repeating = {} /\ ran = {} /\ cancelled = {} /\ missed = {}

(***************************************************************************)
(* Private members.                                                        *)
(***************************************************************************)

earliest(list) == Min({entry[1] : entry \in list})

\* resetTimerfd(): timerfd_ expires when the timer does, but never at once.
resetTimerfd(when) == Max({when, clock + MinDelay})

\* Mutant: the timerfd is set for the first timer only.
InsertArmsOnce(a, when, seq) ==
  /\ timers_' = timers_ \cup {<<when, a>>}
  /\ activeTimers_' = activeTimers_ \cup {<<a, seq>>}
  /\ armed' = IF timers_ = {} THEN resetTimerfd(when) ELSE armed

\* addTimerInLoop(): insert(), and a new alarm if the timer is the earliest.
addTimerInLoop(a, when, seq) ==
  /\ timers_' = timers_ \cup {<<when, a>>}
  /\ activeTimers_' = activeTimers_ \cup {<<a, seq>>}
  /\ armed' = IF timers_ = {} \/ when < earliest(timers_) THEN resetTimerfd(when) ELSE armed

\* A timer leaves both sets and is deleted.
Forget(entries) ==
  /\ activeTimers_' = activeTimers_ \ entries
  /\ timers_' = timers_ \ {<<heap[e[1]].expiration, e[1]>> : e \in entries}
  /\ heap' = [a \in Addresses |-> IF \E e \in entries : e[1] = a THEN Free ELSE heap[a]]

\* The history of cancelInLoop(id).
Cancels(id) ==
  /\ cancelled' = cancelled \cup {id}
  /\ missed' = IF \E i \in 1..Len(pending) : pending[i] = [op |-> "add", id |-> id]
                 THEN missed \cup {id} ELSE missed
  /\ UNCHANGED <<repeating, ran>>

\* Mutant: the timer is looked up by its address only.
CancelByAddress(id) ==
  /\ Forget({e \in activeTimers_ : e[1] = id[1]})
  /\ cancelingTimers_' = IF callingExpiredTimers_ /\ id \notin activeTimers_
                           THEN cancelingTimers_ \cup {id} ELSE cancelingTimers_
  /\ Cancels(id)
  /\ UNCHANGED armed

\* cancelInLoop(): the alarm stays set.
cancelInLoop(id) ==
  /\ Forget({id} \cap activeTimers_)
  /\ cancelingTimers_' = IF callingExpiredTimers_ /\ id \notin activeTimers_
                           THEN cancelingTimers_ \cup {id} ELSE cancelingTimers_
  /\ Cancels(id)
  /\ UNCHANGED armed

(***************************************************************************)
(* User code.                                                              *)
(***************************************************************************)

\* The loop thread is in user code: a channel's callback, a functor or the
\* callback of an expired timer.
InUserCode == pc # "calling" \/ todo # expired

\* new Timer(): the address is any that is not in use.
NewTimer(a, when, interval) ==
  /\ numCreated < MaxTimers
  /\ a \notin allocated
  /\ numCreated' = numCreated + 1
  /\ heap' = [heap EXCEPT ![a] = [expiration |-> when, interval |-> interval,
                                  sequence |-> numCreated + 1]]
  /\ repeating' = IF interval > 0 THEN repeating \cup {numCreated + 1} ELSE repeating
  /\ UNCHANGED <<ran, cancelled, missed>>

\* runAt() and runAfter() take any moment, runEvery() starts an interval ahead.
Schedules == {<<when, 0>> : when \in 1..Horizon} \cup {<<clock + i, i>> : i \in Intervals}

\* addTimer() called in the loop thread.
AddTimer(a, s) ==
  /\ InUserCode
  /\ NewTimer(a, s[1], s[2])
  /\ addTimerInLoop(a, s[1], numCreated + 1)
  /\ ids' = ids \cup {<<a, numCreated + 1>>}
  /\ UNCHANGED <<clock, cancelingTimers_, batchVars, pending, caller>>

\* cancel() called in the loop thread.
Cancel(id) ==
  /\ InUserCode
  /\ id \notin cancelled
  /\ cancelInLoop(id)
  /\ UNCHANGED <<clock, batchVars, pending, caller, ids, numCreated>>

\* addTimer() called in another thread queues addTimerInLoop() ...
QueueTimer(t, a, s) ==
  /\ caller[t] = <<>>
  /\ Len(pending) < MaxPending
  /\ NewTimer(a, s[1], s[2])
  /\ pending' = Append(pending, [op |-> "add", id |-> <<a, numCreated + 1>>])
  /\ caller' = [caller EXCEPT ![t] = <<a, numCreated + 1>>]
  /\ UNCHANGED <<clock, queueVars, cancelingTimers_, batchVars, ids>>

\* ... and then reads timer->sequence().  The timer may be gone: what is read is
\* then what the memory still holds, or what its next owner wrote there.
ReturnId(t, seq) ==
  /\ caller[t] # <<>>
  /\ LET a == caller[t][1]
     IN  /\ seq \in {heap[a].sequence} \cup (IF a \in allocated THEN {} ELSE {caller[t][2]})
         /\ ids' = ids \cup {<<a, seq>>}
  /\ caller' = [caller EXCEPT ![t] = <<>>]
  /\ UNCHANGED <<clock, heap, queueVars, cancelingTimers_, batchVars, pending, numCreated, historyVars>>

\* cancel() called in another thread.
QueueCancel(t, id) ==
  /\ caller[t] = <<>>
  /\ Len(pending) < MaxPending
  /\ id \notin cancelled
  /\ pending' = Append(pending, [op |-> "cancel", id |-> id])
  /\ UNCHANGED <<clock, heap, queueVars, cancelingTimers_, batchVars, caller, ids, numCreated,
                 historyVars>>

(***************************************************************************)
(* The loop thread.                                                        *)
(***************************************************************************)

\* doPendingFunctors() runs the functors in the order they were queued.
RunAdd ==
  /\ pc = "loop"
  /\ pending # <<>> /\ Head(pending).op = "add"
  /\ LET a == Head(pending).id[1]
     IN  addTimerInLoop(a, heap[a].expiration, heap[a].sequence)
  /\ pending' = Tail(pending)
  /\ UNCHANGED <<clock, heap, cancelingTimers_, batchVars, caller, ids, numCreated, historyVars>>

RunCancel ==
  /\ pc = "loop"
  /\ pending # <<>> /\ Head(pending).op = "cancel"
  /\ cancelInLoop(Head(pending).id)
  /\ pending' = Tail(pending)
  /\ UNCHANGED <<clock, batchVars, caller, ids, numCreated>>

readable == armed # 0 /\ armed <= clock

\* poll() returns with timerfd_ among the active channels; the callbacks of
\* channels before it in activeChannels_ may still run.
PollReturns ==
  /\ pc = "loop" /\ readable
  /\ pc' = "active"
  /\ UNCHANGED <<clock, heap, queueVars, cancelingTimers_, now, expired, todo,
                 callingExpiredTimers_, pending, caller, ids, numCreated, historyVars>>

\* getExpired()'s sentry is greater than every entry that expires now.
Expires(entry) == entry[1] <= clock

\* handleRead() up to the loop over expired: readTimerfd() clears an expiration,
\* and does not disarm a timerfd that was set again meanwhile.
HandleRead ==
  LET batch == {entry \in timers_ : Expires(entry)}
  IN  /\ pc = "active"
      /\ pc' = "calling"
      /\ now' = clock
      /\ armed' = IF readable THEN 0 ELSE armed
      /\ timers_' = timers_ \ batch
      /\ expired' = {entry[2] : entry \in batch}
      /\ todo' = expired'
      /\ activeTimers_' = activeTimers_ \ {<<a, heap[a].sequence>> : a \in expired'}
      /\ callingExpiredTimers_' = TRUE
      /\ cancelingTimers_' = {}
      /\ UNCHANGED <<clock, heap, pending, caller, ids, numCreated, historyVars>>

\* it->second->run(): the next timer of the batch, by expiration and address.
RunTimer(a) ==
  /\ pc = "calling"
  /\ a \in todo
  /\ \A b \in todo : \/ heap[a].expiration < heap[b].expiration
                     \/ heap[a].expiration = heap[b].expiration /\ a <= b
  /\ todo' = todo \ {a}
  /\ ran' = ran \cup {heap[a].sequence}
  /\ UNCHANGED <<clock, heap, queueVars, cancelingTimers_, pc, now, expired, callingExpiredTimers_,
                 pending, caller, ids, numCreated, repeating, cancelled, missed>>

\* Mutant: cancelingTimers_ is not consulted.
RestartsAlways(a) == heap[a].interval > 0

\* reset(): the timers that are started again.
Restarts(a) == heap[a].interval > 0 /\ <<a, heap[a].sequence>> \notin cancelingTimers_

\* Timer::restart(); 0 is Timestamp::invalid().
restart(timer) ==
  [timer EXCEPT !.expiration = IF timer.interval > 0 THEN now + timer.interval ELSE 0]

\* Mutant: a timer that is not started again is not deleted.
ResetLeaks ==
  LET again == {a \in expired : Restarts(a)}
  IN  /\ pc = "calling" /\ todo = {}
      /\ heap' = [a \in Addresses |-> IF a \in again THEN restart(heap[a]) ELSE heap[a]]
      /\ timers_' = timers_ \cup {<<heap'[a].expiration, a>> : a \in again}
      /\ activeTimers_' = activeTimers_ \cup {<<a, heap[a].sequence>> : a \in again}
      /\ armed' = IF timers_' = {} THEN armed ELSE resetTimerfd(earliest(timers_'))
      /\ callingExpiredTimers_' = FALSE
      /\ pc' = "loop" /\ now' = 0 /\ expired' = {} /\ todo' = {}
      /\ UNCHANGED <<clock, cancelingTimers_, pending, caller, ids, numCreated, historyVars>>

\* The end of handleRead(): callingExpiredTimers_ = false and reset().
Reset ==
  LET again == {a \in expired : Restarts(a)}
  IN  /\ pc = "calling" /\ todo = {}
      /\ heap' = [a \in Addresses |-> IF a \in again THEN restart(heap[a])
                                      ELSE IF a \in expired THEN Free ELSE heap[a]]
      /\ timers_' = timers_ \cup {<<heap'[a].expiration, a>> : a \in again}
      /\ activeTimers_' = activeTimers_ \cup {<<a, heap[a].sequence>> : a \in again}
      /\ armed' = IF timers_' = {} THEN armed ELSE resetTimerfd(earliest(timers_'))
      /\ callingExpiredTimers_' = FALSE
      /\ pc' = "loop" /\ now' = 0 /\ expired' = {} /\ todo' = {}
      /\ UNCHANGED <<clock, cancelingTimers_, pending, caller, ids, numCreated, historyVars>>

\* Time passes, at any point of the code.  Beyond the bound it passes only while
\* the loop sleeps with a timer that is due.
Tick ==
  /\ \/ clock < Horizon
     \/ pc = "loop" /\ clock < armed /\ \E entry \in timers_ : entry[1] <= Horizon
  /\ clock' = clock + 1
  /\ UNCHANGED <<heap, queueVars, cancelingTimers_, batchVars, pending, caller, ids, numCreated,
                 historyVars>>

LoopThread ==
  \/ RunAdd \/ RunCancel \/ PollReturns \/ HandleRead \/ Reset
  \/ \E a \in Addresses : RunTimer(a)

UserCode ==
  \/ \E a \in Addresses, s \in Schedules : AddTimer(a, s)
  \/ \E id \in ids : Cancel(id)
  \/ \E t \in Callers :
       \/ \E a \in Addresses, s \in Schedules : QueueTimer(t, a, s)
       \/ \E seq \in 0..MaxTimers : ReturnId(t, seq)
       \/ \E id \in ids : QueueCancel(t, id)

Next == LoopThread \/ UserCode \/ Tick

Spec == Init /\ [][Next]_vars

\* The loop thread keeps looping, callbacks return, and time passes.
FairSpec == Spec /\ WF_vars(LoopThread) /\ WF_vars(Tick)

(***************************************************************************)
(* Properties.                                                             *)
(***************************************************************************)

\* activeTimers_ and timers_ hold the same timers, all of them allocated and filed
\* under the expiration the object has: the assertions of insert(),
\* getExpired() and cancelInLoop() on sizes and on erase() follow.
SameTimers ==
  /\ timers_ = {<<heap[e[1]].expiration, e[1]>> : e \in activeTimers_}
  /\ \A e \in activeTimers_ : e[2] # 0 /\ heap[e[1]].sequence = e[2]

Queued(a) == \E i \in 1..Len(pending) : pending[i] = [op |-> "add", id |-> <<a, heap[a].sequence>>]

\* Every Timer object has exactly one owner: the functor that will insert it,
\* the sets, or the batch whose callbacks run.  None leaks, none is deleted
\* twice or used after delete by the loop thread.
OneOwner ==
  /\ \A a \in allocated :
       Cardinality({o \in 1..3 : \/ o = 1 /\ Queued(a)
                                 \/ o = 2 /\ <<a, heap[a].sequence>> \in activeTimers_
                                 \/ o = 3 /\ a \in expired}) = 1
  /\ expired \cup {e[1] : e \in activeTimers_} \subseteq allocated
  /\ \A i \in 1..Len(pending) :
       pending[i].op = "add" => heap[pending[i].id[1]].sequence = pending[i].id[2]

\* A timer disappears only by its own cancel() or, if it does not repeat, after
\* its callback: never because another timer was cancelled at its address.
NoTimerLost ==
  \A s \in 1..numCreated :
    \/ \E a \in allocated : heap[a].sequence = s
    \/ \E id \in cancelled : id[2] = s
    \/ s \in ran \ repeating

\* Outside handleRead() the alarm is set no later than the earliest expiration, or
\* MinDelay from now if that has passed.
ArmedForEarliest ==
  (timers_ # {} /\ pc # "calling")
    => armed # 0 /\ armed <= Max({earliest(timers_), clock + MinDelay})

\* A timer that was cancelled after it was inserted never comes back, not even when
\* it repeats and its own callback cancels it.
CancelledStaysOut == activeTimers_ \cap (cancelled \ missed) = {}

\* No callback runs before its timer expires, and a batch runs in the order of
\* expirations.
RunsWhenDue ==
  [][\A a \in Addresses : RunTimer(a) =>
       /\ heap[a].expiration <= now
       /\ \A b \in expired \ todo : heap[b].expiration <= heap[a].expiration]_vars

\* A timer that is due leaves timers_: its callback runs, or it is cancelled.
DueTimersRun ==
  \A a \in Addresses, when \in 1..Horizon : (<<when, a>> \in timers_) ~> (<<when, a>> \notin timers_)

\* addTimer() is documented as thread safe: the Timer that it reads after handing
\* it to the loop is still the one it made.
AddTimerReadsItsTimer ==
  \A t \in Callers : caller[t] # <<>> => heap[caller[t][1]].sequence = caller[t][2]

\* cancel() is documented to cancel the timer: a timer for which cancel() ran in
\* the loop, with the id that addTimer() returned, is not in the queue later.
CancelledNeverActive == activeTimers_ \cap cancelled = {}
=============================================================================
