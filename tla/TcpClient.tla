------------------------------ MODULE TcpClient ------------------------------
(***************************************************************************)
(* net/connector.{h,cc} and net/tcp_client.{h,cc}: the connection attempts *)
(* of a client, their retries, and the connection they lead to.            *)
(*                                                                         *)
(* The loop thread's handlers are single steps.  connect() and stop() can  *)
(* also be called by another thread, which stores the flags in one step    *)
(* and queues its functor in a later one.  A failed assert() is recorded   *)
(* in failed and ends the process.                                         *)
(***************************************************************************)
EXTENDS Integers, Sequences

CONSTANTS
  kInitRetryDelayMs, kMaxRetryDelayMs,
  retry_,        \* TcpClient::enableRetry() was called
  LoopOps,       \* what the loop thread's user code calls
  ThreadOps,     \* what another thread calls
  EarlyDestroy,  \* a client with a connection may be destructed while functors of its Connector are queued
  SlowLoop,      \* a turn of the loop may take longer than the delay of a timer that it sets
  MaxConnects    \* bound: calls of connect()

ASSUME ClientAssumption ==
  /\ kInitRetryDelayMs \in Nat \ {0} /\ kMaxRetryDelayMs \in Nat
  /\ kInitRetryDelayMs <= kMaxRetryDelayMs
  /\ retry_ \in BOOLEAN /\ EarlyDestroy \in BOOLEAN /\ SlowLoop \in BOOLEAN /\ MaxConnects \in Nat

VARIABLES
  connect_, state_, retryDelayMs_,  \* the Connector
  channel_,      \* none; on: watched by the loop; off: removed, not yet reset
  timers,        \* timers of retry() that are set; each holds the Connector
  keeper,        \* the timer of ~TcpClient that holds the Connector is set
  clientConnect_, \* TcpClient::connect_
  connection_,   \* TcpClient::connection_ is not NULL
  client,        \* the TcpClient lives
  up,            \* the last TcpConnection has not seen handleClose()
  conns,         \* TcpConnections not yet destroyed
  fds,           \* open descriptors that connect() made
  phase,         \* the loop: poll, events, functors
  ready,         \* what poll() reported and is not yet handled
  restarting,    \* removeConnection() is about to call restart()
  pending, batch,
  thread,        \* the other thread: idle, start, stop
  connects,
  stopped,       \* history: stop() was called since the last connect(); raced: while restart() was due
  late,          \* history: values of stopped at which connect(2) was called
  gaveUp,        \* history: the last connect(2) failed for good
  failed

connectorVars == <<connect_, state_, retryDelayMs_, channel_, timers, keeper, gaveUp>>
clientVars == <<clientConnect_, connection_, client, up, conns>>
loopVars == <<phase, ready, restarting, pending, batch>>
historyVars == <<stopped, late>>
vars == <<connectorVars, clientVars, fds, loopVars, thread, connects, historyVars, failed>>

Functors == {"startInLoop", "stopInLoop", "resetChannel", "connectDestroyed"}

\* fn is one of the functors of q.
Contains(q, fn) == \E i \in 1..Len(q) : q[i] = fn

\* A functor of the Connector is queued; it has no more than the Connector's address.
Calls == \E fn \in {"startInLoop", "stopInLoop", "resetChannel"} : Contains(pending \o batch, fn)

\* Somebody holds the Connector, of whose timers k are set.
HeldWith(k) == client \/ keeper \/ k > 0

TypeOK ==
  /\ connect_ \in BOOLEAN /\ state_ \in {"kDisconnected", "kConnecting", "kConnected"}
  /\ channel_ \in {"none", "on", "off"}
  /\ retryDelayMs_ \in kInitRetryDelayMs..kMaxRetryDelayMs /\ timers \in Nat
  /\ keeper \in BOOLEAN
  /\ clientConnect_ \in BOOLEAN /\ connection_ \in BOOLEAN /\ client \in BOOLEAN
  /\ up \in BOOLEAN /\ conns \in Nat /\ fds \in Nat
  /\ phase \in {"poll", "events", "functors"} /\ ready \subseteq {"timer", "keeper", "attempt", "down"}
  /\ restarting \in BOOLEAN /\ gaveUp \in BOOLEAN
  /\ pending \in Seq(Functors) /\ batch \in Seq(Functors)
  /\ thread \in {"idle", "start", "stop"} /\ connects \in 0..MaxConnects
  /\ stopped \in {"no", "yes", "raced"} /\ late \subseteq {"yes", "raced"}
  /\ failed \in {"none", "startInLoop", "connecting", "dtor", "freed", "connection"}

Init ==
  /\ connect_ = FALSE /\ state_ = "kDisconnected" /\ channel_ = "none"
  /\ retryDelayMs_ = kInitRetryDelayMs /\ timers = 0 /\ keeper = FALSE
  /\ clientConnect_ = TRUE /\ connection_ = FALSE /\ client = TRUE
  /\ up = FALSE /\ conns = 0 /\ fds = 0
  /\ phase = "poll" /\ ready = {} /\ restarting = FALSE /\ gaveUp = FALSE /\ pending = <<>> /\ batch = <<>>
  /\ thread = "idle" /\ connects = 0 /\ stopped = "no" /\ late = {} /\ failed = "none"

Running == failed = "none"
InLoop == Running /\ ~restarting
Abort(assertion) ==
  /\ failed' = assertion
  /\ UNCHANGED <<connectorVars, clientVars, fds, loopVars, thread, connects, historyVars>>

(***************************************************************************)
(* Pieces of the handlers.  on is the value of connect_, n the number of   *)
(* descriptors, d the delay and k the number of timers before them, stop   *)
(* what is known of stop().                                                *)
(***************************************************************************)

Backoff(d) ==
  IF d * 2 < kMaxRetryDelayMs THEN d * 2 ELSE kMaxRetryDelayMs

\* Mutant: retry() does not close the socket of the failed attempt.
RetryLeaks(on, n, d, k) ==
  /\ fds' = n
  /\ state_' = "kDisconnected"
  /\ timers' = IF on THEN k + 1 ELSE k
  /\ retryDelayMs_' = IF on THEN Backoff(d) ELSE d

\* Mutant: retry() gives up when the delay cannot grow.
RetryGivesUp(on, n, d, k) ==
  /\ fds' = n - 1
  /\ state_' = "kDisconnected"
  /\ timers' = IF on /\ d < kMaxRetryDelayMs THEN k + 1 ELSE k
  /\ retryDelayMs_' = IF on THEN Backoff(d) ELSE d

\* retry().
retry(on, n, d, k) ==
  /\ fds' = n - 1
  /\ state_' = "kDisconnected"
  /\ timers' = IF on THEN k + 1 ELSE k
  /\ retryDelayMs_' = IF on THEN Backoff(d) ELSE d

\* A handler ends: with it the Connector, if only its timer held it, and the
\* assert(!channel_) of ~Connector.
Released(channel, k) == IF channel # "none" /\ ~HeldWith(k) THEN "dtor" ELSE failed

\* connect() of the Connector, after its socket(): by what connect(2) says,
\* connecting() with its assert(!channel_), retry() or the end.
connect(on, d, k, stop) ==
  /\ late' = late \cup ({stop} \ {"no"})
  /\ \/ /\ failed' = IF channel_ = "none" THEN Released("on", k) ELSE "connecting"
        /\ state_' = "kConnecting" /\ channel_' = "on" /\ fds' = fds + 1
        /\ retryDelayMs_' = d /\ timers' = k /\ gaveUp' = FALSE
     \/ /\ retry(on, fds + 1, d, k) /\ gaveUp' = FALSE
        /\ failed' = Released(channel_, timers') /\ UNCHANGED channel_
     \/ /\ state_' = "kDisconnected" /\ gaveUp' = TRUE /\ failed' = Released(channel_, k)
        /\ retryDelayMs_' = d /\ timers' = k /\ UNCHANGED <<channel_, fds>>

\* Mutant: startInLoop() does not look at connect_.
StartsAlways == TRUE

\* The test of startInLoop().
Starts == connect_

\* removeAndResetChannel(): calls is pendingFunctors_ before it.
removeAndResetChannel(calls) ==
  /\ channel_' = "off"
  /\ pending' = Append(calls, "resetChannel")

(***************************************************************************)
(* The loop thread.                                                        *)
(***************************************************************************)

\* A timer of retry() fires: startInLoop().
TimerFires ==
  /\ InLoop /\ "timer" \in ready
  /\ IF state_ # "kDisconnected"
     THEN Abort("startInLoop")
     ELSE /\ IF Starts
             THEN connect(connect_, retryDelayMs_, timers - 1, stopped)
             ELSE /\ timers' = timers - 1 /\ failed' = Released(channel_, timers - 1)
                  /\ UNCHANGED <<state_, channel_, retryDelayMs_, fds, gaveUp, late>>
          /\ ready' = ready \ {"timer"}
          /\ UNCHANGED <<connect_, keeper, clientVars, phase, restarting, pending, batch, thread, connects, stopped>>

\* The timer of ~TcpClient fires: detail::removeConnector() does nothing, and lets
\* go of the Connector.
KeeperFires ==
  /\ InLoop /\ "keeper" \in ready
  /\ ready' = ready \ {"keeper"} /\ keeper' = FALSE
  /\ failed' = IF channel_ # "none" /\ ~client /\ timers = 0 THEN "dtor" ELSE failed
  /\ UNCHANGED <<connect_, state_, retryDelayMs_, channel_, timers, gaveUp, clientVars, fds, phase, restarting>>
  /\ UNCHANGED <<pending, batch, thread, connects, historyVars>>

\* handleWrite() of an attempt that failed or that reached itself, or
\* handleError(), which a handleWrite() without effect follows.
AttemptFails ==
  /\ InLoop /\ "attempt" \in ready /\ state_ = "kConnecting"
  /\ ready' = ready \ {"attempt"}
  /\ removeAndResetChannel(pending)
  /\ retry(connect_, fds, retryDelayMs_, timers)
  /\ UNCHANGED <<connect_, keeper, gaveUp, clientVars, phase, restarting, batch, thread, connects, historyVars, failed>>

\* handleWrite() of an attempt that succeeded, with TcpClient::newConnection().
AttemptSucceeds ==
  /\ InLoop /\ "attempt" \in ready /\ state_ = "kConnecting"
  /\ ready' = ready \ {"attempt"}
  /\ removeAndResetChannel(pending)
  /\ state_' = "kConnected"
  /\ IF connect_
     THEN connection_' = TRUE /\ up' = TRUE /\ conns' = conns + 1 /\ UNCHANGED fds
     ELSE fds' = fds - 1 /\ UNCHANGED <<connection_, up, conns>>
  /\ UNCHANGED <<connect_, retryDelayMs_, timers, keeper, gaveUp, clientConnect_, client, phase, restarting, batch>>
  /\ UNCHANGED <<thread, connects, historyVars, failed>>

\* Where handleClose() of the connection is called: by an event, or by a
\* forceCloseInLoop() that a user or ~TcpClient queued when the connection was up, and
\* so behind the functors that were queued before it came up.
Closes ==
  \/ "down" \in ready
  \/ phase = "functors" /\ \A fn \in {"resetChannel", "connectDestroyed"} : ~Contains(batch, fn)

\* The connection is down: TcpClient::removeConnection() with its assertion, up to
\* its test of connect_, or detail::removeConnection() once the client is gone.
ConnectionDown ==
  /\ InLoop /\ up /\ Closes
  /\ IF client /\ ~connection_
     THEN Abort("connection")
     ELSE /\ ready' = ready \ {"down"}
          /\ up' = FALSE /\ connection_' = FALSE
          /\ pending' = Append(pending, "connectDestroyed")
          /\ restarting' = (client /\ retry_ /\ clientConnect_)
          /\ UNCHANGED <<connectorVars, clientConnect_, client, conns, fds, phase, batch, thread, connects>>
          /\ UNCHANGED <<historyVars, failed>>

\* Mutant: restart() leaves the state of the last attempt.
RestartKeepsState ==
  /\ Running /\ restarting
  /\ connect_' = TRUE
  /\ restarting' = FALSE
  /\ IF state_ # "kDisconnected"
     THEN failed' = "startInLoop" /\ UNCHANGED <<state_, channel_, retryDelayMs_, timers, fds, gaveUp, late>>
     ELSE connect(TRUE, kInitRetryDelayMs, timers, stopped)
  /\ UNCHANGED <<keeper, clientVars, phase, ready, pending, batch, thread, connects, stopped>>

\* Connector::restart().
Restart ==
  /\ Running /\ restarting
  /\ connect_' = TRUE
  /\ restarting' = FALSE
  /\ connect(TRUE, kInitRetryDelayMs, timers, stopped)
  /\ UNCHANGED <<keeper, clientVars, phase, ready, pending, batch, thread, connects, stopped>>

\* poll(): a timer is due, the attempt's socket is writable or in error, a
\* connection is closing.  A retry is at least kInitRetryDelayMs away, and the timer
\* of ~TcpClient a second: if the loop is not slow, the functors queued with them
\* have run by then.
Poll ==
  /\ InLoop /\ phase = "poll"
  /\ ready' \in SUBSET ((IF timers > 0 /\ (SlowLoop \/ channel_ # "off") THEN {"timer"} ELSE {})
                       \cup (IF keeper /\ (SlowLoop \/ ~Calls) THEN {"keeper"} ELSE {})
                       \cup (IF channel_ = "on" THEN {"attempt"} ELSE {})
                       \cup (IF up THEN {"down"} ELSE {}))
  /\ phase' = "events"
  /\ UNCHANGED <<connectorVars, clientVars, fds, restarting, pending, batch, thread, connects, historyVars, failed>>

\* doPendingFunctors() takes the functors, and ends.
Swap ==
  /\ InLoop /\ phase = "events" /\ ready = {}
  /\ batch' = pending /\ pending' = <<>> /\ phase' = "functors"
  /\ UNCHANGED <<connectorVars, clientVars, fds, ready, restarting, thread, connects, historyVars, failed>>

FunctorsDone ==
  /\ InLoop /\ phase = "functors" /\ batch = <<>>
  /\ phase' = "poll"
  /\ UNCHANGED <<connectorVars, clientVars, fds, ready, restarting, pending, batch, thread, connects, historyVars, failed>>

NextFunctor(fn) ==
  InLoop /\ phase = "functors" /\ batch # <<>> /\ Head(batch) = fn

RunStart ==
  /\ NextFunctor("startInLoop")
  /\ IF ~HeldWith(timers) \/ state_ # "kDisconnected"
     THEN Abort(IF HeldWith(timers) THEN "startInLoop" ELSE "freed")
     ELSE /\ batch' = Tail(batch)
          /\ IF Starts
             THEN connect(connect_, retryDelayMs_, timers, stopped)
             ELSE UNCHANGED <<state_, channel_, retryDelayMs_, timers, fds, gaveUp, late, failed>>
          /\ UNCHANGED <<connect_, keeper, clientVars, phase, ready, restarting, pending, thread, connects, stopped>>

\* stopInLoop().
RunStop ==
  /\ NextFunctor("stopInLoop")
  /\ IF ~HeldWith(timers)
     THEN Abort("freed")
     ELSE /\ batch' = Tail(batch)
          /\ IF state_ = "kConnecting"
             THEN removeAndResetChannel(pending) /\ retry(connect_, fds, retryDelayMs_, timers)
             ELSE UNCHANGED <<channel_, pending, fds, state_, timers, retryDelayMs_>>
          /\ UNCHANGED <<connect_, keeper, gaveUp, clientVars, phase, ready, restarting, thread, connects>>
          /\ UNCHANGED <<historyVars, failed>>

RunReset ==
  /\ NextFunctor("resetChannel")
  /\ IF ~HeldWith(timers)
     THEN Abort("freed")
     ELSE /\ batch' = Tail(batch)
          /\ channel_' = "none"
          /\ UNCHANGED <<connect_, state_, retryDelayMs_, timers, keeper, gaveUp, clientVars, fds, phase, ready>>
          /\ UNCHANGED <<restarting, pending, thread, connects, historyVars, failed>>

\* connectDestroyed(), and the end of the connection with its descriptor.
RunDestroyed ==
  /\ NextFunctor("connectDestroyed")
  /\ batch' = Tail(batch)
  /\ conns' = conns - 1 /\ fds' = fds - 1
  /\ UNCHANGED <<connectorVars, clientConnect_, connection_, client, up, phase, ready, restarting, pending>>
  /\ UNCHANGED <<thread, connects, historyVars, failed>>

(***************************************************************************)
(* Users.                                                                  *)
(***************************************************************************)

\* TcpClient::connect() in the loop thread, with startInLoop() at once.
LoopConnect ==
  /\ InLoop /\ client /\ "connect" \in LoopOps /\ connects < MaxConnects
  /\ IF state_ # "kDisconnected"
     THEN Abort("startInLoop")
     ELSE /\ connects' = connects + 1
          /\ clientConnect_' = TRUE /\ connect_' = TRUE /\ stopped' = "no"
          /\ connect(TRUE, retryDelayMs_, timers, "no")
          /\ UNCHANGED <<keeper, connection_, client, up, conns, loopVars, thread>>

\* TcpClient::stop() in the loop thread.  Bound: one stopInLoop() is queued at a time.
LoopStop ==
  /\ InLoop /\ client /\ "stop" \in LoopOps /\ ~Contains(pending \o batch, "stopInLoop")
  /\ clientConnect_' = FALSE /\ connect_' = FALSE
  /\ stopped' = "yes"
  /\ pending' = Append(pending, "stopInLoop")
  /\ UNCHANGED <<state_, retryDelayMs_, channel_, timers, keeper, gaveUp, connection_, client, up, conns, fds, phase,
                 ready, restarting, batch>>
  /\ UNCHANGED <<thread, connects, late, failed>>

\* TcpClient::disconnect(), whose shutdown() makes the peer close some time.
Disconnect ==
  /\ InLoop /\ client /\ "disconnect" \in LoopOps
  /\ clientConnect_' = FALSE
  /\ UNCHANGED <<connectorVars, connection_, client, up, conns, fds, loopVars, thread, connects, historyVars, failed>>

\* connect() and stop() in another thread: the flags, then the functor.
ThreadFlags(op) ==
  /\ Running /\ client /\ thread = "idle" /\ op \in ThreadOps
  /\ op = "connect" => connects < MaxConnects
  /\ op = "stop" => ~Contains(pending \o batch, "stopInLoop")
  /\ thread' = IF op = "connect" THEN "start" ELSE "stop"
  /\ clientConnect_' = (op = "connect") /\ connect_' = (op = "connect")
  /\ connects' = IF op = "connect" THEN connects + 1 ELSE connects
  /\ stopped' = CASE op = "connect" -> "no" [] op # "connect" /\ restarting -> "raced" [] OTHER -> "yes"
  /\ UNCHANGED <<state_, retryDelayMs_, channel_, timers, keeper, gaveUp, connection_, client, up, conns, fds>>
  /\ UNCHANGED <<loopVars, late, failed>>

ThreadQueue ==
  /\ Running /\ thread # "idle"
  /\ pending' = Append(pending, IF thread = "start" THEN "startInLoop" ELSE "stopInLoop")
  /\ thread' = "idle"
  /\ UNCHANGED <<connectorVars, clientVars, fds, phase, ready, restarting, batch, connects, historyVars, failed>>

\* ~TcpClient in the loop thread.  With a connection, whose forceClose() is one of the
\* functors that may close it, the Connector goes too unless a timer of retry() holds
\* it; without one, a timer of one second keeps it.
Destroy ==
  /\ InLoop /\ client /\ "destroy" \in LoopOps /\ thread = "idle"
  /\ EarlyDestroy \/ ~connection_ \/ ~Calls
  /\ IF connection_ /\ timers = 0 /\ channel_ # "none"
     THEN Abort("dtor")
     ELSE /\ client' = FALSE
          /\ connection_' = FALSE
          /\ IF connection_
             THEN UNCHANGED <<connect_, keeper, pending>>
             ELSE connect_' = FALSE /\ keeper' = TRUE /\ pending' = Append(pending, "stopInLoop")
          /\ UNCHANGED <<state_, retryDelayMs_, channel_, timers, gaveUp, clientConnect_, up, conns, fds, phase,
                         ready, restarting, batch>>
          /\ UNCHANGED <<thread, connects, historyVars, failed>>

LoopThread ==
  \/ Poll \/ TimerFires \/ KeeperFires \/ AttemptFails \/ AttemptSucceeds \/ ConnectionDown \/ Restart
  \/ Swap \/ FunctorsDone \/ RunStart \/ RunStop \/ RunReset \/ RunDestroyed

Users ==
  \/ LoopConnect \/ LoopStop \/ Disconnect \/ Destroy
  \/ ThreadQueue \/ \E op \in ThreadOps : ThreadFlags(op)

Next == LoopThread \/ Users

Spec == Init /\ [][Next]_vars

(***************************************************************************)
(* Properties.                                                             *)
(***************************************************************************)

\* No assert() of Connector and of TcpClient::removeConnection() fails, and no functor
\* of the Connector, which has only its address, runs after its end.
NoAssertFails == failed = "none"

\* connector.cc:48, assert(state_ == kDisconnected) in startInLoop(), holds when
\* connect() is called on a client that has no attempt, timer or connection left.
IdleClientConnects == ~(failed = "startInLoop" /\ fds = 0 /\ timers = 0)

\* connector.cc:36, assert(!channel_) in ~Connector.
DestructedWithoutChannel == failed # "dtor"

\* connector.cc:42 and 62, "FIXME: unsafe": startInLoop() and stopInLoop() are queued
\* with the address of the Connector.
ConnectorOutlivesCalls == failed # "freed"

\* connector.cc:132, assert(!channel_) in connecting().
ChannelIsReset == failed # "connecting"

\* Every socket that connect() makes is closed or belongs to the attempt in
\* progress or to a connection, through retries, stop() and late successes.
SocketsAccounted ==
  fds = conns + (IF channel_ = "on" THEN 1 ELSE 0)

\* There is one attempt at a time: a retry timer, or an attempt that the loop
\* watches, or a connection.
SingleAttempt ==
  /\ state_ = "kConnecting" <=> channel_ = "on"
  /\ timers + (IF state_ = "kDisconnected" THEN 0 ELSE 1) <= 1

\* While the Connector is to connect, and connect(2) did not fail for good, it
\* is never left without an attempt, a connection, a timer or a functor that
\* goes on.
NeverForgotten ==
  connects > 0 /\ connect_ /\ ~gaveUp /\ state_ = "kDisconnected" =>
    timers > 0 \/ thread = "start" \/ Contains(pending \o batch, "startInLoop")

\* connector.h:42, stop() "can be called in any thread": no connection attempt is made
\* after it, up to the next connect().
StopIsFinal == late = {}

\* The same of every stop() but the one that another thread calls between
\* removeConnection()'s test of connect_ and restart(), which stores true over it.
NoAttemptAfterStop == "yes" \notin late

\* No attempt can succeed and call TcpClient::newConnection() once the client
\* is destructed.
NoAttemptWithoutClient ==
  ~client => ~(state_ = "kConnecting" /\ connect_)

\* No attempt is made after stop(), from whichever thread, unless restart() is due in
\* the very moment of the call, and none that could call into the client is left when
\* it is destructed.
NoLateAttempt == NoAttemptAfterStop /\ NoAttemptWithoutClient
==============================================================================
