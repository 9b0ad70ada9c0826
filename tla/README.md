# ccnet in TLA+

Models of ccnet, a reactor network library (`src/base`, `src/net`): TLA+ modules
translated from the C++ source, configurations with which TLC checks them on
small instances, and proofs that TLAPS checks for every value of the constants.
`PROJECT.json` lists the components, the runs, the source lines behind each
definition, the hazards, the findings and the theorems.

## The system

One `EventLoop` per thread polls descriptors, calls the handlers of the
`Channel`s that are ready and then runs the functors that other threads queued.
Everything else is built on that hand-over. `TimerQueue` is a channel on a
timerfd. `EventLoopThreadPool` owns threads with a loop each. `Acceptor` and
`TcpServer` live in a base loop, spread `TcpConnection`s over the io loops and
carry them back for removal. `Connector` and `TcpClient` make connections and
retry. `Buffer` holds the bytes of a connection. Apart from the loops, `base`
has blocking queues and a `ThreadPool` on condition variables, and calendar and
time zone arithmetic. The Sudoku example uses all of it: a server whose pool of
threads solves the puzzles, and a client that sends a file of them.

| Module | Models | State and actions |
| --- | --- | --- |
| `EventLoop` | `net/event_loop.*` | the owner's position in `loop()`, the flags, `pendingFunctors_`, the eventfd; each caller has a position between its push (or its store to `quit_`) and its `wakeup()` |
| `SerialExecutor` | what `EventLoop` promises | a queue of functors, run one at a time |
| `Buffer` | `net/buffer.*`, `net/endian.h` | a record with the vector and the two indices; one action per call |
| `ByteQueue` | what `Buffer` promises | a byte string that grows and shrinks at both ends |
| `TimerQueue` | `net/timer_queue.*`, `timer.*`, `timer_id.h` | both sets, the heap of `Timer` objects with reused addresses, the timerfd, the batch of `handleRead()` |
| `EventLoopThreadPool` | `net/event_loop_threadPool.*`, `event_loop_thread.*`, start and join of `base/thread.cc` | the owner and each thread step by step |
| `Channel` | `net/channel.*`, `updateChannel`/`removeChannel` of `net/epoller.cc` | operators on a channel and its entry in epoll |
| `EPollPoller` | `net/epoller.*`, `net/poller.*`, the calls of them in `net/event_loop.cc` | the map `channels_`, every Channel's `index_` and `events_`, the kernel's table, `activeChannels_`; `TcpConnection`s and `Connector`s make, update, hand over, close and destroy Channels, in this loop or by way of the server's, and descriptors and memory are used again. The registration of one Channel is that of `Channel` |
| `TcpConnection` | `net/tcp_connection.*`, its owner in `net/tcp_server.cc` | one connection, its loop, its callers, its socket |
| `TcpServer` | `net/tcp_server.*`, `net/acceptor.*` | the table, the loops' functors, descriptors, the destructor |
| `TcpClient` | `net/tcp_client.*`, `net/connector.*` | attempts, retry timers, the connection |
| `BoundedBlockingQueue` | `base/bounded_blocking_queue.h`, `base/blocking_queue.h` (`maxSize = 0`) | waiting and woken threads, the queue |
| `ThreadPool` | `base/thread_pool.*` | workers, callers, `stop()` |
| `Date` | `base/date.*`, the UTC half of `base/time_zone.cc` | a calendar turned day by day; the code's formulas as operators |
| `TimeZone` | the local half of `base/time_zone.cc` | a zone's table and the time converted |
| `DancingLinks` | the links of `net/sudoku/sudoku.cc` | a doubly linked ring and the edits `cover()` and `uncover()` make, as operators |
| `SudokuSolver` | `net/sudoku/sudoku.*` | the exact cover matrix, the stack and the search, one step per choice, cover and return |
| `SudokuService` | `net/sudoku/server_threadpool.cc`, `net/sudoku/batch.cc` | composition of server, thread pool and clients: the byte streams of each connection, tasks and answers under way, the client's count |

`MC*` modules give TLC its sets; `*Proofs` modules hold the theorems.
`MCSequential` puts the three parts that run in one thread and share nothing
(`Buffer`, the calendar, the solver) side by side, one of them per behaviour.
Where the code runs without a lock between two steps (a test of `state_` and the store
after it, a push and its wakeup, a check of `loop_` and its second read) the
model has two actions. A stretch under a mutex, and a handler of a loop thread
up to a user callback, is one. A failed `assert()` is recorded in `failed` and
ends the behaviour. Definitions marked "Mutant" are deliberate faults. They are
used by no action, and serve to show that a property can fail.

## What the runs check

Eleven runs pass. What would have to go wrong in the code for each to fail:

* `event_loop`: a wakeup or a `quit()` that is lost between push and poll;
  functors out of order, lost or run twice (the loop implements
  `SerialExecutor`); a functor that waits although the loop runs. Poll's timeout
  is not relied on. The functors that do need it are those the owner queues outside
  `loop()`, or in a destructor that runs when `doPendingFunctors()` destructs its
  batch, after the flag was lowered; `NoLostWakeup` says so.
* `timer_queue`: a timer leaked or deleted twice, a stale `TimerId` that hits a
  new timer, a timerfd set for a moment that is too late, a cancelled timer that
  its own restart brings back.
* `loop_threads`: a `loop_` that is not NULL and dangles; in the pool's `loops_`
  another thread's loop, or a loop that is gone although nobody called `quit()` on it;
  a `start()` that hangs although the thread was made and is in its loop.
* `poller`: an entry of the kernel's table that points to a Channel which is gone,
  has another descriptor or asked for other events; a handler called for a Channel
  that an earlier handler of the same turn removed; an assertion of `epoller.cc`,
  `~Channel` or `handleClose()`; a descriptor passed over for ever because the
  event list is too short. Five ways of using a connection or a server are left to
  the Departures (`AllMisuses`); of the others all are there, a connection that is
  shut down and one that waits for another loop to remove it among them.
* `connection`: a failed assertion of the life cycle, bytes out of order,
  EPOLLOUT watched without data or data without EPOLLOUT, FIN before data, a
  shutdown that never completes, a connection that is never freed.
* `server`: functors that carry a connection between loops and meet it in the
  wrong state, a connection that is forgotten on the way, peers never served
  once descriptors ran out, a destructor that hangs although each thread had
  entered `loop()` when it called `quit()`.
* `client`: leaked sockets, a client that forgets to try, an attempt after
  `stop()` of either thread or after the client is gone, a functor of a Connector
  that is gone. The one `stop()` that is excepted comes between the test of `connect_`
  in `removeConnection()` and `restart()`.
* `bounded_queue`, `thread_pool`: notifications that reach nobody who can use
  them. The pool's liveness properties name the ways in which it really can
  wait for ever: every worker is in a task that waits in `run()`, and `stop()`
  does not wake callers that wait for room. While calls of `run()` wait, one after
  the other gets room, but a single one may be passed over for ever.
* `sequential_code`: a vector that grows with traffic; bytes lost or moved wrongly
  by `makeSpace()`, `shrink()` or the split read of `readFd()`; a line that
  `findCRLF()` or `findEOL()` cut in the wrong place; a date formula that is wrong
  on one day of six centuries, a second before 1970; on two of the days, local time
  around transitions and in the repeated hour of autumn; links that an undone branch of the
  search leaves wrong, a solution that is none, a solution that is not found.
* `sudoku_service`: a request answered twice, not at all or on another connection;
  a refusal without a reason; a client that quits before all is answered, or,
  with puzzles that have solutions, never.

The modules state more than the runs list. `TypeOK` where a module has one, and
`QuitStopsLoop`, `ExecutorProgress`, `SameTimers`, `RunsWhenDue`, `DueTimersRun`,
`RoundRobin`, `NoLoopOutlivesPool`, `CallbacksPaired`, `QuietOnceClosed`,
`TableIsCurrent`, `IdleFdReserved`, `ReleasedWithServer`, `ClosedIsDestroyed`,
`SingleAttempt`, `IndicesOrdered`, `PrependRoom`, `IntegersSurvive`, `ItemIsTaken`,
`FirstInFirstOut` and `TakenInOrder` hold in the same configurations once added to
them. `DueTimersRun` and `ItemIsTaken` need `FairSpec` there, and `DueTimersRun` was
checked with `MaxTimers` 2 and with `Horizon` 2, as liveness costs TLC more.

One run fails, and is meant to. It checks a sentence of the source, and TLC returns
the steps by which the code departs from it. `connection_send_then_shutdown`:
`send()` and then `shutdown()` of another thread can lose the message.

## Departures

The passing runs describe programs that use the library in a certain way. Outside
it the code departs from its own comments and assertions, and the models show
where. Each line gives the property and the change of the configuration under
which TLC finds it violated; replace the properties of the configuration by the
one named, and add `CHECK_DEADLOCK FALSE`, as another assertion may fail first and
end a behaviour.

| Property | Configuration | What happens |
| --- | --- | --- |
| `AddTimerReadsItsTimer` | `MCTimerQueue.cfg` | `addTimer()` of another thread reads `timer->sequence()` after handing the timer over (`timer_queue.cc:120`); the loop may have run and deleted it. `timer_queue.h:40`: "Must be thread safe." |
| `CancelledNeverActive` | `MCTimerQueue.cfg` | a `cancel()` in the loop thread overtakes the functor that inserts a timer of another thread, finds nothing, and the timer stays |
| `FunctorsWake` | `MCEventLoop.cfg` | a functor that the loop's own thread queues outside `loop()`, or in a destructor at the end of a batch, is followed by no wakeup and waits up to `kPollTimeMs` (`event_loop.cc:177`, `292`) |
| `StartLoopReturnsLoop` | `MCPool.cfg` | `startLoop()` reads `loop_` again after the unlock (`event_loop_thread.cc:53`), when a loop that its init callback told to quit is gone, and returns NULL |
| `DestructorReturns` | `MCPool.cfg`, `numThreads_ = 1`, `CreateFails = FALSE`, `MaxTurns = 1` | `quit()` before `loop()` is overwritten, and the join in `~EventLoopThread` never returns. `event_loop.cc:108`: "quit_ = false;  // FIXME: what if someone calls quit() before loop() ?" |
| `QuitFindsLoop` | `MCPool.cfg` | the `quit()` of `~EventLoopThread()` stores to, or wakes up, a loop that is gone: "still a tiny chance to call destructed object" (`event_loop_thread.cc:32`) and "then we are accessing an invalid object" (`event_loop.cc:143`) |
| `DestructorAlwaysReturns` | `MCTcpServer.cfg` | the same `quit_ = false` in a server that is destructed right after `start()`: `~TcpServer` never returns |
| `NoAssertFails` | `MCEPollPoller.cfg`, `Misuses = {"destroyInCallback"}` | a callback destroys the `TcpServer`, whose connections are removed from the poller in the middle of the dispatch, and `EventLoop::removeChannel()` asserts that a Channel of `activeChannels_` is not removed by another's handler (`event_loop.cc:233`) |
| `NoAssertFails` | `MCEPollPoller.cfg`, `Misuses = {"destroyClosing"}` | the server goes while a connection is `kDisconnecting`, and `connectDestroyed()` removes a Channel that still waits for events (`channel.cc:55`), as for `RemovedQuiet` below |
| `NoAssertFails` | `MCEPollPoller.cfg`, `Misuses = {"closeStopped"}` | `forceClose()` of a connection that waits for no event: the update without events adds its Channel to epoll again (`epoller.cc:122`), as for `ClosedOnce` below |
| `NoAssertFails` | `MCEPollPoller.cfg`, `Misuses = {"stopListed"}` | `stopRead()` of a connection whose event is still to be handled in this turn: the handler then closes a Channel that is not in epoll, and its `disableAll()` adds it again |
| `NoAssertFails` | `MCEPollPoller.cfg`, `Misuses = {"readClosed"}` | `startRead()` or `stopRead()` after `handleClose()` puts the Channel back into epoll, and into `channels_` once it was removed, where `~Channel` finds it (`channel.cc:35`) |
| `TablesAgree` | the same, but for `destroyClosing` | a Channel that is closed is in the kernel's table, or one that is removed is still in `activeChannels_` |
| `NeverAborts` | `MCSudokuService.cfg` | a request that is cut after 83 to 100 bytes without its line end reaches the `LOG_FATAL` of `server_threadpool.cc:85`; line 77 counts an id, the cells and the line end |
| `DestructedDown` | `MCTcpConnection.cfg`, `Usages <- ShutdownRace` | `shutdown()` tests `state_` and stores `kDisconnecting` over the `kDisconnected` of `handleClose()`; the assertion in `~TcpConnection` fails (`tcp_connection.cc:70`) |
| `ClosedOnce` | `Usages <- StopAndClose` | `stopRead()` in the down callback updates a channel without events, `updateChannel()` adds it to epoll again, and EPOLLHUP closes the connection a second time (`tcp_connection.cc:394`) |
| `RemovedQuiet` | `Usages <- StartWhileClosing` | `startReadInLoop()` does not look at `state_` and registers a closed connection again (`tcp_connection.cc:281`); `channel.h:69` wants `disableAll()` before `remove()` |
| `RemovedQuiet` | `Usages <- DestructWhileClosing` | `connectDestroyed()` calls `disableAll()` only if `kConnected`, and `~TcpServer` calls it on one that is `kDisconnecting` (`tcp_connection.cc:317`) |
| `RemovedUnlisted`, `NoChannelDiesInItsEvent`, `ServerIsThere` | `Usages <- DestructInHandler` | the server is destructed in a callback, or in a handler of the same turn: a connection whose event is to be handled is removed (`event_loop.cc:233`), the Acceptor's Channel dies while its event is handled (`channel.cc:31`), or `closeCallback_` calls a server that is gone (`tcp_server.cc:107`) |
| `NoAssertFails` | `MCTcpConnection.cfg`, `DropsEarly = TRUE` | a functor bound to a raw `this` runs on a freed connection; the FIXME in `tcp_connection.cc` |
| `AlwaysKept` | `MCTcpServer.cfg` | `~TcpServer` queues `connectDestroyed()` in io loops and then quits them; a loop that is past its functors leaves it unrun (`tcp_server.cc:51`) |
| `ServerOutlivesRemoval` | `MCTcpServer.cfg` | `removeConnectionInLoop()` runs on a destructed server; the "FIXME: unsafe" at `tcp_server.cc:114` |
| `AcceptorOutlivesStart` | `MCTcpServer.cfg` | `listen()` queued by `start()` of another thread runs on a destructed `Acceptor` |
| `StopIsFinal` | `MCTcpClient.cfg` | `restart()` stores true to `connect_` over a `stop()` of another thread (`connector.cc:124`); `connector.h:42`: "can be called in any thread" |
| `IdleClientConnects` | `MCTcpClient.cfg`, `retry_ = FALSE`, `MaxConnects = 2` | `Connector::state_` stays `kConnected` when the connection goes down, and the next `connect()` fails an assertion (`connector.cc:48`) |
| `DestructedWithoutChannel` | `MCTcpClient.cfg`, `EarlyDestroy = TRUE` or `SlowLoop = TRUE` | `resetChannel()` is only queued when the `Connector` goes, or the timer of `~TcpClient` is due before it has run; `assert(!channel_)` fails (`connector.cc:36`) |
| `ConnectorOutlivesCalls` | the same | a functor of the Connector, which has only its address, runs after its end; "FIXME: unsafe" (`connector.cc:42`, `62`, `150`) |
| `ChannelIsReset` | `MCTcpClient.cfg`, `SlowLoop = TRUE` | a turn of the loop takes longer than the delay of the retry that it set, and the next attempt finds `channel_` not yet reset (`connector.cc:132`) |
| `StandardTimeFirst` | `MCSequential.cfg` | before the first transition the first type of the file is taken, daylight saving time or not: "FIXME: should be first non dst time zone" (`time_zone.cc:224`) |
| `ValidZoneHasType` | `MCSequential.cfg` | `readTimeZoneFile()` returns true for a file that is missing or ends before its types, and `valid()` says so; the first conversion reads `front()` of an empty vector (`time_zone.cc:225`) |

More about the Sudoku example: a line that is too long is refused or taken
depending on where TCP cuts it; requests that were taken before a bad one are not
answered once the bad one has shut the connection down (`server_threadpool.cc:73`);
and the batch client looks for an answer only when it has the bytes of a solution
(`batch.cc:111`), so that it never counts a last answer that is shorter,
"NoSolution" or "Bad Request!", and waits for ever. `BatchFinishes` is therefore
stated for puzzles that have solutions and lines that are not too long, in
behaviours without the abort.

Besides, tasks that wait in the queue of a `ThreadPool` when `stop()` is called are
never run, although `thread_pool.cc:76` says that `run()` adds and runs them;
`WorkGoesOn` excludes them by `~running_`. A caller that waits for room may also wait
for ever beside others that never cease to call: the mutex may go to a call that begins
before it goes to the caller that was notified. For the server `Orderly` is the
condition: `NoAssertFails` and `ConnectionsKept` are stated for behaviours in
which no server with io threads is destructed, and a late `listen()` is left to
`AcceptorOutlivesStart`.

## Bounds

Every bound is a constant named `Max...`, or `Horizon`, or the size of a set.

* `event_loop`: two callers, one channel, three functors: one in the batch, one
  pushed while it runs, one pushed by another thread.
* `timer_queue`: three timers at two addresses, so that one is reused; three
  moments, so that a timer can be set for the last and another for an earlier one.
* `loop_threads`: two threads, either of which may fail to start or be told to quit.
* `connection`: the four usages of `MCTcpConnection`, one per behaviour;
  messages of two bytes, so that a write can be partial, and a
  high-water mark between one message and two; two functors queued at once.
* `server`: three peers for three descriptors, one of them the idle one, and one
  descriptor opened by other code at the worst moment; no io loop or two.
* `client`: delays 500, 1000 and the cap, which is lowered to 1500.
* `bounded_queue`, `thread_pool`: more threads than places in the queue; six
  tasks, so that three workers, the queue and a caller can all have one.
* `poller`: two connections and a Connector for two descriptors, so that one is
  always used again, and an event list of one, so that it has to grow.
* `sequential_code`: for the buffer `kCheapPrepend` 2, an initial size of 1, calls of
  up to two bytes and four readable: the vector has to move data and to grow, and
  reads spill over. Bytes are 0 and 1, which stand for CR and LF too. The proofs
  remove these bounds. For the calendar, conversions of seconds from 1902 to 2037,
  because TLC's integers have 32 bits; local time on two days in 240 zones, and in
  zones whose file ends in or before its types. For the
  solver, 901 boards of 4 x 4: with one solution, with several, with none, with a
  digit that is none, and empty, which takes the last node of the array.
* `sudoku_service`: up to three requests on one connection and one on each of two,
  with no pool thread or two. A puzzle has 2 cells, a line at most 6 bytes, and
  streams are cut at every byte: there are requests with an id, without a solution,
  with a cell too many and longer than a line.

Deadlock is checked except where the system may stop: when the bounded work is
done, or a pool or server is gone.

## Fairness

`timer_queue`, `client`, `bounded_queue` and `sequential_code` assume none. The
others assume that threads are scheduled and callbacks return (weak fairness of
each thread's steps), and nothing of users, who need not call anything. Beyond
that:

* `event_loop` does not assume that poll times out.
* `connection`: the peer goes on reading, and a timer that is set fires. Strong
  fairness stands for a timerfd that stays readable until it is handled.
* `server`: strong fairness of accepting and of each loop's functors, because
  the listening channel is level-triggered and every turn of a loop gets round
  to its ready descriptors and then to its functors. Weak fairness would let
  the base loop spin on the backlog and never run a functor.
* `poller`: weak fairness of the loop thread as a whole. Which of the ready
  descriptors `epoll_wait()` returns is left open.
* `sudoku_service`: weak fairness of the pool's threads and of what a loop does once
  it is in a callback; strong fairness of arrivals, sends and connects, which a
  loop gets round to in every turn although another callback may come first.
* `thread_pool`: a woken thread gets the mutex; nothing is assumed about which
  waiter `notify()` picks.

## What is proved

For any threads, channels, sizes and data, from the named `ASSUME`s alone. Where a
theorem holds only for programs that use the library in a certain way, its statement
assumes that; the Departures show what happens otherwise.

| Module | Proves about |
| --- | --- |
| `CoreProofs` | `EventLoop`, `Buffer`, `BoundedBlockingQueue`, `DancingLinks` |
| `TimerQueueProofs` | `TimerQueue` |
| `EPollAndThreadPoolProofs` | `EPollPoller`, `ThreadPool` |
| `LoopPoolAndClientProofs` | `TcpClient`, `EventLoopThreadPool` |
| `ServerAcceptProofs`, `TcpServerProofs` | `TcpServer`: up to the steps that accept; the others, and the theorems |
| `TcpConnectionProofs`, `ConnectionLifeProofs` | `TcpConnection`: bytes, events and FIN; the assertions |

* The loop: `TypeCorrect`, `LoopLosesNoWakeup`, `LoopLosesNoQuit`,
  `FunctorsRunInPushOrder`, `LoopImplementsExecutor`. `NoLostWakeup` speaks of
  poll only and is not inductive: a functor may be pushed long before. The
  invariant adds `Covered` (outside the stretch from dispatch to the swap, which
  picks the functors up anyway, an uncovered functor is one of those queued
  outside `loop()` or at the end of a batch) and `LoopShape` (how the flags follow the position in
  `loop()`). The refinement takes `functors \o pendingFunctors_` for the queue.
* The buffer: `IndicesStayOrdered`, `PrependRoomKept`, `SizeStaysBounded`,
  `MakeSpaceAsserts`, `BufferImplementsByteQueue`, `CallsActExactly`. Lemmas on
  the private helpers (`Resize`, `MoveToFront`, `ensureWritableBytes`,
  `append`) say that they keep the content and make room. The invariant adds to
  the properties that the vector always has room for the prepend area.
* The blocking queues: `QueueIsFifo`, `NoItemWaitsForConsumer`,
  `NoPlaceWaitsForProducer` and, of both, `NoWaiterIsForgotten`. Order is proved
  place by place (`Numbered`); the notification theorems count woken threads
  with the cardinality lemmas at the head of the section.
* The thread pool: `NoWorkerIsForgotten`, `NoCallerIsForgotten` and, of both,
  `PoolForgetsNobody`. The invariant `Places` says who may be on which condition
  variable; the counts are those of the queue, with workers that are also callers
  when a task calls `run()`.
* The loop threads: `LoopPointersAreLive`, `NoLoopIsLeft` and `PointersAreToLoops`,
  whatever the init callbacks and the users do. The invariant `PoolSound` says how far each thread is by where the owner is: a
  thread `start()` has left behind has published its loop, one that
  `~EventLoopThread()` has left behind has ended it, and `loop_` is set in exactly
  the stretch between. `EndsIfTold` adds that a loop ends only if `quit()` was called
  on it.
* The timers: `SetsAgree`, `TimersOwnedOnce`, `CancelledTimersStayOut`,
  `TimersAreNotLost`, `AlarmIsInTime`. All rest on `Owners`: a live `Timer` is in one
  functor that will add it, in both sets under its own expiration and sequence, or
  in the batch; and a freed one is in none. On top of it `Gone` (what is cancelled
  and still live is in the batch and in `cancelingTimers_`), `Remembered` (the
  history agrees with the objects) and `AlarmInTime` (within `handleRead()` the alarm
  may be off, as `reset()` sets it again).
* The poller: `AssertionsHold` and `TablesStayAgreed`, for any numbers of
  connections, connectors and descriptors and any event list, under `Usage`: the
  program does none of `AllMisuses`. The properties speak of the tables only and are
  not inductive, because what a functor or a handler will do to them depends on who is
  queued. The invariant `PollerSound` adds `TablesSound` (a registered Channel has its
  descriptor to itself, `channels_` and the kernel have what its `index_` says, and a
  Channel that is closed waits for no event), `Kinds` (which owners
  go through which states), `QueuesFit` (a queued functor finds its Channel as it was
  when it was queued, no Channel has two functors, and a connection that is closed is
  not in the kernel's table) and `ActiveFits` (what is left of `activeChannels_` is
  registered and in the kernel's table, each Channel once).
* The connection. `StreamIsIntact` needs no usage: what the kernel has, then
  `outputBuffer_`, then the functors in their order, is what was accepted.
  `EventsStayInStep` assumes a `Polite` usage (no other thread closes the connection,
  or nothing but `shutdown()` does) and `FinGoesLast` an `Ordered` one (besides, the
  other threads do not both send and shut down, which is what
  `connection_send_then_shutdown` does). Their invariants are `StreamInv`, `EventsInv`
  and `FinInv`. `NothingIsAsserted` assumes a `Careful` usage (polite, with reading
  stopped only while nothing forces the connection closed, and the server destructed
  only by the connection's own loop, outside the handling of events, while nobody shuts
  the connection down) and that no functor is left with a raw `this` to a freed
  connection: from `connectEstablished()` to the
  destructor no assertion of `TcpConnection`, of its `Channel` or of its server fails.
  `NoAssertFails` says nothing of the future, and the invariant has to: `AskInv`
  (which functors can be queued, and that a functor with a raw `this` waits only while
  a thread holds the connection), `TableInv` (the Channel and its entry in epoll) and
  `StageInv`, in which a connection that is up is in the server's map, one that is down
  is in exactly one place on its way to `connectDestroyed()`, and what is left of the
  handler in progress has one of a few shapes. `MCTcpConnection` assumes `SoundUsages`,
  so that TLC evaluates that the usages of the run are ordered and careful.
* The server: `FunctorsMeetTheirConnection`, `ConnectionsAreKept`, `TableStaysCurrent`,
  `IdleFdComesBack`, `LoopsAreReleased`, for any numbers of loops, peers and
  descriptors. The invariant `ServerInv` follows a functor from loop to loop: `RouteInv`
  (it is queued in the loop it belongs to), `Life` (each connection has exactly the
  functor that takes it on from where it is), `BatchInv` (a batch that runs keeps its
  connections alive), `DtorInv` (threads quit after the table is empty, one by one) and
  `IdleInv`, which counts descriptors: `accept()` and the idle one never need more than
  there are.
* The client: `SocketsAreAccounted`, `ConnectIsNotForgotten` and `NoAttemptIsLate`,
  whatever the users call and however often, from `ClientInv` (one connection at most,
  the attempt in progress has the channel, `resetChannel()` comes once for each channel
  that is off, and one that was stopped is neither to connect nor about to be restarted);
  `ConnectorNeverAsserts` and `OneAttemptAtATime` for a program that calls `connect()`
  once, lets the functors of the Connector run before it destructs a client with a
  connection, and has no turn of its loop that outlasts a timer (`ConnectsOnce`), from
  `OnceInv`, which adds that whoever may start an attempt finds the Connector at rest.
* The links of the Sudoku matrix: `PutBeforeLinks`, `UnlinkKeepsOthers`,
  `RelinkUndoesUnlink`, `LastOutFirstIn`: why the search may edit the matrix in place,
  for rings over any nodes.

Only model-checked: liveness and fairness, which this prover does not cover;
`IntegersSurvive`, whose decoding is recursive over bytes; `CalendarAgrees`,
`LinksAreWhatIsLeft` and `SolvesPuzzle`, which say what a calendar turned day by day, a
table look-up and a search compute, and would need induction over data; and the
`SudokuService`, whose invariants sum over the requests and answers of byte streams.

## Limits of the models

* The build with assertions is described. `sockets::close()` calls `close()`
  inside `assert()`, so that a build with `NDEBUG` never closes a descriptor.
* `assertInLoopThread()` is taken as kept by the callers; in the source its
  failure branch does nothing.
* `TimerQueue` has one clock; in the source expirations are wall-clock times and
  the timerfd is monotonic.
* `TcpServer` has each thread of its pool before the entry of `loop()` when `start()`
  returns, and does not say how `start()` itself can hang; `EventLoopThreadPool` does.
  `IdleFdReserved` is stated for a process in which only
  the Acceptor opens descriptors.
* `TimeZone` has zones whose summer time is one hour ahead. For others, and for
  standard time put back, `fromLocalTime()` has no rule that tells the two
  passings apart.
* `EPollPoller` has the Channels that are made while a loop runs. Those of the
  eventfd, the timerfd and the listening socket live as long as their loop or
  server and are only ever updated; they take no part in the reuse. Whether a
  connection is removed by this loop or by way of the server's is left open for each
  one, and a `shutdown()` that races with `handleClose()` is in `TcpConnection`.
* In `TcpConnection` a server that is destructed in the handler of another channel meets
  the connection's own event in the list of the turn, if it has one; which channel that
  other handler belongs to is not distinguished.
* `SudokuService` takes a connection, a loop and the pool as the other modules
  describe them: a stream of bytes each way, functors in order, tasks in order.

## Not modelled

* `Timestamp`: 64-bit arithmetic without branches, and formatting.
* `Logging`, `LogStream`, `StringPiece`: the wording of lines. The cached second of
  `Logging` is thread-local and changes nothing but text.
* `AsyncLogging`: not part of the build. Its file endings keep it out, its includes
  name another library, and the `LogFile` it writes to is not in the repository.
* `Socket`, `sockets_ops`, `InetAddress`: single system calls. The outcomes that the
  callers handle are actions of the modules that call them.
* `Singleton`, the thread-local helpers, `Atomic`, `Exception`, `CurrentThread`: one
  call of a pthread or compiler primitive each, without a protocol of their own.
* Of modelled components: the bytes of zone files and date formatting, detached
  threads and exceptions that leave a thread function, tracing, `main()` of the
  examples.
