------------------------------ MODULE TcpServer ------------------------------
(***************************************************************************)
(* net/tcp_server.{h,cc} and net/acceptor.{h,cc}: one server with its      *)
(* Acceptor and its table of connections in the base loop, the io loops of *)
(* its thread pool, and the descriptors of the process.                    *)
(*                                                                         *)
(* A connection is what TcpConnection.tla shows of it, seen from the       *)
(* server: made, up, down (handleClose() ran) and gone (connectDestroyed() *)
(* ran); its socket is open for as long as somebody holds it.  A loop is   *)
(* what EventLoop.tla shows of it: the reset of quit_ at the entry, then   *)
(* events, a batch of functors and the test of quit_, over and over.       *)
(***************************************************************************)
EXTENDS Integers, Sequences, FiniteSets

CONSTANTS
  ThreadNums,   \* numbers of io loops that setThreadNum() is given
  FdLimit,      \* descriptors left for the idle one, connections and others
  MaxOpens,     \* bound: descriptors that other code of the process opens
  MaxConns,     \* bound: peers that connect
  PeersClose,   \* connections may be closed
  StartsElsewhere,  \* another thread may call start()
  ServerDies    \* the server may be destructed

ASSUME ServerAssumption ==
  /\ IsFiniteSet(ThreadNums) /\ ThreadNums \subseteq Nat /\ ThreadNums # {}
  /\ {MaxOpens, MaxConns} \subseteq Nat /\ FdLimit \in Nat \ {0}
  /\ {PeersClose, StartsElsewhere, ServerDies} \subseteq BOOLEAN

Base == 0
Conns == 1 .. MaxConns

VARIABLES
  numThreads_,   \* io loops; with none the base loop serves the connections
  started_,
  listenning_,
  acceptor,      \* where handleRead() is: idle, or after which call of its EMFILE branch
  idleFd_,       \* null: /dev/null; conn: a connection; none: -1
  others,        \* descriptors of other code
  opened,        \* history: how many it has opened
  backlog,       \* connections of the kernel not accepted yet
  arrived,       \* history: peers that have connected
  conn,          \* none, made, up, down, gone
  ioLoop,        \* the loop of each connection
  nextConnId_,
  next_,         \* of the thread pool
  connections_,
  pending,       \* pendingFunctors_ of each loop
  batch,         \* what is left of the functors that doPendingFunctors() swapped out
  held,          \* connections in that batch, until it is destructed
  phase,         \* enter (loop() comes next), poll (and the events it reports),
                 \* functors (and the while condition after them), exited
  quit_,
  dtor,          \* where ~TcpServer is: none, conns, quit, join, gone
  current,       \* the thread it destructs
  failed         \* the first assertion that failed

acceptVars == <<started_, listenning_, acceptor, idleFd_, others, opened, backlog, arrived>>
connVars == <<numThreads_, conn, ioLoop, nextConnId_, next_, connections_>>
loopVars == <<pending, batch, held, phase, quit_>>
vars == <<acceptVars, connVars, loopVars, dtor, current, failed>>

Loops == Base .. numThreads_

Functors == [fn : {"connectEstablished", "connectDestroyed", "remove"}, of : Conns]
Listen == [fn |-> "listen", of |-> 0]
Functor(fn, c) == [fn |-> fn, of |-> c]

TypeOK ==
  /\ {started_, listenning_} \subseteq BOOLEAN
  /\ acceptor \in {"idle", "closed", "accepted", "reopen"} /\ idleFd_ \in {"null", "conn", "none"}
  /\ numThreads_ \in ThreadNums
  /\ others \in 0 .. opened /\ opened \in 0 .. MaxOpens /\ backlog \in 0 .. MaxConns /\ arrived \in 0 .. MaxConns
  /\ conn \in [Conns -> {"none", "made", "up", "down", "gone"}] /\ ioLoop \in [Conns -> Loops]
  /\ nextConnId_ \in 1 .. MaxConns + 1 /\ next_ \in 0 .. numThreads_
  /\ connections_ \subseteq Conns
  /\ {pending, batch} \subseteq [Loops -> Seq(Functors \cup {Listen})]
  /\ held \in [Loops -> SUBSET Conns]
  /\ phase \in [Loops -> {"enter", "poll", "functors", "exited"}] /\ quit_ \in [Loops -> BOOLEAN]
  /\ dtor \in {"none", "conns", "quit", "join", "gone"} /\ current \in 1 .. numThreads_ + 1
  /\ failed \in {"none", "listen", "established", "erase", "server"}

Init ==
  /\ numThreads_ \in ThreadNums
  /\ started_ = FALSE /\ listenning_ = FALSE /\ acceptor = "idle" /\ idleFd_ = "null"
  /\ others = 0 /\ opened = 0 /\ backlog = 0 /\ arrived = 0
  /\ conn = [c \in Conns |-> "none"] /\ ioLoop = [c \in Conns |-> Base]
  /\ nextConnId_ = 1 /\ next_ = 0 /\ connections_ = {}
  /\ pending = [l \in Loops |-> <<>>] /\ batch = [l \in Loops |-> <<>>]
  /\ held = [l \in Loops |-> {}]
  /\ phase = [l \in Loops |-> IF l = Base THEN "poll" ELSE "enter"] /\ quit_ = [l \in Loops |-> FALSE]
  /\ dtor = "none" /\ current = 1 /\ failed = "none"

\* Connections of a queue of functors.
ConnsOf(functors) == {functors[i].of : i \in DOMAIN functors} \ {0}

\* Somebody holds a TcpConnectionPtr.
Referenced(c) ==
  \/ c \in connections_
  \/ \E l \in Loops : c \in held[l] \/ c \in ConnsOf(pending[l])

Fds ==
  Cardinality({c \in Conns : conn[c] # "none" /\ Referenced(c)}) + others
    + (IF idleFd_ = "none" THEN 0 ELSE 1)
FreeFd == Fds < FdLimit

Running == failed = "none"

\* The base loop's thread may run another handler.
BaseFree == Running /\ acceptor = "idle" /\ dtor \in {"none", "gone"}
Free(l) == Running /\ (l = Base => BaseFree)

Queue(l, functor) == pending' = [pending EXCEPT ![l] = Append(@, functor)]

(***************************************************************************)
(* The Acceptor.                                                           *)
(***************************************************************************)

\* TcpServer::start(), from the base loop's thread or from another one; later calls
\* find started_ set and do nothing.
Start ==
  /\ Running /\ ~started_ /\ dtor = "none"
  /\ started_' = TRUE
  /\ \/ BaseFree /\ listenning_' = TRUE /\ UNCHANGED pending
     \/ StartsElsewhere /\ Queue(Base, Listen) /\ UNCHANGED listenning_
  /\ UNCHANGED <<acceptor, idleFd_, others, opened, backlog, arrived, connVars, batch, held, phase, quit_,
                 dtor, current, failed>>

\* EventLoopThreadPool::getNextLoop(): the loop, and next_ after it.
NextLoop == IF numThreads_ = 0 THEN Base ELSE next_ + 1

NextAfter == IF next_ + 1 >= numThreads_ THEN 0 ELSE next_ + 1

\* TcpServer::newConnection(); connectEstablished() runs at once in the base loop
\* and is queued in an io loop.
newConnection ==
  LET c == nextConnId_
      l == NextLoop
  IN  /\ nextConnId_' = nextConnId_ + 1
      /\ next_' = NextAfter
      /\ ioLoop' = [ioLoop EXCEPT ![c] = l]
      /\ connections_' = connections_ \cup {c}
      /\ conn' = [conn EXCEPT ![c] = IF l = Base THEN "up" ELSE "made"]
      /\ IF l = Base THEN UNCHANGED pending ELSE Queue(l, Functor("connectEstablished", c))

\* The listening socket is readable in the base loop.
Acceptable == BaseFree /\ dtor = "none" /\ listenning_ /\ phase[Base] = "poll" /\ backlog > 0

\* Acceptor::handleRead(): accept() returns a descriptor.
Accept ==
  /\ Acceptable /\ FreeFd
  /\ backlog' = backlog - 1
  /\ newConnection
  /\ UNCHANGED <<numThreads_, started_, listenning_, acceptor, idleFd_, others, opened, arrived, batch, held, phase,
                 quit_, dtor, current, failed>>

\* Mutant: the failure of accept() is ignored.
IgnoreEmfile ==
  /\ Acceptable /\ ~FreeFd
  /\ UNCHANGED vars

\* Acceptor::handleRead(): accept() fails with EMFILE, and the idle descriptor is
\* closed.
AcceptFails ==
  /\ Acceptable /\ ~FreeFd
  /\ idleFd_' = "none" /\ acceptor' = "closed"
  /\ UNCHANGED <<started_, listenning_, others, opened, backlog, arrived, connVars, loopVars, dtor, current,
                 failed>>

\* The connection is accepted in its place, unless it is gone or other code took the
\* place.
AcceptIdle ==
  /\ Running /\ acceptor = "closed" /\ acceptor' = "accepted"
  /\ IF FreeFd /\ backlog > 0
     THEN idleFd_' = "conn" /\ backlog' = backlog - 1
     ELSE idleFd_' = "none" /\ UNCHANGED backlog
  /\ UNCHANGED <<started_, listenning_, others, opened, arrived, connVars, loopVars, dtor, current, failed>>

CloseIdle ==
  /\ Running /\ acceptor = "accepted" /\ acceptor' = "reopen"
  /\ idleFd_' = "none"
  /\ UNCHANGED <<started_, listenning_, others, opened, backlog, arrived, connVars, loopVars, dtor, current,
                 failed>>

\* open("/dev/null") succeeds if there is a descriptor.
ReopenIdle ==
  /\ Running /\ acceptor = "reopen" /\ acceptor' = "idle"
  /\ idleFd_' = IF FreeFd THEN "null" ELSE "none"
  /\ UNCHANGED <<started_, listenning_, others, opened, backlog, arrived, connVars, loopVars, dtor, current,
                 failed>>

PeerConnects ==
  /\ Running /\ dtor = "none" /\ arrived < MaxConns
  /\ arrived' = arrived + 1 /\ backlog' = backlog + 1
  /\ UNCHANGED <<started_, listenning_, acceptor, idleFd_, others, opened, connVars, loopVars, dtor, current,
                 failed>>

PeerAborts ==
  /\ Running /\ backlog > 0
  /\ backlog' = backlog - 1
  /\ UNCHANGED <<started_, listenning_, acceptor, idleFd_, others, opened, arrived, connVars, loopVars, dtor,
                 current, failed>>

\* Other code of the process opens or closes a descriptor.
OtherFd ==
  /\ Running
  /\ \/ opened < MaxOpens /\ FreeFd /\ others' = others + 1 /\ opened' = opened + 1
     \/ others > 0 /\ others' = others - 1 /\ UNCHANGED opened
  /\ UNCHANGED <<started_, listenning_, acceptor, idleFd_, backlog, arrived, connVars, loopVars, dtor,
                 current, failed>>

(***************************************************************************)
(* The connections.                                                        *)
(***************************************************************************)

\* Mutant: the connection is forgotten without connectDestroyed().
RemoveConnectionOnly(c) ==
  /\ connections_' = connections_ \ {c}
  /\ UNCHANGED pending

\* TcpServer::removeConnectionInLoop(), past its assertion.
removeConnectionInLoop(c) ==
  /\ connections_' = connections_ \ {c}
  /\ Queue(ioLoop[c], Functor("connectDestroyed", c))

\* The assertion of removeConnectionInLoop(), and the use of a destructed server.
RemoveFails(c) ==
  CASE dtor = "gone" -> "server"
    [] dtor # "gone" /\ c \notin connections_ -> "erase"
    [] OTHER -> "none"

\* Mutant: handleClose() leaves the events on, and is called again.
HandleCloseAgain(c) ==
  LET l == ioLoop[c]
  IN  /\ PeersClose /\ conn[c] \in {"up", "down"} /\ Free(l) /\ phase[l] # "exited"
      /\ conn' = [conn EXCEPT ![c] = "down"]
      /\ IF l = Base
         THEN IF RemoveFails(c) = "none"
              THEN removeConnectionInLoop(c) /\ UNCHANGED failed
              ELSE failed' = RemoveFails(c) /\ UNCHANGED <<connections_, pending>>
         ELSE Queue(Base, Functor("remove", c)) /\ UNCHANGED <<connections_, failed>>
      /\ UNCHANGED <<acceptVars, numThreads_, ioLoop, nextConnId_, next_, batch, held, phase, quit_, dtor, current>>

\* TcpConnection::handleClose() in the connection's loop, with the close callback
\* TcpServer::removeConnection().
HandleClose(c) ==
  LET l == ioLoop[c]
  IN  /\ PeersClose /\ conn[c] = "up" /\ Free(l) /\ phase[l] # "exited"
      /\ conn' = [conn EXCEPT ![c] = "down"]
      /\ IF l = Base
         THEN IF RemoveFails(c) = "none"
              THEN removeConnectionInLoop(c) /\ UNCHANGED failed
              ELSE failed' = RemoveFails(c) /\ UNCHANGED <<connections_, pending>>
         ELSE Queue(Base, Functor("remove", c)) /\ UNCHANGED <<connections_, failed>>
      /\ UNCHANGED <<acceptVars, numThreads_, ioLoop, nextConnId_, next_, batch, held, phase, quit_, dtor, current>>

(***************************************************************************)
(* The loops.                                                              *)
(***************************************************************************)

\* A thread of the pool, which start() did not wait for beyond the assignment of its
\* loop_, enters EventLoop::loop(): a quit() from before this line is forgotten.
EnterLoop(l) ==
  /\ Running /\ started_ /\ phase[l] = "enter"
  /\ quit_' = [quit_ EXCEPT ![l] = FALSE]
  /\ phase' = [phase EXCEPT ![l] = "functors"]
  /\ UNCHANGED <<acceptVars, connVars, pending, batch, held, dtor, current, failed>>

\* poll() returns, woken by a functor or by quit(); the functors are swapped out.
Swap(l) ==
  /\ Free(l) /\ phase[l] = "poll" /\ (pending[l] # <<>> \/ quit_[l])
  /\ batch' = [batch EXCEPT ![l] = pending[l]]
  /\ held' = [held EXCEPT ![l] = ConnsOf(pending[l])]
  /\ pending' = [pending EXCEPT ![l] = <<>>]
  /\ phase' = [phase EXCEPT ![l] = "functors"]
  /\ UNCHANGED <<acceptVars, connVars, quit_, dtor, current, failed>>

NextFunctor(l, fn) ==
  /\ Free(l) /\ phase[l] = "functors" /\ batch[l] # <<>> /\ Head(batch[l]).fn = fn
  /\ batch' = [batch EXCEPT ![l] = Tail(@)]
  /\ UNCHANGED <<held, phase, quit_, numThreads_, ioLoop, nextConnId_, next_, dtor, current>>

\* Acceptor::listen().
RunListen ==
  /\ NextFunctor(Base, "listen")
  /\ IF dtor = "gone"
     THEN failed' = "listen" /\ UNCHANGED listenning_
     ELSE listenning_' = TRUE /\ UNCHANGED failed
  /\ UNCHANGED <<started_, acceptor, idleFd_, others, opened, backlog, arrived, conn, connections_, pending>>

\* TcpConnection::connectEstablished() asserts that it is the first.
RunEstablished(l) ==
  LET c == Head(batch[l]).of
  IN  /\ NextFunctor(l, "connectEstablished")
      /\ IF conn[c] = "made"
         THEN conn' = [conn EXCEPT ![c] = "up"] /\ UNCHANGED failed
         ELSE failed' = "established" /\ UNCHANGED conn
      /\ UNCHANGED <<acceptVars, connections_, pending>>

\* TcpConnection::connectDestroyed().
RunDestroyed(l) ==
  /\ NextFunctor(l, "connectDestroyed")
  /\ conn' = [conn EXCEPT ![Head(batch[l]).of] = "gone"]
  /\ UNCHANGED <<acceptVars, connections_, pending, failed>>

RunRemove ==
  LET c == Head(batch[Base]).of
  IN  /\ NextFunctor(Base, "remove")
      /\ IF RemoveFails(c) = "none"
         THEN removeConnectionInLoop(c) /\ UNCHANGED failed
         ELSE failed' = RemoveFails(c) /\ UNCHANGED <<connections_, pending>>
      /\ UNCHANGED <<acceptVars, conn>>

\* The batch is destructed; a loop that is to quit leaves, and ~EventLoop drops the
\* functors that have come since.
FunctorsDone(l) ==
  /\ Free(l) /\ phase[l] = "functors" /\ batch[l] = <<>>
  /\ held' = [held EXCEPT ![l] = {}]
  /\ phase' = [phase EXCEPT ![l] = IF quit_[l] THEN "exited" ELSE "poll"]
  /\ pending' = [pending EXCEPT ![l] = IF quit_[l] THEN <<>> ELSE @]
  /\ UNCHANGED <<acceptVars, connVars, batch, quit_, dtor, current, failed>>

(***************************************************************************)
(* ~TcpServer, in the base loop's thread.                                  *)
(***************************************************************************)

Destroy ==
  /\ ServerDies /\ BaseFree /\ dtor = "none"
  /\ dtor' = "conns"
  /\ UNCHANGED <<acceptVars, connVars, loopVars, current, failed>>

\* One turn of the loop over connections_, which the names order: in any order.
DtorConn ==
  \E c \in connections_ :
    LET l == ioLoop[c]
    IN  /\ Running /\ dtor = "conns"
        /\ connections_' = connections_ \ {c}
        /\ IF l = Base
           THEN conn' = [conn EXCEPT ![c] = "gone"] /\ UNCHANGED pending
           ELSE Queue(l, Functor("connectDestroyed", c)) /\ UNCHANGED conn
        /\ UNCHANGED <<acceptVars, numThreads_, ioLoop, nextConnId_, next_, batch, held, phase, quit_, dtor, current,
                       failed>>

\* The thread pool goes, thread by thread, and then the Acceptor.
DtorMember(i) ==
  IF i > numThreads_ \/ ~started_
  THEN /\ dtor' = "gone" /\ listenning_' = FALSE /\ idleFd_' = "none" /\ backlog' = 0
  ELSE /\ dtor' = "quit" /\ UNCHANGED <<listenning_, idleFd_, backlog>>

DtorThreads ==
  /\ Running /\ dtor = "conns" /\ connections_ = {}
  /\ DtorMember(current)
  /\ UNCHANGED <<started_, acceptor, others, opened, arrived, connVars, loopVars, current, failed>>

\* Mutant: the thread is joined without quit().
DtorOnlyJoins ==
  /\ Running /\ dtor = "quit" /\ dtor' = "join"
  /\ UNCHANGED <<acceptVars, connVars, loopVars, current, failed>>

\* ~EventLoopThread.
DtorQuit ==
  /\ Running /\ dtor = "quit" /\ dtor' = "join"
  /\ quit_' = [quit_ EXCEPT ![current] = TRUE]
  /\ UNCHANGED <<acceptVars, connVars, pending, batch, held, phase, current, failed>>

DtorJoin ==
  /\ Running /\ dtor = "join" /\ phase[current] = "exited"
  /\ current' = current + 1
  /\ DtorMember(current + 1)
  /\ UNCHANGED <<started_, acceptor, others, opened, arrived, connVars, loopVars, failed>>

------------------------------------------------------------------------------

AcceptorStep == Accept \/ AcceptFails \/ AcceptIdle \/ CloseIdle \/ ReopenIdle

AllLoops == UNION {Base .. n : n \in ThreadNums}

LoopStep(l) ==
  /\ l \in Loops
  /\ \/ EnterLoop(l) \/ Swap(l) \/ RunEstablished(l) \/ RunDestroyed(l) \/ FunctorsDone(l)
     \/ l = Base /\ (RunListen \/ RunRemove)

Next ==
  \/ Start \/ AcceptorStep \/ PeerConnects \/ PeerAborts \/ OtherFd
  \/ \E c \in Conns : HandleClose(c)
  \/ \E l \in AllLoops : LoopStep(l)
  \/ Destroy \/ DtorConn \/ DtorThreads \/ DtorQuit \/ DtorJoin

Spec == Init /\ [][Next]_vars

\* Every thread goes on, and each turn of a loop gets round to the descriptors that
\* are ready and then to the functors, however often one of them comes up.
FairSpec ==
  /\ Spec
  /\ SF_vars(Accept \/ AcceptFails) /\ WF_vars(AcceptIdle \/ CloseIdle \/ ReopenIdle)
  /\ \A l \in AllLoops : SF_vars(LoopStep(l))
  /\ WF_vars(DtorConn \/ DtorThreads \/ DtorQuit \/ DtorJoin)

\* The server is not being destructed, or has no io threads and is destructed by the
\* one thread there is.
Orderly == dtor = "none" \/ numThreads_ = 0

\* The assertions of connectEstablished() and removeConnectionInLoop() hold, and no
\* removal reaches a server that is destructed: the functors that carry a connection
\* from loop to loop arrive in the order of its life.
NoAssertFails == Orderly => failed \in {"none", "listen"}

\* assert(state_ == kDisconnected) of ~TcpConnection and assert(!addedToLoop_) of
\* ~Channel, whatever happens to the server: the last TcpConnectionPtr goes only
\* after connectDestroyed() has run.
AlwaysKept ==
  \A c \in Conns : conn[c] \in {"made", "up", "down"} => Referenced(c)

\* The same of a server that lives or that has no io threads.
ConnectionsKept == Orderly => AlwaysKept

\* tcp_server.h:102 says of removeConnection(): thread safe, so also while ~TcpServer
\* runs in the base loop.
ServerOutlivesRemoval == failed # "server"

\* Acceptor::listen() that another thread's start() queued finds its Acceptor.
AcceptorOutlivesStart == failed # "listen"

\* A connection is in the table exactly until its removal is under way: the table
\* neither loses a live connection nor keeps one that connectDestroyed() has seen.
TableIsCurrent ==
  dtor = "none" =>
    \A c \in Conns :
      /\ conn[c] \in {"made", "up"} => c \in connections_
      /\ c \in connections_ => conn[c] \in {"made", "up", "down"}

\* Between two events the Acceptor has its idle descriptor for the next EMFILE, if
\* no other code of the process has opened a descriptor meanwhile.
IdleFdReserved == opened = 0 /\ acceptor = "idle" /\ dtor = "none" => idleFd_ = "null"

\* Once the server is destructed no io loop holds a connection any more, so none can
\* call back into it: only what waits in the base loop is left.
ReleasedWithServer ==
  dtor = "gone" => \A l \in Loops \ {Base} : held[l] = {} /\ pending[l] = <<>>

\* ~EventLoopThread has called quit() on a loop whose thread is not in loop() yet.
QuitTooEarly == \E l \in Loops : phase[l] = "enter" /\ quit_[l]

\* ~TcpServer returns: each of its threads sees quit() and can be joined, whatever
\* the connections do meanwhile, if each has entered loop() by the time of quit().
DestructorReturns == [](failed = "none" /\ ~QuitTooEarly) => (dtor = "conns" ~> dtor = "gone")

\* The same, also of a server that is destructed right after start(): quit_ = false at
\* the entry of loop() has a FIXME that asks "what if someone calls quit() before
\* loop()?" (event_loop.cc:108).
DestructorAlwaysReturns == [](failed = "none") => (dtor = "conns" ~> dtor = "gone")

\* A peer that connects to a listening server is accepted or turned away, also when
\* the server's connections leave no descriptor: the level-triggered loop does not
\* spin on a backlog that it cannot take, if no other code took the idle descriptor
\* and the base loop is not caught in ~TcpServer.
BacklogServed ==
  [](opened = 0 /\ failed = "none" /\ ~QuitTooEarly) => (listenning_ /\ backlog > 0 ~> backlog = 0)

\* A connection that is closed in its loop reaches connectDestroyed(), after the way
\* through the base loop and back, if the server lives.
ClosedIsDestroyed ==
  \A c \in Conns : conn[c] = "down" ~> (conn[c] = "gone" \/ dtor # "none")
==============================================================================
