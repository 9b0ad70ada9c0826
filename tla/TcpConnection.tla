---------------------------- MODULE TcpConnection ----------------------------
(***************************************************************************)
(* net/tcp_connection.{h,cc}: one connection from TcpServer::newConnection *)
(* to ~TcpConnection, with the loop thread that serves it, the threads     *)
(* that call it, the part of net/tcp_server.cc that owns it (its map, its  *)
(* removeConnection and its destructor) and the TCP socket under it.       *)
(*                                                                         *)
(* The loop thread runs whole handlers; todo is what is left of the        *)
(* handler it is in, because a user callback, during which everything else *)
(* may happen, can stand in the middle of one.  The other threads test     *)
(* state_, store to it and queue their functor in separate steps, as the   *)
(* code does without a lock.  A failed assert() is recorded in failed and  *)
(* ends the process, and so is a use of the connection after it is freed.  *)
(***************************************************************************)
EXTENDS Channel, Integers, Sequences

CONSTANTS
  Threads,         \* threads other than the loop's that call the connection
  LoopUser,        \* user code in the loop thread
  Usages,          \* the ways in which the connection is used, see Usage
  DropsEarly,      \* a thread may let go of the connection while its functor waits
  MsgLen,          \* bytes of a message
  highWaterMark_,
  MaxSends,        \* bound: messages of each user
  MaxIn,           \* bound: messages of the peer not yet read
  MaxPending       \* bound: functors waiting in the loop when user code adds one

Users == Threads \cup {LoopUser}
Closing == {"shutdown", "forceClose", "forceCloseWithDelay"}
Ops == {"send", "startRead", "stopRead"} \cup Closing

\* What user code in the loop thread and the other threads call, what the peer does,
\* whether the server's own loop serves the connection, and where the TcpServer may be
\* destructed: outside is in a functor or between the turns of its loop, anywhere is in
\* the handler of an event too.
Usage ==
  [loop : SUBSET (Ops \cup {"pauseRead"}), threads : SUBSET (Ops \ {"forceCloseWithDelay"}),
   peer : SUBSET {"send", "close", "reset"}, sameLoop : BOOLEAN,
   serverDies : {"never", "outside", "anywhere"}]

\* A usage is polite if no other thread closes the connection, or nobody but shutdown()
\* does: the threads store to state_ without looking again, and a kDisconnecting stored
\* over a kDisconnected would bring the connection back.
NeverCloses(u) ==
  /\ u.peer \subseteq {"send"}
  /\ u.loop \cap {"forceClose", "forceCloseWithDelay"} = {} /\ "forceClose" \notin u.threads
  /\ u.serverDies = "never"

Polite(u) == u.threads \cap Closing = {} \/ NeverCloses(u)

\* It is ordered if, besides, the other threads do not both send and shut down: from
\* another thread shutdown() stores to state_ at once and send() waits in the loop's
\* queue, so that handleWrite() may send FIN between the two.
Ordered(u) == Polite(u) /\ ~({"send", "shutdown"} \subseteq u.threads)

\* It is careful if it is polite and, where something closes the connection, nobody
\* starts or stops reading but the loop's user of a connection that is up, who does not
\* force it to close; and if the server dies, only in the connection's own loop, outside
\* the handling of events, and while nobody shuts the connection down.
Forced(u) == u.loop \cap {"forceClose", "forceCloseWithDelay"} # {} \/ "forceClose" \in u.threads
Careful(u) ==
  /\ Polite(u)
  /\ NeverCloses(u) \/ {"startRead", "stopRead"} \cap (u.loop \cup u.threads) = {}
  /\ "pauseRead" \in u.loop => ~Forced(u)
  /\ u.serverDies # "never" =>
       u.serverDies = "outside" /\ u.sameLoop /\ Closing \cap (u.loop \cup u.threads) = {}

ASSUME ConnectionAssumption ==
  /\ LoopUser \notin Threads
  /\ Usages \subseteq Usage /\ DropsEarly \in BOOLEAN
  /\ {MsgLen, highWaterMark_} \subseteq Nat \ {0}
  /\ {MaxSends, MaxIn, MaxPending} \subseteq Nat

VARIABLES
  use,       \* the usage
  state_, reading_, channel_, outputBuffer_,  \* the TcpConnection
  wire,      \* bytes the kernel took
  fin,       \* shutdown(SHUT_WR) was called
  peer,      \* open, closed (it sent FIN), reset
  soError,   \* SO_ERROR is pending on the socket
  writable,  \* there is room in the send buffer
  inbound,   \* messages to read
  phase,     \* the loop: poll, events, functors
  todo,      \* what is left of the handler that the loop is in
  revents_,  \* what poll() reported
  pending,   \* pendingFunctors_
  batch,     \* functors of doPendingFunctors() not yet run
  held,      \* the batch has a functor that holds a TcpConnectionPtr
  pc,        \* where each thread is in its call
  holds,     \* users with a TcpConnectionPtr
  sent,      \* messages each user has sent
  promised,  \* history: messages each user had sent when it called shutdown()
  server,    \* the TcpServer lives
  inMap,     \* connections_ has the connection
  baseQueue, \* removeConnectionInLoop functors in the server's loop
  timer,     \* the timer of forceCloseWithDelay() is set
  alive,     \* ~TcpConnection has not run
  ups, downs, \* history: calls of connectionCallback_
  accepted,  \* history: bytes that sendInLoop() did not refuse
  failed     \* the first assertion that failed

connVars == <<state_, reading_, channel_, outputBuffer_>>
kernelVars == <<wire, fin, peer, soError, writable, inbound>>
loopVars == <<phase, todo, revents_, pending, batch, held>>
userVars == <<pc, holds, sent, promised>>
serverVars == <<use, server, inMap, baseQueue>>
lifeVars == <<timer, alive, ups, downs, accepted>>
vars == <<connVars, kernelVars, loopVars, userVars, serverVars, lifeVars, failed>>

\* Functors bound to a TcpConnectionPtr, and those bound to a raw this.
SharedFns == {"connectEstablished", "connectDestroyed", "forceCloseInLoop", "callback"}
RawFns == {"sendInLoop", "shutdownInLoop", "startReadInLoop", "stopReadInLoop"}
Functor(fn) == [fn |-> fn, data |-> <<>>]
\* Byte i of a user's k-th message is <<user, k, i>>.
Message(u) == [i \in 1..MsgLen |-> <<u, sent[u] + 1, i>>]

\* release: the end of the scope of a local TcpConnectionPtr.
Steps == {"callback", "event", "close", "error", "read", "write", "endEvent", "release",
          "connectEstablished", "connectDestroyed", "closeCallback", "remove"}
Idle == [op |-> "none", at |-> "idle"]
Asserts == {"established", "handleClose", "remove", "listed", "erase", "dtor", "channelDtor", "freed", "server"}

Bytes == Seq(Users \X (1..MaxSends) \X (1..MsgLen))
FunctorType == [fn : SharedFns \cup RawFns, data : Bytes]

Contains(s, e) == \E i \in 1..Len(s) : s[i] = e
IsPrefix(s, t) == Len(s) <= Len(t) /\ \A i \in 1..Len(s) : s[i] = t[i]

TypeOK ==
  /\ use \in Usages
  /\ state_ \in {"kDisconnected", "kConnecting", "kConnected", "kDisconnecting"}
  /\ reading_ \in BOOLEAN /\ channel_ \in ChannelType /\ outputBuffer_ \in Bytes
  /\ wire \in Bytes /\ fin \in BOOLEAN /\ peer \in {"open", "closed", "reset"}
  /\ soError \in BOOLEAN /\ writable \in BOOLEAN /\ inbound \in 0..MaxIn
  /\ phase \in {"poll", "events", "functors"} /\ todo \in Seq(Steps)
  /\ revents_ \subseteq kReadEvent \cup kWriteEvent \cup Unasked
  /\ {pending, batch} \subseteq Seq(FunctorType)
  /\ held \in BOOLEAN
  /\ pc \in [Threads -> [op : use.threads \cup {"none"}, at : {"idle", "set", "queue"}]]
  /\ holds \subseteq Users
  /\ sent \in [Users -> 0..MaxSends] /\ promised \in [Users -> 0..MaxSends]
  /\ server \in BOOLEAN /\ inMap \in BOOLEAN /\ baseQueue \in 0..1
  /\ timer \in BOOLEAN /\ alive \in BOOLEAN
  /\ ups \in 0..1 /\ downs \in 0..1 /\ accepted \in Bytes
  /\ failed \in Asserts \cup {"none"}

\* TcpServer::newConnection() made the connection; its runInLoop() calls
\* connectEstablished() at once or queues it in the connection's loop.
Init ==
  /\ use \in Usages
  /\ state_ = "kConnecting" /\ reading_ = TRUE /\ channel_ = NewChannel /\ outputBuffer_ = <<>>
  /\ wire = <<>> /\ fin = FALSE /\ peer = "open" /\ soError = FALSE /\ writable = TRUE /\ inbound = 0
  /\ phase = IF use.sameLoop THEN "events" ELSE "poll"
  /\ todo = IF use.sameLoop THEN <<"connectEstablished", "release">> ELSE <<>>
  /\ revents_ = {}
  /\ pending = IF use.sameLoop THEN <<>> ELSE <<Functor("connectEstablished")>>
  /\ batch = <<>> /\ held = FALSE
  /\ pc = [t \in Threads |-> Idle] /\ holds = {}
  /\ sent = [u \in Users |-> 0] /\ promised = [u \in Users |-> 0]
  /\ server = TRUE /\ inMap = TRUE /\ baseQueue = 0
  /\ timer = FALSE /\ alive = TRUE
  /\ ups = 0 /\ downs = 0 /\ accepted = <<>> /\ failed = "none"

\* Somebody holds a TcpConnectionPtr; weak_ptr::lock() succeeds.
Strong ==
  \/ inMap \/ holds # {} \/ baseQueue > 0 \/ held
  \/ Contains(todo, "release")
  \/ \E i \in DOMAIN pending : pending[i].fn \in SharedFns

Running == failed = "none"
At(step) == Running /\ todo # <<>> /\ Head(todo) = step
Push(steps) == todo' = steps \o Tail(todo)
Abort(assertion) ==
  /\ failed' = assertion
  /\ UNCHANGED <<connVars, kernelVars, loopVars, userVars, serverVars, lifeVars>>

(***************************************************************************)
(* Pieces of the handlers.                                                 *)
(***************************************************************************)

CanWrite == ~fin /\ peer # "reset"

\* write(): the number of bytes the kernel takes.  0: it fails, with
\* EWOULDBLOCK or an error that sendInLoop() treats alike.
Accepts(data) ==
  IF CanWrite /\ writable THEN 1..Len(data) ELSE {0}

\* What a write of n bytes of data leaves of the send buffer's room.
TakesRoom(data, n) ==
  writable' \in IF n = Len(data) THEN BOOLEAN ELSE {writable /\ n = 0}

\* Mutant: new data overtakes what is still in the output buffer.
WritesDirectlyAlways == TRUE

\* sendInLoop(): nothing is queued before the data.
WritesDirectly == ~isWriting(channel_) /\ outputBuffer_ = <<>>

\* sendInLoop(data): calls is pendingFunctors_ before it.
sendInLoop(data, calls) ==
  IF state_ = "kDisconnected"
  THEN pending' = calls /\ UNCHANGED <<channel_, outputBuffer_, wire, writable, accepted>>
  ELSE \E n \in IF WritesDirectly THEN Accepts(data) ELSE {0} :
         LET faultError == WritesDirectly /\ ~CanWrite
             rest == IF faultError THEN <<>> ELSE SubSeq(data, n + 1, Len(data))
             oldLen == Len(outputBuffer_)
         IN  /\ IF WritesDirectly THEN TakesRoom(data, n) ELSE UNCHANGED writable
             /\ accepted' = accepted \o data
             /\ wire' = wire \o SubSeq(data, 1, n)
             /\ outputBuffer_' = outputBuffer_ \o rest
             /\ channel_' = IF rest # <<>> /\ ~isWriting(channel_) THEN enableWriting(channel_) ELSE channel_
             /\ pending' = IF \/ n = Len(data)
                              \/ rest # <<>> /\ oldLen < highWaterMark_ /\ oldLen + Len(rest) >= highWaterMark_
                           THEN Append(calls, Functor("callback"))
                           ELSE calls

\* Mutant: FIN does not wait for the output buffer.
ShutdownAtOnce(c) == fin' = TRUE

\* shutdownInLoop(), with the channel as it is then.
shutdownInLoop(c) == fin' = (fin \/ ~isWriting(c))

startReadInLoop ==
  IF ~reading_ \/ ~isReading(channel_)
  THEN channel_' = enableReading(channel_) /\ reading_' = TRUE
  ELSE UNCHANGED <<channel_, reading_>>

stopReadInLoop ==
  IF reading_ \/ isReading(channel_)
  THEN channel_' = disableReading(channel_) /\ reading_' = FALSE
  ELSE UNCHANGED <<channel_, reading_>>

\* handleClose() up to the connection callback; rest is what the caller still does.
handleClose(rest) ==
  /\ state_' = "kDisconnected"
  /\ channel_' = disableAll(channel_)
  /\ downs' = downs + 1
  /\ todo' = <<"callback", "closeCallback">> \o rest

\* A call of handleClose() from a handler that changes nothing else.
CallHandleClose(rest) ==
  /\ handleClose(rest)
  /\ UNCHANGED <<reading_, outputBuffer_, kernelVars, phase, revents_, pending, held>>
  /\ UNCHANGED <<userVars, serverVars, timer, alive, ups, accepted, failed>>

(***************************************************************************)
(* The loop thread: poll(), the dispatch of the connection's events and    *)
(* doPendingFunctors().                                                    *)
(***************************************************************************)

\* The conditions of the socket that epoll can report.
Ready ==
  { e \in {"IN", "OUT", "ERR", "HUP"} :
      \/ e = "IN" /\ (inbound > 0 \/ peer # "open")
      \/ e = "OUT" /\ (writable \/ ~CanWrite)
      \/ e = "ERR" /\ soError
      \/ e = "HUP" /\ (peer = "reset" \/ (fin /\ peer = "closed")) }

\* poll().  The callback stands for the channels that are handled before this one.
Poll ==
  /\ Running /\ phase = "poll" /\ todo = <<>>
  /\ revents_' = Reported(channel_, Ready)
  /\ todo' = IF revents_' = {} THEN <<"callback">> ELSE <<"callback", "event">>
  /\ phase' = "events"
  /\ UNCHANGED <<connVars, kernelVars, pending, batch, held, userVars, serverVars, lifeVars, failed>>

\* User code returns.
CallbackReturns ==
  /\ At("callback")
  /\ Push(<<>>)
  /\ UNCHANGED <<connVars, kernelVars, phase, revents_, pending, batch, held, userVars, serverVars, lifeVars, failed>>

\* The callbacks that handleEventWithGuard() makes, in its order.
When(condition, step) == IF condition THEN <<step>> ELSE <<>>
Dispatched ==
  When("HUP" \in revents_ /\ "IN" \notin revents_, "close") \o When("ERR" \in revents_, "error")
    \o When("IN" \in revents_, "read") \o When("OUT" \in revents_, "write")

\* Channel::handleEvent() with tie_ locked; without the lock it does nothing.
HandleEvent ==
  /\ At("event")
  /\ Push(IF Strong THEN Dispatched \o <<"endEvent", "release">> ELSE <<>>)
  /\ UNCHANGED <<connVars, kernelVars, phase, revents_, pending, batch, held, userVars, serverVars, lifeVars, failed>>

\* The HUP branch: closeCallback_ of the channel is TcpConnection::handleClose().
HandleHup ==
  /\ At("close")
  /\ IF state_ \in {"kConnected", "kDisconnecting"}
     THEN CallHandleClose(Tail(todo)) /\ UNCHANGED batch
     ELSE Abort("handleClose")

\* handleError(), called for EPOLLERR or by a handleRead() with n < 0:
\* getsockopt() clears SO_ERROR.
HandleError ==
  /\ \/ At("error")
     \/ At("read") /\ inbound = 0 /\ (soError \/ peer = "open")
  /\ soError' = FALSE
  /\ Push(<<>>)
  /\ UNCHANGED <<connVars, wire, fin, peer, writable, inbound, phase, revents_, pending, batch, held>>
  /\ UNCHANGED <<userVars, serverVars, lifeVars, failed>>

\* handleRead() with n > 0.
HandleReadMessage ==
  /\ At("read") /\ inbound > 0
  /\ inbound' = inbound - 1
  /\ Push(<<"callback">>)
  /\ UNCHANGED <<connVars, wire, fin, peer, soError, writable, phase, revents_, pending, batch, held>>
  /\ UNCHANGED <<userVars, serverVars, lifeVars, failed>>

\* handleRead() with n = 0.
HandleReadEnd ==
  /\ At("read") /\ inbound = 0 /\ ~soError /\ peer # "open"
  /\ IF state_ \in {"kConnected", "kDisconnecting"}
     THEN CallHandleClose(Tail(todo)) /\ UNCHANGED batch
     ELSE Abort("handleClose")

\* Mutant: handleWrite() goes on watching for EPOLLOUT once all is written.
WrittenKeepsWriting(n) ==
  LET rest == SubSeq(outputBuffer_, n + 1, Len(outputBuffer_))
  IN  /\ wire' = wire \o SubSeq(outputBuffer_, 1, n)
      /\ outputBuffer_' = rest
      /\ UNCHANGED <<channel_, pending, fin>>

\* Mutant: handleWrite() does not resume a shutdown that waited for it.
WrittenNoShutdown(n) ==
  LET rest == SubSeq(outputBuffer_, n + 1, Len(outputBuffer_))
      c == IF rest = <<>> THEN disableWriting(channel_) ELSE channel_
  IN  /\ wire' = wire \o SubSeq(outputBuffer_, 1, n)
      /\ outputBuffer_' = rest
      /\ channel_' = c
      /\ pending' = IF rest = <<>> THEN Append(pending, Functor("callback")) ELSE pending
      /\ UNCHANGED fin

\* handleWrite() after a write() of n bytes, n > 0.
Written(n) ==
  LET rest == SubSeq(outputBuffer_, n + 1, Len(outputBuffer_))
      c == IF rest = <<>> THEN disableWriting(channel_) ELSE channel_
  IN  /\ wire' = wire \o SubSeq(outputBuffer_, 1, n)
      /\ outputBuffer_' = rest
      /\ channel_' = c
      /\ pending' = IF rest = <<>> THEN Append(pending, Functor("callback")) ELSE pending
      /\ IF rest = <<>> /\ state_ = "kDisconnecting" THEN shutdownInLoop(c) ELSE UNCHANGED fin

\* handleWrite().
HandleWrite ==
  /\ At("write")
  /\ IF isWriting(channel_)
     THEN \E n \in Accepts(outputBuffer_) :
            /\ TakesRoom(outputBuffer_, n)
            /\ IF n > 0 THEN Written(n) ELSE UNCHANGED <<wire, outputBuffer_, channel_, pending, fin>>
     ELSE UNCHANGED <<wire, outputBuffer_, channel_, pending, fin, writable>>
  /\ Push(<<>>)
  /\ UNCHANGED <<state_, reading_, peer, soError, inbound, phase, revents_, batch, held>>
  /\ UNCHANGED <<userVars, serverVars, lifeVars, failed>>

\* The end of handleEventWithGuard(), and the end of a local TcpConnectionPtr.
EndScope ==
  /\ At("endEvent") \/ At("release")
  /\ Push(<<>>)
  /\ UNCHANGED <<connVars, kernelVars, phase, revents_, pending, batch, held, userVars, serverVars, lifeVars, failed>>

\* TcpServer::removeConnectionInLoop().
removeConnectionInLoop ==
  /\ inMap' = FALSE
  /\ pending' = Append(pending, Functor("connectDestroyed"))

\* closeCallback_ is TcpServer::removeConnection(), bound to a raw TcpServer.
CloseCallback ==
  /\ At("closeCallback")
  /\ CASE ~server -> Abort("server")
       [] server /\ use.sameLoop /\ ~inMap -> Abort("erase")
       [] OTHER ->
            /\ IF use.sameLoop
               THEN removeConnectionInLoop /\ UNCHANGED baseQueue
               ELSE baseQueue' = baseQueue + 1 /\ UNCHANGED <<inMap, pending>>
            /\ Push(<<>>)
            /\ UNCHANGED <<connVars, kernelVars, phase, revents_, batch, held, userVars, use, server, lifeVars, failed>>

\* connectEstablished() up to the connection callback, which gives the users
\* their TcpConnectionPtr.
ConnectEstablished ==
  /\ At("connectEstablished")
  /\ IF state_ = "kConnecting"
     THEN /\ state_' = "kConnected"
          /\ channel_' = enableReading(channel_)
          /\ holds' = Users
          /\ ups' = ups + 1
          /\ Push(<<"callback">>)
          /\ UNCHANGED <<reading_, outputBuffer_, kernelVars, phase, revents_, pending, batch, held>>
          /\ UNCHANGED <<pc, sent, promised, serverVars, timer, alive, downs, accepted, failed>>
     ELSE Abort("established")

\* connectDestroyed() up to the connection callback.
ConnectDestroyed ==
  /\ At("connectDestroyed")
  /\ IF state_ = "kConnected"
     THEN /\ state_' = "kDisconnected"
          /\ channel_' = disableAll(channel_)
          /\ downs' = downs + 1
          /\ Push(<<"callback", "remove">>)
     ELSE Push(<<"remove">>) /\ UNCHANGED <<state_, channel_, downs>>
  /\ UNCHANGED <<reading_, outputBuffer_, kernelVars, phase, revents_, pending, batch, held>>
  /\ UNCHANGED <<userVars, serverVars, timer, alive, ups, accepted, failed>>

\* EventLoop::removeChannel(): no channel of the turn's activeChannels_ is removed but
\* the one whose event is being handled.
NotListed == phase = "events" => revents_ = {} \/ Contains(todo, "endEvent")

\* The last line of connectDestroyed().
RemoveChannel ==
  /\ At("remove")
  /\ CASE ~MayRemove(channel_) -> Abort("remove")
       [] MayRemove(channel_) /\ ~NotListed -> Abort("listed")
       [] OTHER ->
            /\ channel_' = remove(channel_)
            /\ Push(<<>>)
            /\ UNCHANGED <<state_, reading_, outputBuffer_, kernelVars, phase, revents_, pending, batch, held>>
            /\ UNCHANGED <<userVars, serverVars, lifeVars, failed>>

\* doPendingFunctors() takes the functors.
Swap ==
  /\ Running /\ phase = "events" /\ todo = <<>>
  /\ batch' = pending
  /\ pending' = <<>>
  /\ held' = (held \/ \E i \in DOMAIN pending : pending[i].fn \in SharedFns)
  /\ phase' = "functors"
  /\ UNCHANGED <<connVars, kernelVars, todo, revents_, userVars, serverVars, lifeVars, failed>>

\* Mutant: doPendingFunctors() keeps the functors it has run.
FunctorsDoneKeeps ==
  /\ Running /\ phase = "functors" /\ todo = <<>> /\ batch = <<>>
  /\ phase' = "poll"
  /\ UNCHANGED <<connVars, kernelVars, todo, revents_, pending, batch, held, userVars, serverVars, lifeVars, failed>>

\* The end of doPendingFunctors(): the functors are destructed.
FunctorsDone ==
  /\ Running /\ phase = "functors" /\ todo = <<>> /\ batch = <<>>
  /\ held' = FALSE
  /\ phase' = "poll"
  /\ UNCHANGED <<connVars, kernelVars, todo, revents_, pending, batch, userVars, serverVars, lifeVars, failed>>

NextFunctor(fns) ==
  /\ Running /\ phase = "functors" /\ todo = <<>>
  /\ batch # <<>> /\ Head(batch).fn \in fns

\* A functor bound to a raw this.
RunRaw ==
  /\ NextFunctor(RawFns)
  /\ IF ~Strong
     THEN Abort("freed")
     ELSE /\ batch' = Tail(batch)
          /\ CASE Head(batch).fn = "sendInLoop" ->
                    sendInLoop(Head(batch).data, pending) /\ UNCHANGED <<reading_, fin>>
               [] Head(batch).fn = "shutdownInLoop" ->
                    shutdownInLoop(channel_) /\ UNCHANGED <<reading_, channel_, outputBuffer_, wire, writable,
                                                            pending, accepted>>
               [] Head(batch).fn = "startReadInLoop" ->
                    startReadInLoop /\ UNCHANGED <<outputBuffer_, wire, fin, writable, pending, accepted>>
               [] Head(batch).fn = "stopReadInLoop" ->
                    stopReadInLoop /\ UNCHANGED <<outputBuffer_, wire, fin, writable, pending, accepted>>
          /\ UNCHANGED <<state_, peer, soError, inbound, phase, todo, revents_, held>>
          /\ UNCHANGED <<userVars, serverVars, timer, alive, ups, downs, failed>>

\* Mutant: forceCloseInLoop() does not look at the state.
RunForceCloseAlways ==
  /\ NextFunctor({"forceCloseInLoop"})
  /\ batch' = Tail(batch)
  /\ IF state_ \in {"kConnected", "kDisconnecting"}
     THEN CallHandleClose(<<>>)
     ELSE /\ failed' = "handleClose"
          /\ UNCHANGED <<connVars, kernelVars, phase, todo, revents_, pending, held>>
          /\ UNCHANGED <<userVars, serverVars, lifeVars>>

\* forceCloseInLoop().
RunForceClose ==
  /\ NextFunctor({"forceCloseInLoop"})
  /\ batch' = Tail(batch)
  /\ IF state_ \in {"kConnected", "kDisconnecting"}
     THEN CallHandleClose(<<>>)
     ELSE UNCHANGED <<connVars, kernelVars, phase, todo, revents_, pending, held>>
          /\ UNCHANGED <<userVars, serverVars, lifeVars, failed>>

\* connectEstablished(), connectDestroyed() and the callbacks of sendInLoop()
\* and handleWrite().
RunSteps ==
  /\ NextFunctor(SharedFns \ {"forceCloseInLoop"})
  /\ batch' = Tail(batch)
  /\ todo' = <<Head(batch).fn>>
  /\ UNCHANGED <<connVars, kernelVars, phase, revents_, pending, held, userVars, serverVars, lifeVars, failed>>

(***************************************************************************)
(* User code in the loop thread, inside a callback.                        *)
(***************************************************************************)

UserCode(op) ==
  /\ At("callback") /\ op \in use.loop
  /\ LoopUser \in holds \/ held \/ Contains(todo, "release")
  /\ Len(pending) < MaxPending

LoopSend ==
  /\ UserCode("send") /\ state_ = "kConnected" /\ sent[LoopUser] < MaxSends
  /\ sendInLoop(Message(LoopUser), pending)
  /\ sent' = [sent EXCEPT ![LoopUser] = @ + 1]
  /\ UNCHANGED <<state_, reading_, fin, peer, soError, inbound, phase, todo, revents_, batch, held>>
  /\ UNCHANGED <<pc, holds, promised, serverVars, timer, alive, ups, downs, failed>>

LoopShutdown ==
  /\ UserCode("shutdown") /\ state_ = "kConnected"
  /\ state_' = "kDisconnecting"
  /\ shutdownInLoop(channel_)
  /\ promised' = [promised EXCEPT ![LoopUser] = sent[LoopUser]]
  /\ UNCHANGED <<reading_, channel_, outputBuffer_, wire, peer, soError, writable, inbound, loopVars>>
  /\ UNCHANGED <<pc, holds, sent, serverVars, lifeVars, failed>>

\* forceClose().
forceClose ==
  /\ state_ \in {"kConnected", "kDisconnecting"}
  /\ state_' = "kDisconnecting"
  /\ pending' = Append(pending, Functor("forceCloseInLoop"))

LoopForceClose ==
  /\ UserCode("forceClose")
  /\ forceClose
  /\ UNCHANGED <<reading_, channel_, outputBuffer_, kernelVars, phase, todo, revents_, batch, held>>
  /\ UNCHANGED <<userVars, serverVars, lifeVars, failed>>

\* forceCloseWithDelay().
LoopForceCloseWithDelay ==
  /\ UserCode("forceCloseWithDelay") /\ ~timer
  /\ state_ \in {"kConnected", "kDisconnecting"}
  /\ state_' = "kDisconnecting"
  /\ timer' = TRUE
  /\ UNCHANGED <<reading_, channel_, outputBuffer_, kernelVars, loopVars>>
  /\ UNCHANGED <<userVars, serverVars, alive, ups, downs, accepted, failed>>

\* The timer's WeakCallback, run by the timer queue's channel.
TimerFires ==
  /\ At("callback") /\ phase = "events" /\ timer
  /\ timer' = FALSE
  /\ IF Strong /\ state_ \in {"kConnected", "kDisconnecting"} THEN forceClose ELSE UNCHANGED <<state_, pending>>
  /\ UNCHANGED <<reading_, channel_, outputBuffer_, kernelVars, phase, todo, revents_, batch, held>>
  /\ UNCHANGED <<userVars, serverVars, alive, ups, downs, accepted, failed>>

\* pauseRead is a stopRead() of a user who asks connected() first, in the up callback
\* or a functor: no event of the connection is waiting to be handled then.
LoopRead ==
  /\ \/ UserCode("startRead") /\ startReadInLoop
     \/ UserCode("stopRead") /\ stopReadInLoop
     \/ UserCode("pauseRead") /\ phase = "functors" /\ state_ = "kConnected" /\ stopReadInLoop
  /\ UNCHANGED <<state_, outputBuffer_, kernelVars, loopVars, userVars, serverVars, lifeVars, failed>>

(***************************************************************************)
(* The other threads.                                                      *)
(***************************************************************************)

CallAllowed(op) ==
  CASE op \in {"send", "shutdown"} -> state_ = "kConnected"
    [] op = "forceClose" -> state_ \in {"kConnected", "kDisconnecting"}
    [] OTHER -> TRUE

\* A call begins, and tests state_.
Call(t, op) ==
  /\ Running /\ pc[t] = Idle /\ t \in holds
  /\ op \in use.threads /\ (op = "send" => sent[t] < MaxSends)
  /\ CallAllowed(op)
  /\ pc' = [pc EXCEPT ![t] = [op |-> op, at |-> IF op \in Closing THEN "set" ELSE "queue"]]
  /\ UNCHANGED <<connVars, kernelVars, loopVars, holds, sent, promised, serverVars, lifeVars, failed>>

\* setState(kDisconnecting) of shutdown() and forceClose().
SetDisconnecting(t) ==
  /\ Running /\ pc[t].at = "set"
  /\ state_' = "kDisconnecting"
  /\ pc' = [pc EXCEPT ![t].at = "queue"]
  /\ promised' = IF pc[t].op = "shutdown" THEN [promised EXCEPT ![t] = sent[t]] ELSE promised
  /\ UNCHANGED <<reading_, channel_, outputBuffer_, kernelVars, loopVars, holds, sent, serverVars, lifeVars, failed>>

FunctorOf(t) ==
  CASE pc[t].op = "send" -> [fn |-> "sendInLoop", data |-> Message(t)]
    [] pc[t].op = "shutdown" -> Functor("shutdownInLoop")
    [] pc[t].op = "forceClose" -> Functor("forceCloseInLoop")
    [] pc[t].op = "startRead" -> Functor("startReadInLoop")
    [] pc[t].op = "stopRead" -> Functor("stopReadInLoop")

\* runInLoop() and queueInLoop() from another thread.
QueueFunctor(t) ==
  /\ Running /\ pc[t].at = "queue" /\ Len(pending) < MaxPending
  /\ pending' = Append(pending, FunctorOf(t))
  /\ pc' = [pc EXCEPT ![t] = Idle]
  /\ sent' = IF pc[t].op = "send" THEN [sent EXCEPT ![t] = @ + 1] ELSE sent
  /\ UNCHANGED <<connVars, kernelVars, phase, todo, revents_, batch, held, holds, promised, serverVars,
                 lifeVars, failed>>

\* A user's TcpConnectionPtr goes.
DropRef(u) ==
  /\ Running /\ u \in holds
  /\ IF u = LoopUser
     THEN At("callback")
     ELSE pc[u] = Idle /\ (DropsEarly \/ \A i \in DOMAIN (pending \o batch) : (pending \o batch)[i].fn \notin RawFns)
  /\ holds' = holds \ {u}
  /\ UNCHANGED <<connVars, kernelVars, loopVars, pc, sent, promised, serverVars, lifeVars, failed>>

\* The last TcpConnectionPtr is gone: ~TcpConnection, then ~Channel.
Destruct ==
  /\ Running /\ alive /\ ~Strong
  /\ CASE state_ # "kDisconnected" -> Abort("dtor")
       [] state_ = "kDisconnected" /\ (channel_.addedToLoop_ \/ Contains(todo, "endEvent")) -> Abort("channelDtor")
       [] OTHER ->
            /\ alive' = FALSE
            /\ UNCHANGED <<connVars, kernelVars, loopVars, userVars, serverVars, timer, ups, downs, accepted, failed>>

(***************************************************************************)
(* The server's own loop, and its destructor.                              *)
(***************************************************************************)

\* The server's loop runs removeConnectionInLoop().
BaseRemove ==
  /\ Running /\ baseQueue > 0
  /\ CASE ~server -> Abort("server")
       [] server /\ ~inMap -> Abort("erase")
       [] OTHER ->
            /\ removeConnectionInLoop
            /\ baseQueue' = baseQueue - 1
            /\ UNCHANGED <<connVars, kernelVars, phase, todo, revents_, batch, held, userVars, use, server,
                           lifeVars, failed>>

\* Where the server's loop may be when it also serves the connection: in user code.
\* todo = <<>> is a functor or the handler of another channel, or no turn at all.
MayDestruct ==
  /\ todo = <<>> \/ At("callback")
  /\ use.serverDies = "outside" => phase # "events"

\* The up callback of a connection of the server's own loop: Acceptor::handleRead() is
\* still running.
InAccept == phase = "events" /\ Contains(todo, "release") /\ ~Contains(todo, "endEvent")

\* ~TcpServer: connectDestroyed() by runInLoop() for a connection of the map, then
\* ~Acceptor, which destructs its Channel.
ServerDtor ==
  /\ Running /\ use.serverDies # "never" /\ server
  /\ use.sameLoop => MayDestruct
  /\ IF use.sameLoop /\ InAccept
     THEN Abort("channelDtor")
     ELSE /\ server' = FALSE
          /\ inMap' = FALSE
          /\ todo' = IF inMap /\ use.sameLoop THEN <<"connectDestroyed", "release">> \o todo ELSE todo
          /\ pending' = IF inMap /\ ~use.sameLoop THEN Append(pending, Functor("connectDestroyed")) ELSE pending
          /\ UNCHANGED <<connVars, kernelVars, phase, revents_, batch, held, userVars, use, baseQueue, lifeVars, failed>>

(***************************************************************************)
(* The peer and the kernel.                                                *)
(***************************************************************************)

PeerSends ==
  /\ Running /\ "send" \in use.peer /\ peer = "open" /\ inbound < MaxIn
  /\ inbound' = inbound + 1
  /\ UNCHANGED <<connVars, wire, fin, peer, soError, writable, loopVars, userVars, serverVars, lifeVars, failed>>

PeerCloses ==
  /\ Running /\ "close" \in use.peer /\ peer = "open"
  /\ peer' = "closed"
  /\ UNCHANGED <<connVars, wire, fin, soError, writable, inbound, loopVars, userVars, serverVars, lifeVars, failed>>

\* RST: what was not read is gone.
PeerResets ==
  /\ Running /\ "reset" \in use.peer /\ peer # "reset"
  /\ peer' = "reset"
  /\ soError' = TRUE
  /\ inbound' = 0
  /\ UNCHANGED <<connVars, wire, fin, writable, loopVars, userVars, serverVars, lifeVars, failed>>

\* The peer reads, and the send buffer has room again.
PeerReads ==
  /\ Running /\ ~writable
  /\ writable' = TRUE
  /\ UNCHANGED <<connVars, wire, fin, peer, soError, inbound, loopVars, userVars, serverVars, lifeVars, failed>>

Handlers ==
  \/ HandleEvent \/ HandleHup \/ HandleError
  \/ HandleReadMessage \/ HandleReadEnd \/ HandleWrite
  \/ EndScope \/ CloseCallback \/ ConnectEstablished \/ ConnectDestroyed \/ RemoveChannel

Functors ==
  \/ Swap \/ FunctorsDone
  \/ RunRaw \/ RunForceClose \/ RunSteps

LoopThread == Poll \/ CallbackReturns \/ Handlers \/ Functors

LoopCalls ==
  \/ LoopSend \/ LoopShutdown \/ LoopForceClose \/ LoopForceCloseWithDelay \/ LoopRead

ThreadCalls ==
  \E t \in Threads : SetDisconnecting(t) \/ QueueFunctor(t) \/ \E op \in use.threads : Call(t, op)

Peer == PeerSends \/ PeerCloses \/ PeerResets \/ PeerReads

Next ==
  \/ LoopThread \/ LoopCalls \/ TimerFires \/ ThreadCalls
  \/ (\E u \in Users : DropRef(u)) \/ Destruct
  \/ BaseRemove \/ ServerDtor \/ Peer

Spec == Init /\ [][Next]_vars

\* The loop thread and the server's run, user code returns, a set timer fires
\* while it may, and the peer goes on reading what was sent to it.
FairSpec ==
  /\ Spec
  /\ WF_vars(LoopThread) /\ WF_vars(BaseRemove) /\ WF_vars(Destruct)
  /\ SF_vars(TimerFires) /\ WF_vars(PeerReads)
  /\ \A t \in Threads : WF_vars(SetDisconnecting(t) \/ QueueFunctor(t))

(***************************************************************************)
(* Properties.                                                             *)
(***************************************************************************)

\* No assert() of TcpConnection, TcpServer and Channel fails, and no callback or
\* functor runs on a TcpConnection or TcpServer that is already destructed.
NoAssertFails == failed = "none"

\* tcp_connection.cc:70, assert(state_ == kDisconnected) in the destructor.
DestructedDown == failed # "dtor"

\* tcp_connection.cc:394, the assert() of handleClose() on the state: a
\* connection that is down is not closed again.
ClosedOnce == failed # "handleClose"

\* channel.h:69, "make sure of disableAll before the call" on Channel::remove(),
\* and the assert(isNoneEvent()) that checks it.
RemovedQuiet == failed # "remove"

\* event_loop.cc:233, the assert() of EventLoop::removeChannel(): the channel that is
\* removed does not wait for its turn in activeChannels_.
RemovedUnlisted == failed # "listed"

\* channel.cc:31, the assert(!eventHandling_) of ~Channel.
NoChannelDiesInItsEvent == failed # "channelDtor"

\* tcp_server.cc:107, "FIXME: unsafe": the TcpServer that closeCallback_ is bound to is
\* still there when the connection closes.
ServerIsThere == failed # "server"

\* What the kernel took, followed by what outputBuffer_ still holds, is the
\* messages that sendInLoop() took, each whole and in order; a message is only
\* ever lost because the socket was closed for writing or reset.
StreamIntact ==
  /\ IsPrefix(wire \o outputBuffer_, accepted)
  /\ CanWrite => wire \o outputBuffer_ = accepted

\* Until the connection is down, EPOLLOUT is watched exactly while there is
\* output: otherwise the output is never written, or the loop spins.  While it is
\* up, EPOLLIN is watched exactly while reading_ says so.
EventsAgree ==
  /\ state_ # "kDisconnected" => (isWriting(channel_) <=> outputBuffer_ # <<>>)
  /\ state_ \in {"kConnected", "kDisconnecting"} => (reading_ <=> isReading(channel_))

\* shutdown() closes the write side only after everything that its caller had
\* sent before it, each message to its last byte: tcp_connection.h:72, the comment on
\* shutdown().
FinAfterSends ==
  fin /\ peer # "reset" =>
    \A u \in Users : \A k \in 1..promised[u] : \A i \in 1..MsgLen : Contains(wire, <<u, k, i>>)

\* The connection callback reports every connection up once and down once, down
\* as soon as it is disconnected and before it is destructed.
CallbacksPaired ==
  /\ downs <= ups
  /\ ups = 1 => (downs = 1 <=> state_ = "kDisconnected")
  /\ ~alive => downs = 1

\* Once the connection is down epoll has no entry for it, so that no late event
\* reaches handleClose() a second time.
QuietOnceClosed ==
  state_ = "kDisconnected" => ~channel_.registered

\* A connection that is shutting down gets its FIN out, or goes down.
ShutdownCompletes ==
  state_ = "kDisconnecting" ~> (fin \/ state_ = "kDisconnected")

\* A connection that is down and that no user holds is destructed.
ClosedIsFreed ==
  (ups = 1 /\ state_ = "kDisconnected" /\ holds = {}) ~> ~alive
==============================================================================
