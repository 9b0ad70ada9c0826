----------------------------- MODULE EPollPoller -----------------------------
(***************************************************************************)
(* net/epoller.{h,cc} and net/poller.{h,cc}, with the part of EventLoop    *)
(* that calls them (loop(), updateChannel(), removeChannel()) and with     *)
(* the two kinds of owners that make and destroy Channels while the loop   *)
(* runs: TcpConnection and Connector.  Three tables have to agree: the     *)
(* map channels_ from descriptors to Channels, the index_ and events_ of   *)
(* every Channel, and the kernel's epoll table, which holds a pointer to a *)
(* Channel for each descriptor.  Descriptors and the memory of Channels    *)
(* are used again, and a Connector hands its descriptor over to a          *)
(* TcpConnection while its own Channel still exists.                       *)
(*                                                                         *)
(* The registration of one Channel is that of module Channel.  All steps   *)
(* are of the loop thread, except those of the kernel, shutdown() and      *)
(* forceClose(), which any thread calls, the steps of the loop that the    *)
(* TcpServer is in, and Release, which whoever holds the last              *)
(* TcpConnectionPtr takes.                                                 *)
(***************************************************************************)
EXTENDS Channel, Integers, Sequences

CONSTANTS
  Connections,         \* room for the Channels of TcpConnections
  Connectors,          \* room for the Channels of Connectors
  Fds,                 \* descriptors
  kInitEventListSize,
  Misuses,             \* what the program does of the calls in AllMisuses
  None                 \* no Channel, no entry

\* Calls that the code does not refuse and that break an assertion: the TcpServer is
\* destroyed in a callback of a channel, or while a connection is kDisconnecting;
\* forceClose() of a connection that waits for no event; stopRead() of a connection
\* whose event is still to be handled; startRead() or stopRead() after handleClose().
AllMisuses == {"destroyInCallback", "destroyClosing", "closeStopped", "stopListed", "readClosed"}

ASSUME PollerAssumption ==
  /\ Connections \cap Connectors = {}
  /\ None \notin Connections \cup Connectors \cup Fds
  /\ \A c \in Connections \cup Connectors : \A m \in SUBSET (kReadEvent \cup kWriteEvent) :
       None # [ptr |-> c, mask |-> m]
  /\ IsFiniteSet(Fds) /\ \A s \in SUBSET Fds : Cardinality(s) \in Nat
  /\ kInitEventListSize \in Nat \ {0}
  /\ Misuses \subseteq AllMisuses

VARIABLES
  poller,    \* the three tables, and the assertion that failed first
  owner,     \* per Channel: "free" memory, or how far its owner is
  open,      \* open descriptors
  condition, \* per descriptor, what the kernel knows of it
  size,      \* EPollPoller::events_.size()
  phase,     \* where loop() is: "poll", "dispatch" or "functors"
  active,    \* activeChannels_ with their revents_
  next,      \* the place in activeChannels_ of the channel that is handled next
  pending,   \* pendingFunctors_: pairs of a member function and a Channel
  functors   \* doPendingFunctors(): what is left of the swapped vector

loopVars == <<size, phase, active, next>>
pollerVars == <<poller, owner, open, condition, size, phase, active, next, pending, functors>>

Channels == Connections \cup Connectors

\* A socket has nothing new; bytes to read and room to write; or an error, with
\* which it hangs up too.
Conditions == {"quiet", "ready", "broken"}
Bits(k) == CASE k = "quiet" -> {}
             [] k = "ready" -> {"IN", "OUT"}
             [] k = "broken" -> {"IN", "OUT"} \cup Unasked

PollerInit ==
  /\ poller = [fd |-> [c \in Channels |-> None], events_ |-> [c \in Channels |-> {}],
               index_ |-> [c \in Channels |-> kNew], addedToLoop_ |-> [c \in Channels |-> FALSE],
               channels_ |-> [f \in Fds |-> None], epoll |-> [f \in Fds |-> None],
               failed |-> "none"]
  /\ owner = [c \in Channels |-> "free"]
  /\ open = {}
  /\ condition = [f \in Fds |-> "quiet"]
  /\ size = kInitEventListSize
  /\ phase = "poll"
  /\ active = <<>> /\ next = 1 /\ pending = <<>> /\ functors = <<>>

(***************************************************************************)
(* The poller: operators from tables to tables.                            *)
(***************************************************************************)

\* assert(holds).
Expect(p, holds, where) == [p EXCEPT !.failed = IF @ = "none" /\ ~holds THEN where ELSE @]

\* The record that module Channel has for c, with the kernel's entry.
Seen(p, c) ==
  LET entry == p.epoll[p.fd[c]]
  IN  [events_ |-> p.events_[c], index_ |-> p.index_[c], addedToLoop_ |-> p.addedToLoop_[c],
       registered |-> entry # None, mask |-> IF entry = None THEN {} ELSE entry.mask]

\* The tables once c is as r.  An epoll_ctl() that adds what is there fails, and the
\* entry keeps its pointer.
Store(p, c, r) ==
  [p EXCEPT !.events_[c] = r.events_, !.index_[c] = r.index_, !.addedToLoop_[c] = r.addedToLoop_,
            !.epoll[p.fd[c]] =
              CASE ~r.registered -> None
                [] r.registered /\ (@ = None \/ p.index_[c] = kAdded) -> [ptr |-> c, mask |-> r.mask]
                [] OTHER -> @]

\* Channel::Channel(loop, fd).
Construct(p, c, f) ==
  [p EXCEPT !.fd[c] = f, !.events_[c] = {}, !.index_[c] = kNew, !.addedToLoop_[c] = FALSE]

\* Channel::update() with the new events, EventLoop::updateChannel() and
\* EPollPoller::updateChannel().
Update(p, c, events) ==
  LET f == p.fd[c]
      known == p.channels_[f] = (IF p.index_[c] = kNew THEN None ELSE c)
  IN  [Store(Expect(p, known, "updateChannel"), c, update(Seen(p, c), events))
         EXCEPT !.channels_[f] = IF p.index_[c] = kNew THEN c ELSE @]

\* Mutant: the entry of channels_ stays.
RemoveFromTableOnly(p, c, current) ==
  Store(p, c, remove(Seen(p, c)))

\* Channel::remove(), EventLoop::removeChannel() and EPollPoller::removeChannel().
\* current: c is currentActiveChannel_.
Remove(p, c, current) ==
  LET f == p.fd[c]
      unlisted == phase = "dispatch" /\ ~current => \A i \in DOMAIN active : active[i].ptr # c
      mayRemove == MayRemove(Seen(p, c)) /\ p.channels_[f] = c
  IN  [Store(Expect(p, unlisted /\ mayRemove, "removeChannel"), c, remove(Seen(p, c)))
         EXCEPT !.channels_[f] = None]

\* Channel::~Channel().  hasChannel() compares pointers.
Destruct(p, c) ==
  Expect([p EXCEPT !.fd[c] = None], ~p.addedToLoop_[c] /\ p.channels_[p.fd[c]] # c, "dtor")

\* close(): the kernel drops what it has for the descriptor.
Close(p, f) == [p EXCEPT !.epoll[f] = None]

\* epoll_wait() has something to say of f.
Report(f) ==
  LET entry == poller.epoll[f]
  IN  IF entry = None THEN {} ELSE Bits(condition[f]) \cap (entry.mask \cup Unasked)

(***************************************************************************)
(* The kernel.                                                             *)
(***************************************************************************)

\* The condition of an open descriptor changes.
Change(f) ==
  /\ f \in open
  /\ \E k \in Conditions \ {condition[f]} : condition' = [condition EXCEPT ![f] = k]
  /\ UNCHANGED <<poller, owner, open, loopVars, pending, functors>>

\* A closed descriptor starts anew.
Forget(f) == /\ open' = open \ {f}
             /\ condition' = [condition EXCEPT ![f] = "quiet"]

(***************************************************************************)
(* EventLoop::loop() and EPollPoller::poll().                              *)
(***************************************************************************)

\* Mutant: the list of events never grows.
SameSize(n) == size

\* events_ doubles when it was full.
EventListSize(n) == IF n > 0 /\ n = size THEN 2 * size ELSE size

\* epoll_wait() fills the list with any of the ready descriptors, and
\* fillActiveChannels() looks each of them up.
Poll ==
  LET ready == {f \in Fds : Report(f) # {}}
      n == IF Cardinality(ready) < size THEN Cardinality(ready) ELSE size
  IN  /\ phase = "poll"
      /\ \E s \in [1..n -> ready] :
           /\ \A i, j \in 1..n : s[i] = s[j] => i = j
           /\ active' = [i \in 1..n |-> [ptr |-> poller.epoll[s[i]].ptr, revents_ |-> Report(s[i])]]
           /\ poller' = Expect(poller, \A i \in 1..n :
                                  LET c == poller.epoll[s[i]].ptr
                                  IN  owner[c] # "free" /\ poller.channels_[poller.fd[c]] = c,
                               "fillActiveChannels")
      /\ size' = EventListSize(n)
      /\ next' = 1
      /\ phase' = "dispatch"
      /\ UNCHANGED <<owner, open, condition, pending, functors>>

\* The end of the for loop, and the swap in doPendingFunctors().
DispatchDone ==
  /\ phase = "dispatch"
  /\ next > Len(active)
  /\ phase' = "functors"
  /\ active' = <<>> /\ next' = 1
  /\ functors' = pending /\ pending' = <<>>
  /\ UNCHANGED <<poller, owner, open, condition, size>>

FunctorsDone ==
  /\ phase = "functors"
  /\ functors = <<>>
  /\ phase' = "poll"
  /\ UNCHANGED <<poller, owner, open, condition, size, active, next, pending, functors>>

\* currentActiveChannel_ is c, and the next one follows.
Dispatched(c) ==
  /\ phase = "dispatch"
  /\ next <= Len(active)
  /\ active[next].ptr = c
  /\ next' = next + 1
  /\ UNCHANGED <<size, phase, active>>

Reports(bit) == bit \in active[next].revents_

\* An event of c is still to be handled.
Waiting(c) == \E i \in next..Len(active) : active[i].ptr = c

(***************************************************************************)
(* TcpConnection.  Its Channel is "made", "up" once connectEstablished()   *)
(* has run (kConnected), "closing" after shutdown() or forceClose()        *)
(* (kDisconnecting), "closed" once handleClose() has run, "down" when      *)
(* connectDestroyed() is queued then, and "removed" after it; "abandoned"  *)
(* if it was still kDisconnecting.                                         *)
(***************************************************************************)

InCallback == phase \in {"dispatch", "functors"}

\* TcpServer::newConnection(): a new TcpConnection, in the loop of the Acceptor; its
\* connectEstablished() runs at once, or is queued in another loop.
Accept(c, f) ==
  /\ owner[c] = "free" /\ f \notin open
  /\ open' = open \cup {f}
  /\ \/ /\ phase = "dispatch"
        /\ poller' = Update(Construct(poller, c, f), c, kReadEvent)
        /\ owner' = [owner EXCEPT ![c] = "up"]
        /\ UNCHANGED pending
     \/ /\ poller' = Construct(poller, c, f)
        /\ owner' = [owner EXCEPT ![c] = "made"]
        /\ pending' = Append(pending, <<"connectEstablished", c>>)
  /\ UNCHANGED <<condition, loopVars, functors>>

\* shutdown(), forceClose() or forceCloseWithDelay() of any thread.
Shutdown(c) ==
  /\ owner[c] = "up"
  /\ owner' = [owner EXCEPT ![c] = "closing"]
  /\ UNCHANGED <<poller, open, condition, loopVars, pending, functors>>

\* TcpConnection::handleClose() and removeConnection(): that of a TcpClient and that of
\* a TcpServer in this loop queue connectDestroyed(), one in another loop does so later.
HandleClose(c) ==
  /\ poller' = Update(Expect(poller, owner[c] \in {"up", "closing"}, "handleClose"), c, {})
  /\ \/ /\ owner' = [owner EXCEPT ![c] = "down"]
        /\ pending' = Append(pending, <<"connectDestroyed", c>>)
     \/ /\ owner' = [owner EXCEPT ![c] = "closed"]
        /\ UNCHANGED pending

\* TcpServer::removeConnectionInLoop() in the loop of the TcpServer.
RemoveConnectionInLoop(c) ==
  /\ owner[c] = "closed"
  /\ owner' = [owner EXCEPT ![c] = "down"]
  /\ pending' = Append(pending, <<"connectDestroyed", c>>)
  /\ UNCHANGED <<poller, open, condition, loopVars, functors>>

\* handleEvent(): a hang-up without input, or handleRead() finds the end.
ConnectionCloses(c) ==
  /\ Dispatched(c)
  /\ owner[c] # "free"
  /\ Reports("HUP") \/ Reports("IN")
  /\ HandleClose(c)
  /\ UNCHANGED <<open, condition, functors>>

\* handleEvent(): bytes are read, and handleWrite() may write the last of the output.
ConnectionHandles(c) ==
  /\ Dispatched(c)
  /\ owner[c] # "free"
  /\ Reports("HUP") => Reports("IN")
  /\ \/ UNCHANGED poller
     \/ /\ Reports("OUT") /\ kWriteEvent \subseteq poller.events_[c]
        /\ poller' = Update(poller, c, poller.events_[c] \ kWriteEvent)
  /\ UNCHANGED <<owner, open, condition, pending, functors>>

\* sendInLoop() of any connection that is not kDisconnected: output is left.
SendInLoop(c) ==
  /\ InCallback
  /\ owner[c] \in {"up", "closing"}
  /\ ~(kWriteEvent \subseteq poller.events_[c])
  /\ poller' = Update(poller, c, poller.events_[c] \cup kWriteEvent)
  /\ UNCHANGED <<owner, open, condition, loopVars, pending, functors>>

\* A user's TcpConnectionPtr, which the connection callback hands out first.
Known(c) ==
  \/ owner[c] \in {"up", "closing"}
  \/ owner[c] \in {"closed", "down", "removed", "abandoned"} /\ "readClosed" \in Misuses

\* startReadInLoop(), which tests no state.  Whatever is in events_, reading_ says so.
StartReadInLoop(c) ==
  /\ InCallback
  /\ Known(c)
  /\ ~(kReadEvent \subseteq poller.events_[c])
  /\ poller' = Update(poller, c, poller.events_[c] \cup kReadEvent)
  /\ UNCHANGED <<owner, open, condition, loopVars, pending, functors>>

\* stopReadInLoop(), which tests no state.  Once handleClose() has cleared events_,
\* reading_ may still be set.
StopReadInLoop(c) ==
  /\ InCallback
  /\ Known(c)
  /\ kReadEvent \subseteq poller.events_[c] \/ owner[c] \notin {"up", "closing"}
  /\ "stopListed" \in Misuses \/ ~Waiting(c)
  /\ poller' = Update(poller, c, poller.events_[c] \ kReadEvent)
  /\ UNCHANGED <<owner, open, condition, loopVars, pending, functors>>

\* TcpConnection::forceCloseInLoop(), a functor that forceClose() queued.
ForceClose(c) ==
  /\ phase = "functors"
  /\ owner[c] = "closing"
  /\ "closeStopped" \in Misuses \/ poller.events_[c] # {}
  /\ HandleClose(c)
  /\ UNCHANGED <<open, condition, loopVars, functors>>

\* TcpConnection::connectDestroyed(): disableAll() in kConnected only.
ConnectDestroyed(c) ==
  /\ poller' = Remove(IF owner[c] = "up" THEN Update(poller, c, {}) ELSE poller, c, FALSE)
  /\ owner' = [owner EXCEPT ![c] = IF @ = "closing" THEN "abandoned" ELSE "removed"]

\* ~TcpServer in the loop thread, or the functor that it queues in another loop.
ServerGone(c) ==
  /\ phase = "functors" \/ ("destroyInCallback" \in Misuses /\ phase = "dispatch")
  /\ owner[c] \in {"up", "closed"} \/ ("destroyClosing" \in Misuses /\ owner[c] = "closing")
  /\ ConnectDestroyed(c)
  /\ UNCHANGED <<open, condition, loopVars, pending, functors>>

\* The last TcpConnectionPtr goes: ~TcpConnection, which expects kDisconnected, with
\* ~Channel and ~Socket.
Release(c) ==
  /\ owner[c] \in {"removed", "abandoned"}
  /\ poller' = Close(Destruct(Expect(poller, owner[c] = "removed", "dtor"), c), poller.fd[c])
  /\ owner' = [owner EXCEPT ![c] = "free"]
  /\ Forget(poller.fd[c])
  /\ UNCHANGED <<loopVars, pending, functors>>

(***************************************************************************)
(* Connector.  Its Channel is "connecting", and "down" once it is removed  *)
(* from the poller and resetChannel() is queued.                           *)
(***************************************************************************)

\* Connector::connect() and connecting(), from a timer, a callback or a functor.
Connect(k, f) ==
  /\ InCallback
  /\ owner[k] = "free" /\ f \notin open
  /\ open' = open \cup {f}
  /\ poller' = Update(Construct(poller, k, f), k, kWriteEvent)
  /\ owner' = [owner EXCEPT ![k] = "connecting"]
  /\ UNCHANGED <<condition, loopVars, pending, functors>>

\* Connector::removeAndResetChannel().
Withdrawn(k, current) == Remove(Update(poller, k, {}), k, current)
ResetLater(k) == pending' = Append(pending, <<"resetChannel", k>>)

\* removeAndResetChannel() and retry(): the descriptor is closed.
GiveUp(k, current) ==
  /\ poller' = Close(Withdrawn(k, current), poller.fd[k])
  /\ owner' = [owner EXCEPT ![k] = "down"]
  /\ ResetLater(k)
  /\ Forget(poller.fd[k])

\* handleError(); or handleWrite() that finds an error, a connection to itself, or
\* that stop() was called.
AttemptFails(k) ==
  /\ Dispatched(k)
  /\ owner[k] = "connecting"
  /\ GiveUp(k, TRUE)
  /\ UNCHANGED functors

\* handleWrite() on success: TcpClient::newConnection() makes a TcpConnection of the
\* same descriptor and establishes it.
AttemptSucceeds(k, c) ==
  /\ Dispatched(k)
  /\ owner[k] = "connecting" /\ owner[c] = "free"
  /\ Reports("OUT") /\ ~Reports("ERR")
  /\ poller' = Update(Construct(Withdrawn(k, TRUE), c, poller.fd[k]), c, kReadEvent)
  /\ owner' = [owner EXCEPT ![k] = "down", ![c] = "up"]
  /\ ResetLater(k)
  /\ UNCHANGED <<open, condition, functors>>

\* Connector::stopInLoop(), a functor.
StopInLoop(k) ==
  /\ phase = "functors"
  /\ owner[k] = "connecting"
  /\ GiveUp(k, FALSE)
  /\ UNCHANGED <<loopVars, functors>>

(***************************************************************************)
(* EventLoop::doPendingFunctors().                                         *)
(***************************************************************************)

\* TcpConnection::connectEstablished().
ConnectEstablished(c) ==
  /\ poller' = Update(poller, c, kReadEvent)
  /\ owner' = [owner EXCEPT ![c] = "up"]

\* Connector::resetChannel().
ResetChannel(k) ==
  /\ poller' = Destruct(poller, k)
  /\ owner' = [owner EXCEPT ![k] = "free"]

RunFunctor ==
  /\ phase = "functors"
  /\ functors # <<>>
  /\ LET c == functors[1][2]
     IN  \/ functors[1][1] = "connectEstablished" /\ ConnectEstablished(c)
         \/ functors[1][1] = "connectDestroyed" /\ ConnectDestroyed(c)
         \/ functors[1][1] = "resetChannel" /\ ResetChannel(c)
  /\ functors' = Tail(functors)
  /\ UNCHANGED <<open, condition, loopVars, pending>>

(***************************************************************************)
(* The specification.                                                      *)
(***************************************************************************)

Handler ==
  \/ \E c \in Connections : ConnectionCloses(c) \/ ConnectionHandles(c)
  \/ \E k \in Connectors : AttemptFails(k)
  \/ \E k \in Connectors, c \in Connections : AttemptSucceeds(k, c)

\* What loop() does by itself.
LoopStep == Poll \/ Handler \/ DispatchDone \/ RunFunctor \/ FunctorsDone

\* What the kernel, callbacks, functors and other threads do besides.
OtherStep ==
  \/ \E f \in Fds : Change(f)
  \/ \E c \in Connections, f \in Fds : Accept(c, f)
  \/ \E k \in Connectors, f \in Fds : Connect(k, f)
  \/ \E c \in Connections :
       \/ Shutdown(c) \/ SendInLoop(c) \/ StartReadInLoop(c) \/ StopReadInLoop(c)
       \/ ForceClose(c) \/ RemoveConnectionInLoop(c) \/ ServerGone(c) \/ Release(c)
  \/ \E k \in Connectors : StopInLoop(k)

PollerNext == LoopStep \/ OtherStep

PollerSpec == PollerInit /\ [][PollerNext]_pollerVars

\* The loop thread goes on.
PollerFairSpec == PollerSpec /\ WF_pollerVars(LoopStep)

(***************************************************************************)
(* Properties.                                                             *)
(***************************************************************************)

Owners == {"free", "made", "up", "closing", "closed", "down", "removed", "abandoned",
           "connecting"}
Events == kReadEvent \cup kWriteEvent
Entries == [ptr : Channels, mask : SUBSET Events]
Active == [ptr : Channels, revents_ : SUBSET (Events \cup Unasked)]
Functors == {"connectEstablished", "connectDestroyed", "resetChannel"} \X Channels
Assertions == {"updateChannel", "removeChannel", "dtor", "fillActiveChannels", "handleClose"}

Tables == [fd : [Channels -> Fds \cup {None}],
           events_ : [Channels -> SUBSET Events],
           index_ : [Channels -> {kNew, kAdded, kDeleted}],
           addedToLoop_ : [Channels -> BOOLEAN],
           channels_ : [Fds -> Channels \cup {None}],
           epoll : [Fds -> Entries \cup {None}],
           failed : Assertions \cup {"none"}]

\* Type correctness of the poller, of its Channels and of the loop.
TypeOK ==
  /\ poller \in Tables
  /\ owner \in [Channels -> Owners]
  /\ open \subseteq Fds
  /\ condition \in [Fds -> Conditions]
  /\ size \in Nat \ {0}
  /\ phase \in {"poll", "dispatch", "functors"}
  /\ active \in Seq(Active) /\ next \in Nat \ {0}
  /\ pending \in Seq(Functors) /\ functors \in Seq(Functors)

\* The assertions of epoller.cc, of EventLoop::removeChannel(), of ~Channel and of
\* handleClose() hold, whichever way descriptors and Channels are used again.
NoAssertFails == poller.failed = "none"

\* The kernel's entries and the Channels that believe to be registered are the same:
\* a pointer that epoll_wait() returns is that of a living Channel, which channels_
\* has under the same descriptor and which asked for the same events; and no Channel
\* that waits for events has lost its entry.
TableAgrees ==
  /\ \A f \in Fds : poller.epoll[f] # None =>
       LET c == poller.epoll[f].ptr
       IN  /\ f \in open /\ owner[c] # "free"
           /\ poller.fd[c] = f /\ poller.channels_[f] = c
           /\ poller.index_[c] = kAdded /\ poller.events_[c] = poller.epoll[f].mask
  /\ \A c \in Channels : owner[c] # "free" /\ poller.index_[c] = kAdded =>
       poller.epoll[poller.fd[c]] # None /\ poller.epoll[poller.fd[c]].ptr = c

\* loop() calls no handler of a Channel that is destroyed or removed since the poll:
\* the rest of activeChannels_ is still in channels_, and a Connector whose Channel
\* is handled is still connecting ("what happened?" in Connector::handleWrite()).
ListedIsRegistered ==
  \A i \in next..Len(active) :
    LET c == active[i].ptr
    IN  /\ owner[c] \in {"up", "closing", "connecting"}
        /\ poller.channels_[poller.fd[c]] = c

\* The kernel's table, channels_, the Channels and activeChannels_ agree.
TablesAgree == TableAgrees /\ ListedIsRegistered

\* However short the list of events is at first, no ready descriptor is passed over
\* for ever, whichever ready ones the kernel prefers.
ReadyIsHandled ==
  \A f \in Fds : []<>(Report(f) = {} \/ (next <= Len(active) /\ active[next].ptr = poller.channels_[f]))
==============================================================================
