------------------------------- MODULE Channel -------------------------------
(***************************************************************************)
(* net/channel.{h,cc} and the registration half of net/epoller.cc, as      *)
(* operators on one Channel and on what the kernel's epoll table holds for *)
(* its file descriptor.  An event mask is a subset of {"IN", "OUT"}; the   *)
(* kernel reports ERR and HUP whether they are asked for or not.           *)
(***************************************************************************)
EXTENDS FiniteSets

kReadEvent == {"IN"}
kWriteEvent == {"OUT"}
Unasked == {"ERR", "HUP"}

\* Channel::index_: epoller.cc's three states of a channel.
kNew == "kNew"
kAdded == "kAdded"
kDeleted == "kDeleted"

\* registered, mask: the kernel's entry for the descriptor.
ChannelType == [events_ : SUBSET (kReadEvent \cup kWriteEvent), index_ : {kNew, kAdded, kDeleted},
                addedToLoop_ : BOOLEAN, registered : BOOLEAN, mask : SUBSET (kReadEvent \cup kWriteEvent)]

\* Channel::Channel(); the descriptor is not in the epoll table.
NewChannel == [events_ |-> {}, index_ |-> kNew, addedToLoop_ |-> FALSE, registered |-> FALSE, mask |-> {}]

isNoneEvent(c) == c.events_ = {}
isWriting(c) == kWriteEvent \subseteq c.events_
isReading(c) == kReadEvent \subseteq c.events_

\* EPollPoller::update(): epoll_ctl().  ADD of a descriptor that is in the table
\* and MOD or DEL of one that is not fail, and the failure is ignored.
epoll_ctl(op, c) ==
  CASE op = "ADD" /\ ~c.registered -> [c EXCEPT !.registered = TRUE, !.mask = c.events_]
    [] op = "MOD" /\ c.registered -> [c EXCEPT !.mask = c.events_]
    [] op = "DEL" /\ c.registered -> [c EXCEPT !.registered = FALSE, !.mask = {}]
    [] OTHER -> c

\* Mutant: a channel without events stays in the table.
UpdateNeverDeletes(c) ==
  IF c.index_ \in {kNew, kDeleted}
  THEN epoll_ctl("ADD", [c EXCEPT !.index_ = kAdded])
  ELSE epoll_ctl("MOD", c)

\* EPollPoller::updateChannel().
updateChannel(c) ==
  CASE c.index_ \in {kNew, kDeleted} -> epoll_ctl("ADD", [c EXCEPT !.index_ = kAdded])
    [] c.index_ = kAdded /\ isNoneEvent(c) -> [epoll_ctl("DEL", c) EXCEPT !.index_ = kDeleted]
    [] c.index_ = kAdded /\ ~isNoneEvent(c) -> epoll_ctl("MOD", c)

\* Channel::update(), called with the new events_.
update(c, events) == updateChannel([c EXCEPT !.events_ = events, !.addedToLoop_ = TRUE])

enableReading(c) == update(c, c.events_ \cup kReadEvent)
disableReading(c) == update(c, c.events_ \ kReadEvent)
enableWriting(c) == update(c, c.events_ \cup kWriteEvent)
disableWriting(c) == update(c, c.events_ \ kWriteEvent)
disableAll(c) == update(c, {})

\* The assertions of Channel::remove() and EPollPoller::removeChannel().
MayRemove(c) == isNoneEvent(c) /\ c.index_ \in {kAdded, kDeleted}

\* Channel::remove() and EPollPoller::removeChannel().
remove(c) ==
  [(IF c.index_ = kAdded THEN epoll_ctl("DEL", c) ELSE c) EXCEPT !.index_ = kNew, !.addedToLoop_ = FALSE]

\* What epoll_wait() reports of a descriptor whose condition is ready.
Reported(c, ready) == IF c.registered THEN ready \cap (c.mask \cup Unasked) ELSE {}
==============================================================================
