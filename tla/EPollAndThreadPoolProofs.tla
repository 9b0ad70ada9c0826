---------------------- MODULE EPollAndThreadPoolProofs ----------------------
(***************************************************************************)
(* Proofs about EPollPoller and, at the end, about ThreadPool.             *)
(*                                                                         *)
(* EPollPoller, for any number of connections, connectors and              *)
(* descriptors: the assertions of epoller.cc, of EventLoop::removeChannel()*)
(* and of ~Channel never fail, the kernel's table agrees with channels_    *)
(* and with the Channels, and loop() calls no handler of a Channel that is *)
(* gone.  They are proved for programs without the five usages of          *)
(* AllMisuses, each of which breaks an assertion.                          *)
(***************************************************************************)
EXTENDS EPollPoller, ThreadPool, FiniteSetTheorems, TLAPS

\* The time that the provers may take for a step.
USE SMTT(20), ZenonT(20)

\* c owns its descriptor: nobody else closes it.
Holder(o, c) ==
  \/ o[c] \in {"made", "up", "closing", "closed", "removed", "abandoned", "connecting"}
  \/ c \in Connections /\ o[c] = "down"

\* c is in channels_.
Registered(o, c) ==
  \/ o[c] \in {"up", "closing", "closed", "connecting"}
  \/ c \in Connections /\ o[c] = "down"

\* The tables p agree with what the owners o and the open descriptors s say.
TablesSound(p, o, s) ==
  /\ p \in Tables /\ o \in [Channels -> Owners] /\ s \in SUBSET Fds
  /\ p.failed = "none"
  /\ \A c \in Channels : o[c] # "free" => p.fd[c] \in Fds
  /\ \A c \in Channels : Holder(o, c) => p.fd[c] \in s
  /\ \A c, d \in Channels : Holder(o, c) /\ Holder(o, d) /\ p.fd[c] = p.fd[d] => c = d
  /\ \A c \in Channels : Registered(o, c) =>
       /\ p.channels_[p.fd[c]] = c
       /\ \/ p.index_[c] = kAdded /\ p.epoll[p.fd[c]] = [ptr |-> c, mask |-> p.events_[c]]
          \/ p.index_[c] = kDeleted /\ p.epoll[p.fd[c]] = None /\ p.events_[c] = {}
  /\ \A c \in Channels : ~Registered(o, c) => p.index_[c] = kNew /\ p.addedToLoop_[c] = FALSE
  /\ \A f \in Fds : p.channels_[f] # None =>
       Registered(o, p.channels_[f]) /\ p.fd[p.channels_[f]] = f
  /\ \A f \in Fds : p.epoll[f] # None => p.channels_[f] # None
  /\ \A c \in Channels : o[c] \in {"closed", "down"} => p.events_[c] = {}

\* How a Channel is found by updateChannel(): it is new and its descriptor unknown,
\* or channels_ has it and the kernel has what index_ says.
Consistent(p, c) ==
  /\ p \in Tables /\ c \in Channels /\ p.fd[c] \in Fds
  /\ \/ p.index_[c] = kNew /\ p.channels_[p.fd[c]] = None /\ p.epoll[p.fd[c]] = None
     \/ /\ p.index_[c] = kAdded /\ p.channels_[p.fd[c]] = c
        /\ p.epoll[p.fd[c]] = [ptr |-> c, mask |-> p.events_[c]]
     \/ p.index_[c] = kDeleted /\ p.channels_[p.fd[c]] = c /\ p.epoll[p.fd[c]] = None

\* Tables with equal fields are equal.
LEMMA SameTables ==
  ASSUME NEW p \in Tables, NEW q \in Tables,
         p.fd = q.fd, p.events_ = q.events_, p.index_ = q.index_, p.addedToLoop_ = q.addedToLoop_,
         p.channels_ = q.channels_, p.epoll = q.epoll, p.failed = q.failed
  PROVE  p = q
BY DEF Tables

\* An assertion that holds changes nothing.
LEMMA Expected ==
  ASSUME NEW p \in Tables, NEW where \in Assertions, NEW holds, holds
  PROVE  Expect(p, holds, where) = p
<1> DEFINE e == Expect(p, holds, where)
<1>1. e = [p EXCEPT !.failed = p.failed]
  BY DEF Expect
<1>2. e \in Tables
  BY <1>1, Zenon DEF Tables
<1>3. /\ e.fd = p.fd /\ e.events_ = p.events_ /\ e.index_ = p.index_
      /\ e.addedToLoop_ = p.addedToLoop_ /\ e.channels_ = p.channels_
      /\ e.epoll = p.epoll /\ e.failed = p.failed
  BY <1>1, Zenon DEF Tables
<1> QED
  BY <1>2, <1>3, SameTables, Zenon

\* What EPollPoller::updateChannel() does to one Channel whose registration agrees
\* with its index_.
LEMMA UpdateOne ==
  ASSUME NEW s \in ChannelType, s.registered <=> s.index_ = kAdded,
         NEW events \in SUBSET (kReadEvent \cup kWriteEvent)
  PROVE  LET r == update(s, events)
             out == s.index_ = kAdded /\ events = {}
         IN  /\ r \in ChannelType
             /\ r.events_ = events
             /\ r.addedToLoop_
             /\ r.index_ = IF out THEN kDeleted ELSE kAdded
             /\ r.registered <=> ~out
             /\ r.mask = events
<1> DEFINE t == [s EXCEPT !.events_ = events, !.addedToLoop_ = TRUE]
           a == [t EXCEPT !.index_ = kAdded]
<1>1. /\ t \in ChannelType /\ t.events_ = events /\ t.addedToLoop_ /\ t.index_ = s.index_
      /\ t.registered <=> s.registered
      /\ t.mask = s.mask
  BY Zenon DEF ChannelType
<1>2. update(s, events) = updateChannel(t)
  BY DEF update
<1> HIDE DEF t
<1>3. CASE s.index_ \in {kNew, kDeleted}
  <2>1. updateChannel(t) = epoll_ctl("ADD", a)
    BY <1>1, <1>3 DEF updateChannel, kNew, kDeleted, kAdded
  <2>2. /\ a \in ChannelType /\ a.events_ = events /\ a.addedToLoop_ /\ a.index_ = kAdded
        /\ ~a.registered
    BY <1>1, <1>3 DEF ChannelType, kNew, kDeleted, kAdded
  <2> HIDE DEF a
  <2>3. epoll_ctl("ADD", a) = [a EXCEPT !.registered = TRUE, !.mask = events]
    BY <2>2 DEF epoll_ctl
  <2>4. ~(s.index_ = kAdded /\ events = {})
    BY <1>3 DEF kNew, kDeleted, kAdded
  <2>5. update(s, events) = [a EXCEPT !.registered = TRUE, !.mask = events]
    BY <1>2, <2>1, <2>3
  <2> QED
    BY <2>2, <2>4, <2>5, Zenon DEF ChannelType
<1>4. CASE s.index_ = kAdded /\ events = {}
  <2>1. updateChannel(t) = [epoll_ctl("DEL", t) EXCEPT !.index_ = kDeleted]
    BY <1>1, <1>4 DEF updateChannel, isNoneEvent, kNew, kDeleted, kAdded
  <2>2. epoll_ctl("DEL", t) = [t EXCEPT !.registered = FALSE, !.mask = {}]
    BY <1>1, <1>4 DEF epoll_ctl
  <2> QED
    BY <1>1, <1>2, <1>4, <2>1, <2>2, ZenonT(40) DEF ChannelType, kNew, kDeleted, kAdded
<1>5. CASE s.index_ = kAdded /\ events # {}
  <2>1. updateChannel(t) = epoll_ctl("MOD", t)
    BY <1>1, <1>5 DEF updateChannel, isNoneEvent, kNew, kDeleted, kAdded
  <2>2. epoll_ctl("MOD", t) = [t EXCEPT !.mask = events]
    BY <1>1, <1>5 DEF epoll_ctl
  <2> QED
    BY <1>1, <1>2, <1>5, <2>1, <2>2 DEF ChannelType, kNew, kDeleted, kAdded
<1> QED
  BY <1>3, <1>4, <1>5 DEF ChannelType

\* The tables after updateChannel(c) with the new events: a Channel that waits for
\* nothing leaves the kernel's table, and one that was out of it is added.
LEMMA UpdateDoes ==
  ASSUME NEW p, NEW c, NEW events \in SUBSET Events, Consistent(p, c)
  PROVE  LET q == Update(p, c, events)
             out == p.index_[c] = kAdded /\ events = {}
         IN  /\ q \in Tables
             /\ q.fd = p.fd /\ q.failed = p.failed
             /\ q.events_ = [p.events_ EXCEPT ![c] = events]
             /\ q.index_ = [p.index_ EXCEPT ![c] = IF out THEN kDeleted ELSE kAdded]
             /\ q.addedToLoop_ = [p.addedToLoop_ EXCEPT ![c] = TRUE]
             /\ q.channels_ = [p.channels_ EXCEPT ![p.fd[c]] = c]
             /\ q.epoll = [p.epoll EXCEPT ![p.fd[c]] =
                             IF out THEN None ELSE [ptr |-> c, mask |-> events]]
<1> DEFINE f == p.fd[c]
           out == p.index_[c] = kAdded /\ events = {}
           r == update(Seen(p, c), events)
           e == Expect(p, p.channels_[f] = (IF p.index_[c] = kNew THEN None ELSE c), "updateChannel")
<1>1. /\ p \in Tables /\ c \in Channels /\ f \in Fds
      /\ p.events_ \in [Channels -> SUBSET Events]
      /\ p.index_ \in [Channels -> {kNew, kAdded, kDeleted}]
      /\ p.addedToLoop_ \in [Channels -> BOOLEAN]
      /\ p.channels_ \in [Fds -> Channels \cup {None}]
      /\ p.epoll \in [Fds -> Entries \cup {None}]
  BY DEF Consistent, Tables
<1>2. e = p
  <2>1. p.channels_[f] = (IF p.index_[c] = kNew THEN None ELSE c)
    BY DEF Consistent, kNew, kAdded, kDeleted
  <2> QED
    BY <1>1, <2>1, Expected, Zenon DEF Assertions
<1>3. /\ r.events_ = events /\ r.addedToLoop_ \in BOOLEAN /\ r.addedToLoop_
      /\ r.index_ = IF out THEN kDeleted ELSE kAdded
      /\ (r.registered <=> ~out)
      /\ r.mask = events
  <2> DEFINE s == Seen(p, c)
  <2>1. None # [ptr |-> c, mask |-> p.events_[c]]
    BY <1>1, PollerAssumption DEF Channels, Events
  <2>2. /\ s \in ChannelType
        /\ s.index_ = p.index_[c] /\ (s.registered <=> p.index_[c] = kAdded)
    BY <1>1, <2>1, Zenon DEF Seen, ChannelType, Consistent, Events, kNew, kAdded, kDeleted, Entries
  <2> DEFINE gone == s.index_ = kAdded /\ events = {}
  <2>3. /\ r \in ChannelType /\ r.events_ = events /\ r.addedToLoop_
        /\ r.index_ = IF gone THEN kDeleted ELSE kAdded
        /\ r.registered <=> ~gone
        /\ r.mask = events
    <3> HIDE DEF s
    <3>1. events \in SUBSET (kReadEvent \cup kWriteEvent) /\ (s.registered <=> s.index_ = kAdded)
      BY <2>2 DEF Events
    <3> QED
      BY <2>2, <3>1, UpdateOne DEF s
  <2>4. gone <=> out
    BY <2>2
  <2> QED
    BY <2>3, <2>4 DEF ChannelType
<1> HIDE DEF r, e
<1>4. Update(p, c, events) = [Store(p, c, r) EXCEPT !.channels_[f] = IF p.index_[c] = kNew THEN c ELSE @]
  BY <1>2 DEF Update, r, e
<1> DEFINE q == Update(p, c, events)
           entry == IF out THEN None ELSE [ptr |-> c, mask |-> events]
<1>5. /\ q = [p EXCEPT !.events_[c] = events,
                       !.index_[c] = IF out THEN kDeleted ELSE kAdded,
                       !.addedToLoop_[c] = TRUE,
                       !.epoll[f] = entry,
                       !.channels_[f] = c]
  BY <1>1, <1>3, <1>4, Zenon DEF Store, Consistent, Tables, kNew, kAdded, kDeleted
<1>6. entry \in Entries \cup {None}
  BY <1>1 DEF Entries
<1>7. /\ q.fd = p.fd /\ q.failed = p.failed
      /\ q.events_ = [p.events_ EXCEPT ![c] = events]
      /\ q.index_ = [p.index_ EXCEPT ![c] = IF out THEN kDeleted ELSE kAdded]
      /\ q.addedToLoop_ = [p.addedToLoop_ EXCEPT ![c] = TRUE]
      /\ q.channels_ = [p.channels_ EXCEPT ![f] = c]
      /\ q.epoll = [p.epoll EXCEPT ![f] = entry]
  BY <1>1, <1>5 DEF Tables
<1>8. /\ [p.events_ EXCEPT ![c] = events] \in [Channels -> SUBSET Events]
      /\ [p.index_ EXCEPT ![c] = IF out THEN kDeleted ELSE kAdded] \in [Channels -> {kNew, kAdded, kDeleted}]
      /\ [p.addedToLoop_ EXCEPT ![c] = TRUE] \in [Channels -> BOOLEAN]
      /\ [p.channels_ EXCEPT ![f] = c] \in [Fds -> Channels \cup {None}]
      /\ [p.epoll EXCEPT ![f] = entry] \in [Fds -> Entries \cup {None}]
  BY <1>1, <1>6
<1>9. q \in Tables
  BY <1>1, <1>5, <1>8, ZenonT(30) DEF Tables
<1> QED
  BY <1>7, <1>9

\* What EPollPoller::removeChannel() does to one Channel.
LEMMA RemoveOne ==
  ASSUME NEW s \in ChannelType, s.registered <=> s.index_ = kAdded
  PROVE  LET r == remove(s)
         IN  /\ r \in ChannelType
             /\ r.events_ = s.events_
             /\ ~r.addedToLoop_
             /\ r.index_ = kNew
             /\ ~r.registered
<1>1. CASE s.index_ = kAdded
  <2>1. epoll_ctl("DEL", s) = [s EXCEPT !.registered = FALSE, !.mask = {}]
    BY <1>1 DEF epoll_ctl
  <2>2. remove(s) = [[s EXCEPT !.registered = FALSE, !.mask = {}] EXCEPT !.index_ = kNew, !.addedToLoop_ = FALSE]
    BY <1>1, <2>1, Zenon DEF remove
  <2> QED
    BY <2>2, Zenon DEF ChannelType
<1>2. CASE s.index_ # kAdded
  <2>1. remove(s) = [s EXCEPT !.index_ = kNew, !.addedToLoop_ = FALSE]
    BY <1>2 DEF remove
  <2> QED
    BY <1>2, <2>1, Zenon DEF ChannelType
<1> QED
  BY <1>1, <1>2

\* The tables after removeChannel(c) of a Channel that waits for no event.
LEMMA RemoveDoes ==
  ASSUME NEW p, NEW c, NEW current \in BOOLEAN, Consistent(p, c),
         p.index_[c] # kNew, p.events_[c] = {},
         phase = "dispatch" /\ ~current => \A i \in DOMAIN active : active[i].ptr # c
  PROVE  LET q == Remove(p, c, current)
         IN  /\ q \in Tables
             /\ q.fd = p.fd /\ q.failed = p.failed /\ q.events_ = p.events_
             /\ q.index_ = [p.index_ EXCEPT ![c] = kNew]
             /\ q.addedToLoop_ = [p.addedToLoop_ EXCEPT ![c] = FALSE]
             /\ q.channels_ = [p.channels_ EXCEPT ![p.fd[c]] = None]
             /\ q.epoll = [p.epoll EXCEPT ![p.fd[c]] = None]
<1> DEFINE f == p.fd[c]
           r == remove(Seen(p, c))
           q == Remove(p, c, current)
           unlisted == phase = "dispatch" /\ ~current => \A i \in DOMAIN active : active[i].ptr # c
           mayRemove == MayRemove(Seen(p, c)) /\ p.channels_[f] = c
           e == Expect(p, unlisted /\ mayRemove, "removeChannel")
<1>1. /\ p \in Tables /\ c \in Channels /\ f \in Fds
      /\ p.events_ \in [Channels -> SUBSET Events]
      /\ p.index_ \in [Channels -> {kNew, kAdded, kDeleted}]
      /\ p.addedToLoop_ \in [Channels -> BOOLEAN]
      /\ p.channels_ \in [Fds -> Channels \cup {None}]
      /\ p.epoll \in [Fds -> Entries \cup {None}]
  BY DEF Consistent, Tables
<1>2. /\ Seen(p, c) \in ChannelType
      /\ Seen(p, c).index_ = p.index_[c] /\ Seen(p, c).events_ = p.events_[c]
      /\ Seen(p, c).registered <=> Seen(p, c).index_ = kAdded
  <2>1. None # [ptr |-> c, mask |-> p.events_[c]]
    BY <1>1, PollerAssumption DEF Channels, Events
  <2> QED
    BY <1>1, <2>1, Zenon DEF Seen, ChannelType, Consistent, Events, kNew, kAdded, kDeleted, Entries
<1>3. e = p
  <2>1. mayRemove
    BY <1>1, <1>2 DEF MayRemove, isNoneEvent, Consistent
  <2>2. unlisted
    OBVIOUS
  <2> HIDE DEF mayRemove, unlisted
  <2> QED
    BY <1>1, <2>1, <2>2, Expected, Zenon DEF Assertions
<1>4. r \in ChannelType /\ r.events_ = p.events_[c] /\ ~r.addedToLoop_ /\ r.index_ = kNew /\ ~r.registered
  BY <1>2, RemoveOne
<1>5. q = [Store(p, c, r) EXCEPT !.channels_[f] = None]
  BY <1>3 DEF Remove
<1> HIDE DEF r, e
<1>6. q = [p EXCEPT !.events_[c] = p.events_[c], !.index_[c] = kNew, !.addedToLoop_[c] = FALSE,
                    !.epoll[f] = None, !.channels_[f] = None]
  <2>1. r.addedToLoop_ = FALSE
    BY <1>4 DEF ChannelType
  <2> QED
    BY <1>1, <1>4, <1>5, <2>1, Zenon DEF Store, Tables
<1>7. /\ q.fd = p.fd /\ q.failed = p.failed
      /\ q.events_ = [p.events_ EXCEPT ![c] = p.events_[c]]
      /\ q.index_ = [p.index_ EXCEPT ![c] = kNew]
      /\ q.addedToLoop_ = [p.addedToLoop_ EXCEPT ![c] = FALSE]
      /\ q.channels_ = [p.channels_ EXCEPT ![f] = None]
      /\ q.epoll = [p.epoll EXCEPT ![f] = None]
  BY <1>1, <1>6 DEF Tables
<1>8. /\ [p.events_ EXCEPT ![c] = p.events_[c]] = p.events_
      /\ [p.index_ EXCEPT ![c] = kNew] \in [Channels -> {kNew, kAdded, kDeleted}]
      /\ [p.addedToLoop_ EXCEPT ![c] = FALSE] \in [Channels -> BOOLEAN]
      /\ [p.channels_ EXCEPT ![f] = None] \in [Fds -> Channels \cup {None}]
      /\ [p.epoll EXCEPT ![f] = None] \in [Fds -> Entries \cup {None}]
  BY <1>1, Zenon
<1>9. q \in Tables
  BY <1>1, <1>6, <1>8, Zenon DEF Tables
<1> QED
  BY <1>7, <1>8, <1>9

(***************************************************************************)
(* Each call keeps the tables sound.                                       *)
(***************************************************************************)

\* A Channel whose owner holds its descriptor is found as updateChannel() expects.
LEMMA HolderConsistent ==
  ASSUME NEW p, NEW o, NEW s, TablesSound(p, o, s), NEW c \in Channels, Holder(o, c)
  PROVE  Consistent(p, c)
<1>1. p \in Tables /\ p.fd[c] \in Fds
  BY DEF TablesSound
<1>2. CASE Registered(o, c)
  BY <1>1, <1>2 DEF TablesSound, Consistent
<1>3. CASE ~Registered(o, c)
  <2>1. p.index_[c] = kNew
    BY <1>3 DEF TablesSound
  <2>2. p.channels_[p.fd[c]] = None
    <3> SUFFICES ASSUME p.channels_[p.fd[c]] # None PROVE FALSE
      OBVIOUS
    <3> DEFINE d == p.channels_[p.fd[c]]
    <3>1. d \in Channels
      BY <1>1 DEF Tables
    <3>2. Registered(o, d) /\ p.fd[d] = p.fd[c]
      BY <1>1 DEF TablesSound
    <3>3. Holder(o, d)
      BY <3>2 DEF Registered, Holder
    <3>4. d = c
      BY <3>1, <3>2, <3>3 DEF TablesSound
    <3> QED
      BY <1>3, <3>2, <3>4
  <2>3. p.epoll[p.fd[c]] = None
    BY <1>1, <2>2 DEF TablesSound
  <2> QED
    BY <1>1, <2>1, <2>2, <2>3 DEF Consistent
<1> QED
  BY <1>2, <1>3

\* From p to q only c changes its descriptor or its index_.
OthersKept(p, q, c) ==
  \A d \in Channels \ {c} : q.index_[d] = p.index_[d] /\ q.fd[d] = p.fd[d]

\* updateChannel() of a Channel that its owner registers or has registered.
LEMMA UpdateKeeps ==
  ASSUME NEW p, NEW o, NEW s, TablesSound(p, o, s), NEW c \in Channels, Holder(o, c),
         NEW state \in Owners, NEW events \in SUBSET Events,
         Registered([o EXCEPT ![c] = state], c), state \in {"closed", "down"} => events = {}
  PROVE  TablesSound(Update(p, c, events), [o EXCEPT ![c] = state], s)
<1> DEFINE q == Update(p, c, events)
           f == p.fd[c]
           out == p.index_[c] = kAdded /\ events = {}
           n == [o EXCEPT ![c] = state]
<1>1. Consistent(p, c)
  BY HolderConsistent
<1>2. /\ q \in Tables
      /\ q.fd = p.fd /\ q.failed = p.failed
      /\ q.events_ = [p.events_ EXCEPT ![c] = events]
      /\ q.index_ = [p.index_ EXCEPT ![c] = IF out THEN kDeleted ELSE kAdded]
      /\ q.addedToLoop_ = [p.addedToLoop_ EXCEPT ![c] = TRUE]
      /\ q.channels_ = [p.channels_ EXCEPT ![f] = c]
      /\ q.epoll = [p.epoll EXCEPT ![f] = IF out THEN None ELSE [ptr |-> c, mask |-> events]]
  BY <1>1, UpdateDoes
<1> HIDE DEF q
<1>3. /\ p \in Tables /\ f \in Fds /\ f \in s /\ p.failed = "none" /\ s \in SUBSET Fds
      /\ o \in [Channels -> Owners] /\ n \in [Channels -> Owners]
      /\ p.events_ \in [Channels -> SUBSET Events]
      /\ p.index_ \in [Channels -> {kNew, kAdded, kDeleted}]
      /\ p.addedToLoop_ \in [Channels -> BOOLEAN]
      /\ p.channels_ \in [Fds -> Channels \cup {None}]
      /\ p.epoll \in [Fds -> Entries \cup {None}]
  BY DEF TablesSound, Tables
<1>4. \A d \in Channels : d # c => n[d] = o[d] /\ (Holder(n, d) <=> Holder(o, d)) /\ (Registered(n, d) <=> Registered(o, d))
  BY <1>3 DEF Holder, Registered
<1>5. n[c] = state /\ Registered(n, c) /\ Holder(n, c) /\ state # "free"
  BY <1>3 DEF Holder, Registered
<1> HIDE DEF n
<1>6. \A d \in Channels : d # c /\ Registered(o, d) => p.fd[d] # f /\ p.fd[d] \in Fds
  BY <1>3 DEF TablesSound, Holder, Registered
<1>7. \A d \in Channels : n[d] # "free" => q.fd[d] \in Fds
  BY <1>2, <1>3, <1>4 DEF TablesSound
<1>8. \A d \in Channels : Holder(n, d) => q.fd[d] \in s
  BY <1>2, <1>3, <1>4 DEF TablesSound
<1>9. \A d, b \in Channels : Holder(n, d) /\ Holder(n, b) /\ q.fd[d] = q.fd[b] => d = b
  BY <1>2, <1>4, <1>5, Zenon DEF TablesSound
<1>10. \A d \in Channels : Registered(n, d) =>
         /\ q.channels_[q.fd[d]] = d
         /\ \/ q.index_[d] = kAdded /\ q.epoll[q.fd[d]] = [ptr |-> d, mask |-> q.events_[d]]
            \/ q.index_[d] = kDeleted /\ q.epoll[q.fd[d]] = None /\ q.events_[d] = {}
  <2> TAKE d \in Channels
  <2> HAVE Registered(n, d)
  <2>1. CASE d = c
    BY <1>2, <1>3, <2>1
  <2>2. CASE d # c
    <3>1. /\ p.channels_[p.fd[d]] = d
          /\ \/ p.index_[d] = kAdded /\ p.epoll[p.fd[d]] = [ptr |-> d, mask |-> p.events_[d]]
             \/ p.index_[d] = kDeleted /\ p.epoll[p.fd[d]] = None /\ p.events_[d] = {}
      BY <1>4, <2>2 DEF TablesSound
    <3>2. p.fd[d] # f /\ p.fd[d] \in Fds
      BY <1>4, <1>6, <2>2, Zenon
    <3> QED
      BY <1>2, <1>3, <2>2, <3>1, <3>2
  <2> QED
    BY <2>1, <2>2
<1>11. \A d \in Channels : ~Registered(n, d) => q.index_[d] = kNew /\ q.addedToLoop_[d] = FALSE
  BY <1>2, <1>3, <1>4, <1>5 DEF TablesSound
<1>12. \A g \in Fds : q.channels_[g] # None =>
         Registered(n, q.channels_[g]) /\ q.fd[q.channels_[g]] = g
  <2> TAKE g \in Fds
  <2> HAVE q.channels_[g] # None
  <2>1. CASE g = f
    BY <1>2, <1>3, <1>5, <2>1
  <2>2. CASE g # f
    <3>1. q.channels_[g] = p.channels_[g]
      BY <1>2, <1>3, <2>2
    <3>2. Registered(o, p.channels_[g]) /\ p.fd[p.channels_[g]] = g /\ p.channels_[g] \in Channels
      BY <1>3, <3>1 DEF TablesSound
    <3> QED
      BY <1>2, <1>4, <1>5, <2>2, <3>1, <3>2
  <2> QED
    BY <2>1, <2>2
<1>13. \A g \in Fds : q.epoll[g] # None => q.channels_[g] # None
  <2>1. None # c
    BY PollerAssumption DEF Channels
  <2> QED
    BY <1>2, <1>3, <2>1 DEF TablesSound
<1>14. \A d \in Channels : n[d] \in {"closed", "down"} => q.events_[d] = {}
  BY <1>2, <1>3, <1>4, <1>5 DEF TablesSound
<1>15. q.failed = "none"
  BY <1>2, <1>3
<1>16. TablesSound(q, n, s)
  BY <1>2, <1>3, <1>7, <1>8, <1>9, <1>10, <1>11, <1>12, <1>13, <1>14, <1>15, Zenon DEF TablesSound
<1> QED
  BY <1>16 DEF q, n

\* From p to r, updateChannel() of c.
Updated(p, c, events, r) ==
  /\ r.fd[c] = p.fd[c] /\ r.events_[c] = events
  /\ p.index_[c] = kAdded /\ events = {} => r.index_[c] = kDeleted
  /\ events # {} => r.index_[c] = kAdded

\* What updateChannel() does to the index_ of the Channel and of the others.
LEMMA UpdateEffect ==
  ASSUME NEW p, NEW o, NEW s, TablesSound(p, o, s), NEW c \in Channels, Holder(o, c),
         NEW events \in SUBSET Events, NEW r, r = Update(p, c, events)
  PROVE  OthersKept(p, r, c) /\ Updated(p, c, events, r)
<1> DEFINE q == Update(p, c, events)
           out == p.index_[c] = kAdded /\ events = {}
<1>1. Consistent(p, c)
  BY HolderConsistent, Zenon
<1>2. /\ q \in Tables
      /\ q.fd = p.fd /\ q.failed = p.failed
      /\ q.events_ = [p.events_ EXCEPT ![c] = events]
      /\ q.index_ = [p.index_ EXCEPT ![c] = IF out THEN kDeleted ELSE kAdded]
      /\ q.addedToLoop_ = [p.addedToLoop_ EXCEPT ![c] = TRUE]
      /\ q.channels_ = [p.channels_ EXCEPT ![p.fd[c]] = c]
      /\ q.epoll = [p.epoll EXCEPT ![p.fd[c]] = IF out THEN None ELSE [ptr |-> c, mask |-> events]]
  BY <1>1, UpdateDoes
<1>3. r = q
  OBVIOUS
<1> HIDE DEF q
<1>4. /\ p.events_ \in [Channels -> SUBSET Events]
      /\ p.index_ \in [Channels -> {kNew, kAdded, kDeleted}]
  BY DEF TablesSound, Tables
<1>5. OthersKept(p, q, c) /\ q.fd[c] = p.fd[c] /\ q.events_[c] = events
  BY <1>2, <1>4 DEF OthersKept
<1>6. /\ p.index_[c] = kAdded /\ events = {} => q.index_[c] = kDeleted
      /\ events # {} => q.index_[c] = kAdded
  BY <1>2, <1>4, Zenon
<1> QED
  BY <1>3, <1>5, <1>6, Zenon DEF Updated

\* removeChannel() of a registered Channel that waits for no event.
LEMMA RemoveKeeps ==
  ASSUME NEW p, NEW o, NEW s, TablesSound(p, o, s), NEW c \in Channels, Registered(o, c),
         p.events_[c] = {}, NEW state \in Owners, NEW current \in BOOLEAN,
         c \in Connections => state = "removed", c \notin Connections => state = "down",
         phase = "dispatch" /\ ~current => \A i \in DOMAIN active : active[i].ptr # c
  PROVE  LET q == Remove(p, c, current)
         IN  /\ TablesSound(q, [o EXCEPT ![c] = state], s)
             /\ OthersKept(p, q, c) /\ q.fd[c] = p.fd[c]
<1> DEFINE q == Remove(p, c, current)
           f == p.fd[c]
           n == [o EXCEPT ![c] = state]
<1>0. Holder(o, c)
  BY DEF Holder, Registered
<1>1. Consistent(p, c) /\ p.index_[c] # kNew
  <2>1. Consistent(p, c)
    BY <1>0, HolderConsistent
  <2> QED
    BY <2>1, Zenon DEF TablesSound, kNew, kAdded, kDeleted
<1>2. /\ q \in Tables
      /\ q.fd = p.fd /\ q.failed = p.failed /\ q.events_ = p.events_
      /\ q.index_ = [p.index_ EXCEPT ![c] = kNew]
      /\ q.addedToLoop_ = [p.addedToLoop_ EXCEPT ![c] = FALSE]
      /\ q.channels_ = [p.channels_ EXCEPT ![f] = None]
      /\ q.epoll = [p.epoll EXCEPT ![f] = None]
  BY <1>1, RemoveDoes
<1> HIDE DEF q
<1>3. /\ p \in Tables /\ f \in Fds /\ f \in s /\ p.failed = "none" /\ s \in SUBSET Fds
      /\ o \in [Channels -> Owners] /\ n \in [Channels -> Owners]
      /\ p.events_ \in [Channels -> SUBSET Events]
      /\ p.index_ \in [Channels -> {kNew, kAdded, kDeleted}]
      /\ p.addedToLoop_ \in [Channels -> BOOLEAN]
      /\ p.channels_ \in [Fds -> Channels \cup {None}]
      /\ p.epoll \in [Fds -> Entries \cup {None}]
  BY <1>0 DEF TablesSound, Tables
<1>4. \A d \in Channels : d # c => n[d] = o[d] /\ (Holder(n, d) <=> Holder(o, d)) /\ (Registered(n, d) <=> Registered(o, d))
  BY <1>3 DEF Holder, Registered
<1>5. n[c] = state /\ ~Registered(n, c) /\ state # "free"
  BY <1>3 DEF Registered
<1> HIDE DEF n
<1>6. \A d \in Channels : d # c /\ Registered(o, d) => p.fd[d] # f /\ p.fd[d] \in Fds
  BY <1>0, <1>3 DEF TablesSound, Holder, Registered
<1>7. \A d \in Channels : n[d] # "free" => q.fd[d] \in Fds
  BY <1>2, <1>3, <1>4, Zenon DEF TablesSound
<1>8. \A d \in Channels : Holder(n, d) => q.fd[d] \in s
  BY <1>2, <1>3, <1>4 DEF TablesSound
<1>9. \A d, b \in Channels : Holder(n, d) /\ Holder(n, b) /\ q.fd[d] = q.fd[b] => d = b
  BY <1>0, <1>2, <1>4 DEF TablesSound
<1>10. \A d \in Channels : Registered(n, d) =>
         /\ q.channels_[q.fd[d]] = d
         /\ \/ q.index_[d] = kAdded /\ q.epoll[q.fd[d]] = [ptr |-> d, mask |-> q.events_[d]]
            \/ q.index_[d] = kDeleted /\ q.epoll[q.fd[d]] = None /\ q.events_[d] = {}
  <2> TAKE d \in Channels
  <2> HAVE Registered(n, d)
  <2>1. d # c /\ Registered(o, d)
    BY <1>4, <1>5
  <2>2. /\ p.channels_[p.fd[d]] = d
        /\ \/ p.index_[d] = kAdded /\ p.epoll[p.fd[d]] = [ptr |-> d, mask |-> p.events_[d]]
           \/ p.index_[d] = kDeleted /\ p.epoll[p.fd[d]] = None /\ p.events_[d] = {}
    BY <2>1, Zenon DEF TablesSound
  <2> QED
    BY <1>2, <1>3, <1>6, <2>1, <2>2
<1>11. \A d \in Channels : ~Registered(n, d) => q.index_[d] = kNew /\ q.addedToLoop_[d] = FALSE
  BY <1>2, <1>3, <1>4 DEF TablesSound
<1>12. \A g \in Fds : q.channels_[g] # None =>
         Registered(n, q.channels_[g]) /\ q.fd[q.channels_[g]] = g
  <2> TAKE g \in Fds
  <2> HAVE q.channels_[g] # None
  <2>1. g # f /\ q.channels_[g] = p.channels_[g]
    BY <1>2, <1>3
  <2>2. Registered(o, p.channels_[g]) /\ p.fd[p.channels_[g]] = g /\ p.channels_[g] \in Channels
    BY <1>3, <2>1 DEF TablesSound
  <2> QED
    BY <1>2, <1>4, <2>1, <2>2
<1>13. \A g \in Fds : q.epoll[g] # None => q.channels_[g] # None
  BY <1>2, <1>3, ZenonT(60) DEF TablesSound
<1>14. \A d \in Channels : n[d] \in {"closed", "down"} => q.events_[d] = {}
  BY <1>2, <1>3, <1>4, <1>5 DEF TablesSound
<1>15. q.failed = "none"
  BY <1>2, <1>3
<1>16. TablesSound(q, n, s)
  BY <1>2, <1>3, <1>7, <1>8, <1>9, <1>10, <1>11, <1>12, <1>13, <1>14, <1>15, Zenon DEF TablesSound
<1>17. OthersKept(p, q, c) /\ q.fd[c] = p.fd[c]
  BY <1>2, <1>3 DEF OthersKept
<1> QED
  BY <1>16, <1>17 DEF q, n

\* A new Channel in free memory for a descriptor that no other Channel holds.
LEMMA ConstructKeeps ==
  ASSUME NEW p, NEW o, NEW s, TablesSound(p, o, s), NEW c \in Channels, o[c] = "free",
         NEW f \in Fds, \A d \in Channels : Holder(o, d) => p.fd[d] # f
  PROVE  LET q == Construct(p, c, f)
         IN  /\ TablesSound(q, [o EXCEPT ![c] = "made"], s \cup {f})
             /\ OthersKept(p, q, c) /\ q.fd[c] = f
<1> DEFINE q == Construct(p, c, f)
           n == [o EXCEPT ![c] = "made"]
<1>1. /\ p \in Tables /\ p.failed = "none" /\ s \in SUBSET Fds
      /\ o \in [Channels -> Owners] /\ n \in [Channels -> Owners]
      /\ p.fd \in [Channels -> Fds \cup {None}]
      /\ p.events_ \in [Channels -> SUBSET Events]
      /\ p.index_ \in [Channels -> {kNew, kAdded, kDeleted}]
      /\ p.addedToLoop_ \in [Channels -> BOOLEAN]
      /\ p.channels_ \in [Fds -> Channels \cup {None}]
  BY DEF TablesSound, Tables, Owners
<1>2. /\ q.fd = [p.fd EXCEPT ![c] = f]
      /\ q.events_ = [p.events_ EXCEPT ![c] = {}]
      /\ q.index_ = [p.index_ EXCEPT ![c] = kNew]
      /\ q.addedToLoop_ = [p.addedToLoop_ EXCEPT ![c] = FALSE]
      /\ q.channels_ = p.channels_ /\ q.epoll = p.epoll /\ q.failed = p.failed
  BY <1>1 DEF Construct, Tables
<1>3. q \in Tables
  BY <1>1, Zenon DEF Construct, Tables
<1> HIDE DEF q
<1>4. \A d \in Channels : d # c => n[d] = o[d] /\ (Holder(n, d) <=> Holder(o, d)) /\ (Registered(n, d) <=> Registered(o, d))
  BY <1>1 DEF Holder, Registered
<1>5. n[c] = "made" /\ ~Registered(n, c) /\ ~Registered(o, c) /\ Holder(n, c) /\ ~Holder(o, c)
  BY <1>1 DEF Registered, Holder
<1> HIDE DEF n
<1>6. \A d \in Channels : d # c => q.fd[d] = p.fd[d] /\ q.events_[d] = p.events_[d] /\ q.index_[d] = p.index_[d]
                                  /\ q.addedToLoop_[d] = p.addedToLoop_[d]
  BY <1>1, <1>2
<1>7. q.fd[c] = f /\ q.index_[c] = kNew /\ q.addedToLoop_[c] = FALSE
  BY <1>1, <1>2
<1>8. \A d \in Channels : n[d] # "free" => q.fd[d] \in Fds
  BY <1>4, <1>6, <1>7 DEF TablesSound
<1>9. \A d \in Channels : Holder(n, d) => q.fd[d] \in s \cup {f}
  BY <1>4, <1>6, <1>7 DEF TablesSound
<1>10. \A d, b \in Channels : Holder(n, d) /\ Holder(n, b) /\ q.fd[d] = q.fd[b] => d = b
  BY <1>4, <1>6, <1>7 DEF TablesSound
<1>11. \A d \in Channels : Registered(n, d) =>
         /\ q.channels_[q.fd[d]] = d
         /\ \/ q.index_[d] = kAdded /\ q.epoll[q.fd[d]] = [ptr |-> d, mask |-> q.events_[d]]
            \/ q.index_[d] = kDeleted /\ q.epoll[q.fd[d]] = None /\ q.events_[d] = {}
  BY <1>2, <1>4, <1>5, <1>6 DEF TablesSound
<1>12. \A d \in Channels : ~Registered(n, d) => q.index_[d] = kNew /\ q.addedToLoop_[d] = FALSE
  BY <1>4, <1>6, <1>7, Zenon DEF TablesSound
<1>13. \A g \in Fds : q.channels_[g] # None =>
         Registered(n, q.channels_[g]) /\ q.fd[q.channels_[g]] = g
  <2> TAKE g \in Fds
  <2> HAVE q.channels_[g] # None
  <2>1. Registered(o, p.channels_[g]) /\ p.fd[p.channels_[g]] = g /\ p.channels_[g] \in Channels
    BY <1>1, <1>2 DEF TablesSound
  <2> QED
    BY <1>2, <1>4, <1>5, <1>6, <2>1
<1>14. \A g \in Fds : q.epoll[g] # None => q.channels_[g] # None
  BY <1>2, Zenon DEF TablesSound
<1>15. \A d \in Channels : n[d] \in {"closed", "down"} => q.events_[d] = {}
  BY <1>4, <1>5, <1>6 DEF TablesSound
<1>16. TablesSound(q, n, s \cup {f})
  BY <1>1, <1>2, <1>3, <1>8, <1>9, <1>10, <1>11, <1>12, <1>13, <1>14, <1>15, Zenon DEF TablesSound
<1>17. OthersKept(p, q, c)
  BY <1>6 DEF OthersKept
<1> QED
  BY <1>7, <1>16, <1>17 DEF q, n

\* ~Channel of a Channel that is not registered any more.
LEMMA DestructKeeps ==
  ASSUME NEW p, NEW o, NEW s, TablesSound(p, o, s), NEW c \in Channels,
         o[c] # "free", ~Registered(o, c)
  PROVE  LET q == Destruct(p, c)
         IN  TablesSound(q, [o EXCEPT ![c] = "free"], s) /\ OthersKept(p, q, c)
<1> DEFINE q == Destruct(p, c)
           m == [p EXCEPT !.fd[c] = None]
           n == [o EXCEPT ![c] = "free"]
<1>1. /\ p \in Tables /\ p.failed = "none" /\ s \in SUBSET Fds
      /\ o \in [Channels -> Owners] /\ n \in [Channels -> Owners]
      /\ p.fd \in [Channels -> Fds \cup {None}]
      /\ p.channels_ \in [Fds -> Channels \cup {None}]
  BY Zenon DEF TablesSound, Tables, Owners
<1>2. ~p.addedToLoop_[c] /\ p.channels_[p.fd[c]] # c
  <2>1. p.addedToLoop_[c] = FALSE /\ p.fd[c] \in Fds
    BY DEF TablesSound
  <2>2. c # None
    BY PollerAssumption DEF Channels
  <2> QED
    BY <1>1, <2>1, <2>2 DEF TablesSound
<1>3. m \in Tables
  BY <1>1 DEF Tables
<1>4. q = m
  <2> HIDE DEF m
  <2> DEFINE holds == ~p.addedToLoop_[c] /\ p.channels_[p.fd[c]] # c
  <2>1. holds
    BY <1>2
  <2>2. q = Expect(m, holds, "dtor")
    BY DEF Destruct, m
  <2> HIDE DEF holds, q
  <2> QED
    BY <1>3, <2>1, <2>2, Expected, Zenon DEF Assertions
<1>5. /\ q.fd = [p.fd EXCEPT ![c] = None] /\ q.events_ = p.events_ /\ q.index_ = p.index_
      /\ q.addedToLoop_ = p.addedToLoop_ /\ q.channels_ = p.channels_ /\ q.epoll = p.epoll
      /\ q.failed = p.failed
  BY <1>1, <1>4 DEF Tables
<1>6. q \in Tables
  BY <1>3, <1>4
<1> HIDE DEF q, m
<1>7. \A d \in Channels : d # c => n[d] = o[d] /\ (Holder(n, d) <=> Holder(o, d)) /\ (Registered(n, d) <=> Registered(o, d))
  BY <1>1 DEF Holder, Registered
<1>8. n[c] = "free" /\ ~Registered(n, c) /\ ~Holder(n, c)
  BY <1>1 DEF Registered, Holder
<1> HIDE DEF n
<1>9. \A d \in Channels : d # c => q.fd[d] = p.fd[d]
  BY <1>1, <1>5, Zenon
<1>10. \A d \in Channels : Registered(n, d) =>
         /\ q.channels_[q.fd[d]] = d
         /\ \/ q.index_[d] = kAdded /\ q.epoll[q.fd[d]] = [ptr |-> d, mask |-> q.events_[d]]
            \/ q.index_[d] = kDeleted /\ q.epoll[q.fd[d]] = None /\ q.events_[d] = {}
  BY <1>5, <1>7, <1>8, <1>9 DEF TablesSound
<1>11. \A d \in Channels : ~Registered(n, d) => q.index_[d] = kNew /\ q.addedToLoop_[d] = FALSE
  BY <1>5, <1>7 DEF TablesSound
<1>12. \A g \in Fds : q.channels_[g] # None =>
         Registered(n, q.channels_[g]) /\ q.fd[q.channels_[g]] = g
  <2> TAKE g \in Fds
  <2> HAVE q.channels_[g] # None
  <2>1. Registered(o, p.channels_[g]) /\ p.fd[p.channels_[g]] = g /\ p.channels_[g] \in Channels
    BY <1>1, <1>5 DEF TablesSound
  <2> QED
    BY <1>5, <1>7, <1>9, <2>1
<1>13. \A d \in Channels : n[d] # "free" => q.fd[d] \in Fds
  BY <1>7, <1>8, <1>9, Zenon DEF TablesSound
<1>14. \A d \in Channels : Holder(n, d) => q.fd[d] \in s
  BY <1>7, <1>8, <1>9, Zenon DEF TablesSound
<1>15. \A d, b \in Channels : Holder(n, d) /\ Holder(n, b) /\ q.fd[d] = q.fd[b] => d = b
  BY <1>7, <1>8, <1>9, Zenon DEF TablesSound
<1>16. \A d \in Channels : n[d] \in {"closed", "down"} => q.events_[d] = {}
  BY <1>5, <1>7, <1>8, Zenon DEF TablesSound
<1>17. \A g \in Fds : q.epoll[g] # None => q.channels_[g] # None
  BY <1>5 DEF TablesSound
<1>18. TablesSound(q, n, s)
  BY <1>1, <1>5, <1>6, <1>10, <1>11, <1>12, <1>13, <1>14, <1>15, <1>16, <1>17, Zenon DEF TablesSound
<1>19. OthersKept(p, q, c)
  BY <1>5, <1>9 DEF OthersKept
<1> QED
  BY <1>18, <1>19 DEF q, n

\* close() of a descriptor that no Channel holds any more.
LEMMA CloseKeeps ==
  ASSUME NEW p, NEW o, NEW s, TablesSound(p, o, s), NEW f \in Fds,
         \A d \in Channels : Holder(o, d) => p.fd[d] # f
  PROVE  LET q == Close(p, f)
         IN  TablesSound(q, o, s \ {f}) /\ q.index_ = p.index_ /\ q.fd = p.fd
<1> DEFINE q == Close(p, f)
<1>1. p \in Tables /\ p.epoll \in [Fds -> Entries \cup {None}]
  BY DEF TablesSound, Tables
<1>2. /\ q \in Tables
      /\ q.fd = p.fd /\ q.events_ = p.events_ /\ q.index_ = p.index_
      /\ q.addedToLoop_ = p.addedToLoop_ /\ q.channels_ = p.channels_ /\ q.failed = p.failed
      /\ q.epoll = [p.epoll EXCEPT ![f] = None]
  BY <1>1 DEF Close, Tables
<1> HIDE DEF q
<1>3. \A d \in Channels : Registered(o, d) => p.fd[d] # f /\ p.fd[d] \in Fds
  BY DEF TablesSound, Holder, Registered
<1>4. \A d \in Channels : Registered(o, d) => q.epoll[q.fd[d]] = p.epoll[p.fd[d]]
  BY <1>1, <1>2, <1>3, Zenon
<1>5. \A d \in Channels : Registered(o, d) =>
         /\ q.channels_[q.fd[d]] = d
         /\ \/ q.index_[d] = kAdded /\ q.epoll[q.fd[d]] = [ptr |-> d, mask |-> q.events_[d]]
            \/ q.index_[d] = kDeleted /\ q.epoll[q.fd[d]] = None /\ q.events_[d] = {}
  BY <1>2, <1>4 DEF TablesSound
<1>6. \A g \in Fds : q.epoll[g] # None => q.channels_[g] # None
  BY <1>1, <1>2, Zenon DEF TablesSound
<1>7. \A d \in Channels : Holder(o, d) => q.fd[d] \in s \ {f}
  BY <1>2 DEF TablesSound
<1>8. TablesSound(q, o, s \ {f})
  <2>1. /\ o \in [Channels -> Owners] /\ s \ {f} \in SUBSET Fds /\ q.failed = "none"
        /\ \A c \in Channels : o[c] # "free" => q.fd[c] \in Fds
        /\ \A c, d \in Channels : Holder(o, c) /\ Holder(o, d) /\ q.fd[c] = q.fd[d] => c = d
    BY <1>2 DEF TablesSound
  <2>2. \A c \in Channels : ~Registered(o, c) => q.index_[c] = kNew /\ q.addedToLoop_[c] = FALSE
    <3>1. \A c \in Channels : ~Registered(o, c) => p.index_[c] = kNew /\ p.addedToLoop_[c] = FALSE
      BY Zenon DEF TablesSound
    <3> QED
      BY <1>2, <3>1, Zenon
  <2>3. \A g \in Fds : q.channels_[g] # None =>
          Registered(o, q.channels_[g]) /\ q.fd[q.channels_[g]] = g
    BY <1>2 DEF TablesSound
  <2>4. \A c \in Channels : o[c] \in {"closed", "down"} => q.events_[c] = {}
    BY <1>2, Zenon DEF TablesSound
  <2> QED
    BY <1>2, <1>5, <1>6, <1>7, <2>1, <2>2, <2>3, <2>4, Zenon DEF TablesSound
<1> QED
  BY <1>2, <1>8 DEF q

(***************************************************************************)
(* The inductive invariant: the tables are sound, every queued functor     *)
(* fits its Channel, and the rest of activeChannels_ is registered and in  *)
(* the kernel's table, so that handleClose() takes a Channel out of it: a  *)
(* connection that is closed or down is not in the kernel's table.         *)
(***************************************************************************)

Kinds ==
  /\ \A c \in Connections : owner[c] \in {"free", "made", "up", "closing", "closed", "down", "removed"}
  /\ \A k \in Connectors : owner[k] \in {"free", "connecting", "down"}

\* What a queued functor e finds when it runs.
Fits(o, e) ==
  \/ e[1] = "connectEstablished" /\ e[2] \in Connections /\ o[e[2]] = "made"
  \/ e[1] = "connectDestroyed" /\ e[2] \in Connections /\ o[e[2]] = "down"
  \/ e[1] = "resetChannel" /\ e[2] \in Connectors /\ o[e[2]] = "down"

IsQueued(c, q) == \E i \in 1..Len(q) : q[i][2] = c

\* The functors of the queue q fit their Channels, and no Channel has two.
FunctorsFit(o, q) ==
  /\ \A i \in 1..Len(q) : Fits(o, q[i])
  /\ \A i, j \in 1..Len(q) : q[i][2] = q[j][2] => i = j

\* No Channel has a functor in both queues.
Apart(q, r) == \A i \in 1..Len(q), j \in 1..Len(r) : q[i][2] # r[j][2]

\* Every connection that is down will be destroyed, and no connection whose
\* handleClose() has run is in the kernel's table.
DownIsQueued(p, o, q, r) ==
  \A c \in Connections :
    /\ o[c] = "down" => IsQueued(c, q) \/ IsQueued(c, r)
    /\ o[c] \in {"closed", "down"} => p.index_[c] # kAdded

QueuesFit ==
  /\ FunctorsFit(owner, pending) /\ FunctorsFit(owner, functors)
  /\ Apart(pending, functors)
  /\ DownIsQueued(poller, owner, pending, functors)
  /\ phase # "functors" => functors = <<>>

\* The Channels of the list a are all different, and from place n on they are
\* registered and in the kernel's table.
ActiveSound(p, o, a, n) ==
  /\ \A i \in 1..Len(a) : i >= n =>
       o[a[i].ptr] \in {"up", "closing", "connecting"} /\ p.index_[a[i].ptr] = kAdded
  /\ \A i, j \in 1..Len(a) : a[i].ptr = a[j].ptr => i = j

ActiveFits ==
  /\ phase # "dispatch" => active = <<>>
  /\ ActiveSound(poller, owner, active, next)

PollerSound == TypeOK /\ TablesSound(poller, owner, open) /\ Kinds /\ QueuesFit /\ ActiveFits

\* An owner whose Channel no functor is queued for.
Unqueued == {"free", "up", "closing", "closed", "connecting", "removed"}

\* Owners that a step changes have no functor queued and are not closed after it.
OwnersMove(except) ==
  \A d \in Channels \ except :
    \/ owner'[d] = owner[d]
    \/ owner[d] \in Unqueued /\ owner'[d] \notin {"closed", "down"}

\* The connections that are closed keep their index_.
DownKept(except) ==
  \A d \in Connections \ except : owner[d] \in {"closed", "down"} => poller'.index_[d] = poller.index_[d]

\* A Channel that has a functor is not in one of the states without.
LEMMA QueuedState ==
  ASSUME NEW o, NEW q, FunctorsFit(o, q), NEW i \in 1..Len(q)
  PROVE  o[q[i][2]] \notin Unqueued
BY Zenon DEF FunctorsFit, Fits, Unqueued

\* The Channels of a queue.
LEMMA QueueChannels ==
  ASSUME NEW q \in Seq(Functors), NEW i \in 1..Len(q)
  PROVE  q[i][2] \in Channels
<1>1. q[i] \in Functors
  OBVIOUS
<1> QED
  BY <1>1 DEF Functors

\* A queue fits as long as the owners of its Channels stay.
LEMMA QueueFits ==
  ASSUME NEW o, NEW n, NEW q \in Seq(Functors), FunctorsFit(o, q),
         \A i \in 1..Len(q) : n[q[i][2]] = o[q[i][2]]
  PROVE  FunctorsFit(n, q)
BY Zenon DEF FunctorsFit, Fits

\* The owners of the Channels in a queue do not move, but for c which is in none.
LEMMA QueuedStay ==
  ASSUME NEW except, OwnersMove(except), NEW q \in Seq(Functors), FunctorsFit(owner, q),
         \A c \in except : owner[c] \in Unqueued
  PROVE  FunctorsFit(owner', q) /\ \A i \in 1..Len(q) : q[i][2] \notin except
<1>1. \A i \in 1..Len(q) : q[i][2] \in Channels /\ owner[q[i][2]] \notin Unqueued
  BY QueueChannels, QueuedState
<1>2. \A i \in 1..Len(q) : q[i][2] \notin except
  BY <1>1, Zenon
<1>3. \A i \in 1..Len(q) : owner'[q[i][2]] = owner[q[i][2]]
  BY <1>1, <1>2, Zenon DEF OwnersMove
<1> QED
  BY <1>2, <1>3, QueueFits, Zenon

\* A step that leaves the queues alone, and may close connections of the set closing.
LEMMA QueuesKept ==
  ASSUME TypeOK, QueuesFit, owner' \in [Channels -> Owners],
         NEW closing, OwnersMove(closing), DownKept(closing),
         \A c \in closing : owner[c] \in Unqueued /\ owner'[c] # "down" /\ poller'.index_[c] # kAdded,
         pending' = pending, functors' = functors, phase' = phase
  PROVE  QueuesFit'
<1>1. pending \in Seq(Functors) /\ functors \in Seq(Functors)
  BY DEF TypeOK
<1>2. FunctorsFit(owner', pending) /\ FunctorsFit(owner', functors)
  <2>1. FunctorsFit(owner, pending) /\ FunctorsFit(owner, functors)
    BY Zenon DEF QueuesFit
  <2>2. FunctorsFit(owner', pending)
    BY <1>1, <2>1, QueuedStay, Zenon
  <2>3. FunctorsFit(owner', functors)
    BY <1>1, <2>1, QueuedStay, Zenon
  <2> QED
    BY <2>2, <2>3
<1>3. \A c \in Connections \ closing :
        /\ owner'[c] = "down" => owner[c] = "down"
        /\ owner'[c] \in {"closed", "down"} =>
             owner[c] \in {"closed", "down"} /\ poller'.index_[c] = poller.index_[c]
  BY DEF OwnersMove, DownKept, Channels
<1>4. DownIsQueued(poller', owner', pending, functors)
  BY <1>3, Zenon DEF QueuesFit, DownIsQueued
<1> QED
  BY <1>2, <1>4, Zenon DEF QueuesFit

\* A step that leaves the queues alone and closes no connection.
LEMMA QueuesStay ==
  ASSUME TypeOK, QueuesFit, owner' \in [Channels -> Owners], OwnersMove({}), DownKept({}),
         pending' = pending, functors' = functors, phase' = phase
  PROVE  QueuesFit'
<1> DEFINE nobody == {}
<1>1. /\ OwnersMove(nobody) /\ DownKept(nobody)
      /\ \A c \in nobody : owner[c] \in Unqueued /\ owner'[c] # "down" /\ poller'.index_[c] # kAdded
  OBVIOUS
<1> HIDE DEF nobody
<1> QED
  BY <1>1, QueuesKept, Zenon

\* A functor appended to a queue that has none for its Channel.
LEMMA AppendFits ==
  ASSUME NEW o, NEW q \in Seq(Functors), NEW r, NEW e \in Functors,
         FunctorsFit(o, q), Fits(o, e), Apart(q, r),
         \A i \in 1..Len(q) : q[i][2] # e[2], \A i \in 1..Len(r) : r[i][2] # e[2]
  PROVE  /\ Append(q, e) \in Seq(Functors)
         /\ FunctorsFit(o, Append(q, e))
         /\ Apart(Append(q, e), r)
         /\ IsQueued(e[2], Append(q, e))
         /\ \A d : IsQueued(d, q) => IsQueued(d, Append(q, e))
<1> DEFINE s == Append(q, e)
           l == Len(q)
<1>1. s \in Seq(Functors) /\ Len(s) = l + 1 /\ l \in Nat /\ s[l + 1] = e /\ \A i \in 1..l : s[i] = q[i]
  OBVIOUS
<1>2. /\ \A i \in 1..l : Fits(o, q[i])
      /\ \A i, j \in 1..l : q[i][2] = q[j][2] => i = j
      /\ \A i \in 1..l, j \in 1..Len(r) : q[i][2] # r[j][2]
  BY Zenon DEF FunctorsFit, Apart
<1>3. \A i \in 1..l : q[i][2] # e[2]
  OBVIOUS
<1> HIDE DEF s, l
<1>4. \A i \in 1..Len(s) : (i \in 1..l /\ s[i] = q[i]) \/ (i = l + 1 /\ s[i] = e)
  <2>1. Len(s) = l + 1 /\ l \in Nat
    BY <1>1
  <2> TAKE i \in 1..Len(s)
  <2>2. i \in 1..l \/ i = l + 1
    BY <2>1
  <2>3. CASE i \in 1..l
    BY <1>1, <2>3, Zenon
  <2>4. CASE i = l + 1
    BY <1>1, <2>4
  <2> QED
    BY <2>2, <2>3, <2>4, Zenon
<1>5. l + 1 \in 1..Len(s) /\ \A i \in 1..l : i \in 1..Len(s)
  BY <1>1
<1>6. \A i \in 1..Len(s) : Fits(o, s[i])
  BY <1>2, <1>4, Zenon
<1>7. \A i, j \in 1..Len(s) : s[i][2] = s[j][2] => i = j
  <2> TAKE i, j \in 1..Len(s)
  <2>1. CASE i \in 1..l /\ s[i] = q[i] /\ j \in 1..l /\ s[j] = q[j]
    BY <2>1, <1>2
  <2>2. CASE i \in 1..l /\ s[i] = q[i] /\ s[j] = e
    BY <2>2, <1>3
  <2>3. CASE s[i] = e /\ j \in 1..l /\ s[j] = q[j]
    BY <2>3, <1>3
  <2>4. CASE i = l + 1 /\ j = l + 1
    BY <2>4
  <2> QED
    BY <2>1, <2>2, <2>3, <2>4, <1>4, Zenon
<1>8. \A i \in 1..Len(s), j \in 1..Len(r) : s[i][2] # r[j][2]
  <2> TAKE i \in 1..Len(s), j \in 1..Len(r)
  <2>1. CASE i \in 1..l /\ s[i] = q[i]
    BY <2>1, <1>2
  <2>2. CASE s[i] = e
    BY <2>2
  <2> QED
    BY <2>1, <2>2, <1>4, Zenon
<1>9. IsQueued(e[2], s)
  BY <1>1, <1>5, Zenon DEF IsQueued
<1>10. \A d : IsQueued(d, q) => IsQueued(d, s)
  BY <1>1, <1>5, Zenon DEF IsQueued, l
<1>11. FunctorsFit(o, s) /\ Apart(s, r)
  BY <1>6, <1>7, <1>8, Zenon DEF FunctorsFit, Apart
<1> QED
  BY <1>1, <1>9, <1>10, <1>11, Zenon DEF s

\* A step that queues a functor for a Channel that has none.
LEMMA QueueGrows ==
  ASSUME TypeOK, QueuesFit, NEW c \in Channels, NEW op \in {"connectEstablished", "connectDestroyed", "resetChannel"},
         owner[c] \in Unqueued, owner' \in [Channels -> Owners], OwnersMove({c}), DownKept({c}),
         Fits(owner', <<op, c>>), pending' = Append(pending, <<op, c>>), functors' = functors, phase' = phase,
         c \in Connections /\ owner'[c] = "down" => poller'.index_[c] # kAdded
  PROVE  QueuesFit' /\ pending' \in Seq(Functors)
<1>1. /\ pending \in Seq(Functors) /\ functors \in Seq(Functors)
      /\ FunctorsFit(owner, pending) /\ FunctorsFit(owner, functors) /\ Apart(pending, functors)
      /\ DownIsQueued(poller, owner, pending, functors)
      /\ phase # "functors" => functors = <<>>
  BY Zenon DEF TypeOK, QueuesFit
<1> DEFINE e == <<op, c>>
<1>2. e \in Functors /\ e[2] = c /\ Fits(owner', e) /\ pending' = Append(pending, e)
  BY DEF Functors
<1> HIDE DEF e
<1>3. /\ FunctorsFit(owner', pending) /\ \A i \in 1..Len(pending) : pending[i][2] # e[2]
      /\ FunctorsFit(owner', functors) /\ \A i \in 1..Len(functors) : functors[i][2] # e[2]
  <2>1. \A d \in {c} : owner[d] \in Unqueued
    OBVIOUS
  <2>2. FunctorsFit(owner', pending) /\ \A i \in 1..Len(pending) : pending[i][2] \notin {c}
    BY <1>1, <2>1, QueuedStay, Zenon
  <2>3. FunctorsFit(owner', functors) /\ \A i \in 1..Len(functors) : functors[i][2] \notin {c}
    BY <1>1, <2>1, QueuedStay, Zenon
  <2> QED
    BY <1>2, <2>2, <2>3, Zenon
<1>4. /\ pending' \in Seq(Functors) /\ FunctorsFit(owner', pending') /\ Apart(pending', functors)
      /\ IsQueued(c, pending')
      /\ \A d : IsQueued(d, pending) => IsQueued(d, pending')
  BY <1>1, <1>2, <1>3, AppendFits, Zenon
<1>5. \A d \in Connections : d # c =>
        /\ owner'[d] = "down" => owner[d] = "down"
        /\ owner'[d] \in {"closed", "down"} =>
             owner[d] \in {"closed", "down"} /\ poller'.index_[d] = poller.index_[d]
  <2>1. \A d \in Connections : d # c => d \in Channels \ {c} /\ d \in Connections \ {c}
    BY DEF Channels
  <2> QED
    BY <2>1 DEF OwnersMove, DownKept
<1>6. DownIsQueued(poller', owner', pending', functors)
  <2>1. c \in Connections /\ owner'[c] \in {"closed", "down"} => owner'[c] = "down"
    BY Zenon DEF Fits
  <2> QED
    BY <1>1, <1>4, <1>5, <2>1, Zenon DEF DownIsQueued
<1>7. QueuesFit'
  BY <1>1, <1>3, <1>4, <1>6, Zenon DEF QueuesFit
<1> QED
  BY <1>4, <1>7

\* activeChannels_ holds Channels.
LEMMA ActivePtr ==
  ASSUME TypeOK
  PROVE  \A i \in 1..Len(active) : active[i].ptr \in Channels
<1>1. \A i \in 1..Len(active) : active[i] \in Active
  BY DEF TypeOK
<1>2. \A a \in Active : a.ptr \in Channels
  BY DEF Active
<1> QED
  BY <1>1, <1>2, Zenon

\* A handler of the Channel c of activeChannels_.
LEMMA ActiveAdvances ==
  ASSUME TypeOK, ActiveFits, NEW c \in Channels, Dispatched(c),
         \A d \in Channels \ {c} : owner[d] \in {"up", "closing", "connecting"} =>
           owner'[d] = owner[d] /\ poller'.index_[d] = poller.index_[d]
  PROVE  /\ ActiveFits' /\ next' \in Nat \ {0}
         /\ owner[c] \in {"up", "closing", "connecting"} /\ poller.index_[c] = kAdded
<1>1. active \in Seq(Active) /\ next \in Nat \ {0} /\ Len(active) \in Nat
  BY DEF TypeOK
<1>2. next \in 1..Len(active) /\ active[next].ptr = c
  BY <1>1 DEF Dispatched
<1>3. \A i \in 1..Len(active) : active[i].ptr \in Channels
  BY ActivePtr
<1>4. \A i \in 1..Len(active) : i >= next + 1 => i # next /\ i >= next
  BY <1>1
<1>5. \A i \in 1..Len(active) : i >= next + 1 => active[i].ptr # c
  BY <1>2, <1>4, Zenon DEF ActiveFits, ActiveSound
<1>6. \A i \in 1..Len(active) : i >= next + 1 =>
        owner'[active[i].ptr] \in {"up", "closing", "connecting"} /\ poller'.index_[active[i].ptr] = kAdded
  <2> TAKE i \in 1..Len(active)
  <2> HAVE i >= next + 1
  <2>1. active[i].ptr \in Channels \ {c}
    BY <1>3, <1>5, Zenon
  <2>2. owner[active[i].ptr] \in {"up", "closing", "connecting"} /\ poller.index_[active[i].ptr] = kAdded
    BY <1>4, Zenon DEF ActiveFits, ActiveSound
  <2> QED
    BY <2>1, <2>2, Zenon
<1>7. active' = active /\ phase' = phase /\ phase = "dispatch" /\ next' = next + 1
  BY DEF Dispatched
<1>8. ActiveSound(poller', owner', active, next + 1)
  BY <1>6, Zenon DEF ActiveFits, ActiveSound
<1>9. ActiveFits'
  BY <1>7, <1>8, Zenon DEF ActiveFits
<1>10. owner[c] \in {"up", "closing", "connecting"} /\ poller.index_[c] = kAdded
  <2>1. next >= next
    BY <1>1
  <2> QED
    BY <1>2, <2>1, Zenon DEF ActiveFits, ActiveSound
<1>11. next' \in Nat \ {0}
  BY <1>1, <1>7
<1> QED
  BY <1>9, <1>10, <1>11, Zenon

\* Any other step of a callback, a functor or another thread.
LEMMA ActiveStays ==
  ASSUME TypeOK, ActiveFits, UNCHANGED loopVars,
         phase = "dispatch" =>
           \A d \in Channels : owner[d] \in {"up", "closing", "connecting"} /\ Waiting(d) =>
             /\ owner'[d] \in {"up", "closing", "connecting"}
             /\ poller.index_[d] = kAdded => poller'.index_[d] = kAdded
  PROVE  ActiveFits'
<1>1. active' = active /\ phase' = phase /\ next' = next
  BY DEF loopVars
<1>2. \A i \in 1..Len(active) : active[i].ptr \in Channels
  BY ActivePtr
<1>3. ActiveSound(poller', owner', active, next)
  <2>1. CASE phase = "dispatch"
    <3>1. active \in Seq(Active) /\ next \in Nat \ {0} /\ Len(active) \in Nat
      BY DEF TypeOK
    <3>2. \A i \in 1..Len(active) : i >= next => i \in next..Len(active)
      BY <3>1
    <3>3. \A i \in 1..Len(active) : i >= next => Waiting(active[i].ptr)
      BY <3>2, Zenon DEF Waiting
    <3> QED
      BY <1>2, <2>1, <3>3, Zenon DEF ActiveFits, ActiveSound
  <2>2. CASE phase # "dispatch"
    <3>1. 1..Len(active) = {}
      BY <2>2 DEF ActiveFits
    <3> QED
      BY <3>1, Zenon DEF ActiveSound
  <2> QED
    BY <2>1, <2>2
<1> QED
  BY <1>1, <1>3, Zenon DEF ActiveFits

(***************************************************************************)
(* The actions, for the usages that the assertions allow.                  *)
(***************************************************************************)

\* What the theorems assume of the program.
Usage == Misuses = {}

\* The parts of the invariant that a step of an owner has to show.
LEMMA StepKeeps ==
  ASSUME PollerSound, TablesSound(poller', owner', open'), Kinds', QueuesFit', ActiveFits',
         condition' \in [Fds -> Conditions], UNCHANGED <<size, phase, active>>,
         next' \in Nat \ {0}, pending' \in Seq(Functors), functors' \in Seq(Functors)
  PROVE  PollerSound'
<1>1. poller' \in Tables /\ owner' \in [Channels -> Owners] /\ open' \subseteq Fds
  BY DEF TablesSound
<1>2. TypeOK'
  BY <1>1, Zenon DEF PollerSound, TypeOK
<1> QED
  BY <1>2, Zenon DEF PollerSound

\* A descriptor that is not open is nobody's.
LEMMA ClosedIsNobodys ==
  ASSUME NEW p, NEW o, NEW s, TablesSound(p, o, s), NEW f \in Fds, f \notin s
  PROVE  \A d \in Channels : Holder(o, d) => p.fd[d] # f
BY DEF TablesSound

\* Changing one owner twice, and not at all.
LEMMA OwnerTwice ==
  ASSUME NEW o \in [Channels -> Owners], NEW c \in Channels, NEW a \in Owners, NEW b \in Owners
  PROVE  /\ [[o EXCEPT ![c] = a] EXCEPT ![c] = b] = [o EXCEPT ![c] = b]
         /\ o[c] = a => [o EXCEPT ![c] = a] = o
BY Zenon

\* The parts of the invariant that a step leaves alone.
LEMMA PartsStay ==
  /\ Kinds /\ owner' = owner => Kinds'
  /\ QueuesFit /\ UNCHANGED <<poller, owner, pending, functors, phase>> => QueuesFit'
  /\ ActiveFits /\ UNCHANGED <<poller, owner, phase, active, next>> => ActiveFits'
<1>1. Kinds /\ owner' = owner => Kinds'
  BY Zenon DEF Kinds
<1>2. QueuesFit /\ UNCHANGED <<poller, owner, pending, functors, phase>> => QueuesFit'
  BY Zenon DEF QueuesFit
<1>3. ActiveFits /\ UNCHANGED <<poller, owner, phase, active, next>> => ActiveFits'
  BY Zenon DEF ActiveFits
<1> QED
  BY <1>1, <1>2, <1>3

\* Queues and lists that are empty.
LEMMA EmptyFits ==
  ASSUME NEW p, NEW o, NEW q, NEW r, NEW n
  PROVE  /\ r = <<>> => FunctorsFit(o, r) /\ Apart(q, r) /\ Apart(r, q) /\ ActiveSound(p, o, r, n)
         /\ r = <<>> => \A c : ~IsQueued(c, r)
<1>1. r = <<>> => 1..Len(r) = {}
  OBVIOUS
<1>2. r = <<>> => FunctorsFit(o, r)
  BY <1>1, Zenon DEF FunctorsFit
<1>3. r = <<>> => Apart(q, r) /\ Apart(r, q)
  BY <1>1, Zenon DEF Apart
<1>4. r = <<>> => ActiveSound(p, o, r, n)
  BY <1>1, Zenon DEF ActiveSound
<1>5. r = <<>> => \A c : ~IsQueued(c, r)
  BY <1>1, Zenon DEF IsQueued
<1> QED
  BY <1>2, <1>3, <1>4, <1>5

\* What the invariant says, part by part.
LEMMA Parts ==
  ASSUME PollerSound
  PROVE  /\ TypeOK /\ TablesSound(poller, owner, open) /\ Kinds /\ QueuesFit /\ ActiveFits
         /\ owner \in [Channels -> Owners] /\ open \in SUBSET Fds
         /\ condition \in [Fds -> Conditions] /\ next \in Nat \ {0}
         /\ pending \in Seq(Functors) /\ functors \in Seq(Functors)
BY DEF PollerSound, TypeOK

\* The kernel.
LEMMA ChangeKeeps ==
  ASSUME PollerSound, NEW f \in Fds, Change(f)
  PROVE  PollerSound'
<1>1. condition' \in [Fds -> Conditions]
  BY DEF PollerSound, TypeOK, Change
<1>2. /\ poller' = poller /\ owner' = owner /\ open' = open /\ UNCHANGED loopVars
      /\ pending' = pending /\ functors' = functors
  BY DEF Change
<1>3. TypeOK /\ TablesSound(poller, owner, open) /\ Kinds /\ QueuesFit /\ ActiveFits
  BY DEF PollerSound
<1>4. Kinds' /\ QueuesFit' /\ ActiveFits'
  BY <1>2, <1>3, PartsStay, Zenon DEF loopVars
<1> QED
  BY <1>1, <1>2, <1>3, <1>4 DEF StepKeeps, PollerSound, TypeOK, loopVars

\* A new Channel and its first update(): Accept in the dispatch and Connect.
LEMMA NewChannelSound ==
  ASSUME PollerSound, NEW c \in Channels, NEW f \in Fds, owner[c] = "free", f \notin open,
         NEW state \in {"up", "connecting"}, NEW events \in SUBSET Events
  PROVE  LET q == Update(Construct(poller, c, f), c, events)
         IN  /\ TablesSound(q, [owner EXCEPT ![c] = state], open \cup {f})
             /\ OthersKept(poller, q, c)
<1> DEFINE p == Construct(poller, c, f)
           o == [owner EXCEPT ![c] = "made"]
           q == Update(p, c, events)
<1>1. TablesSound(poller, owner, open) /\ owner \in [Channels -> Owners]
  BY DEF PollerSound, TypeOK
<1>2. TablesSound(p, o, open \cup {f}) /\ OthersKept(poller, p, c)
  <2>1. \A d \in Channels : Holder(owner, d) => poller.fd[d] # f
    BY <1>1, ClosedIsNobodys
  <2> QED
    BY <1>1, <2>1, ConstructKeeps, Zenon
<1>3. o[c] = "made" /\ state \in Owners /\ "made" \in Owners /\ o \in [Channels -> Owners]
  BY <1>1 DEF Owners
<1>4. Holder(o, c) /\ Registered([o EXCEPT ![c] = state], c)
  BY <1>3 DEF Holder, Registered
<1>5. [o EXCEPT ![c] = state] = [owner EXCEPT ![c] = state]
  BY <1>1, <1>3, OwnerTwice
<1> HIDE DEF p, o
<1>6. TablesSound(q, [o EXCEPT ![c] = state], open \cup {f}) /\ OthersKept(p, q, c)
  BY <1>2, <1>3, <1>4, UpdateKeeps, UpdateEffect, Zenon
<1> HIDE DEF q
<1>7. OthersKept(poller, q, c)
  BY <1>2, <1>6 DEF OthersKept
<1>8. TablesSound(q, [owner EXCEPT ![c] = state], open \cup {f})
  BY <1>5, <1>6
<1> QED
  BY <1>7, <1>8 DEF p, q

\* TcpServer::newConnection().
LEMMA AcceptKeeps ==
  ASSUME PollerSound, NEW c \in Connections, NEW f \in Fds, Accept(c, f)
  PROVE  PollerSound'
<1>1. /\ TypeOK /\ TablesSound(poller, owner, open) /\ Kinds /\ QueuesFit /\ ActiveFits
      /\ owner \in [Channels -> Owners] /\ c \in Channels
      /\ condition \in [Fds -> Conditions] /\ next \in Nat \ {0}
      /\ pending \in Seq(Functors) /\ functors \in Seq(Functors)
  BY Parts DEF Channels
<1>2. /\ owner[c] = "free" /\ f \notin open /\ open' = open \cup {f}
      /\ condition' = condition /\ UNCHANGED loopVars /\ functors' = functors
  BY DEF Accept
<1>3. ASSUME NEW state \in {"up", "made"}, owner' = [owner EXCEPT ![c] = state],
             TablesSound(poller', owner', open'), OthersKept(poller, poller', c),
             QueuesFit', pending' \in Seq(Functors)
      PROVE  PollerSound'
  <2>1. Kinds'
    BY <1>1, <1>3, PollerAssumption DEF Kinds, Channels
  <2>2. ActiveFits'
    BY <1>1, <1>2, <1>3, ActiveStays DEF OthersKept
  <2> QED
    BY <1>1, <1>2, <1>3, <2>1, <2>2, StepKeeps, Zenon DEF loopVars
<1>4. CASE /\ poller' = Update(Construct(poller, c, f), c, kReadEvent)
           /\ owner' = [owner EXCEPT ![c] = "up"]
           /\ UNCHANGED pending
  <2>1. TablesSound(poller', owner', open') /\ OthersKept(poller, poller', c)
    BY <1>1, <1>2, <1>4, NewChannelSound, Zenon DEF Events
  <2>2. owner' \in [Channels -> Owners]
    BY <2>1, Zenon DEF TablesSound
  <2>3. OwnersMove({}) /\ DownKept({})
    BY <1>1, <1>2, <1>4, <2>1, Zenon DEF OwnersMove, DownKept, OthersKept, Unqueued, Channels
  <2>4. QueuesFit'
    BY <1>1, <1>2, <1>4, <2>2, <2>3, QueuesStay, Zenon DEF loopVars
  <2> QED
    BY <1>1, <1>3, <1>4, <2>1, <2>4
<1>5. CASE /\ poller' = Construct(poller, c, f)
           /\ owner' = [owner EXCEPT ![c] = "made"]
           /\ pending' = Append(pending, <<"connectEstablished", c>>)
  <2>1. TablesSound(poller', owner', open') /\ OthersKept(poller, poller', c)
    <3>1. \A d \in Channels : Holder(owner, d) => poller.fd[d] # f
      BY <1>1, <1>2, ClosedIsNobodys
    <3> QED
      BY <1>1, <1>2, <1>5, <3>1, ConstructKeeps, Zenon
  <2>2. owner' \in [Channels -> Owners] /\ owner'[c] = "made"
    BY <1>1, <1>5, Zenon DEF Owners
  <2>3. OwnersMove({c}) /\ DownKept({c}) /\ owner[c] \in Unqueued
    BY <1>1, <1>2, <1>5, <2>1 DEF OwnersMove, DownKept, OthersKept, Unqueued, Channels
  <2>4. Fits(owner', <<"connectEstablished", c>>)
    BY <2>2 DEF Fits
  <2>5. QueuesFit' /\ pending' \in Seq(Functors)
    BY <1>1, <1>2, <1>5, <2>2, <2>3, <2>4, QueueGrows, Zenon DEF loopVars
  <2> QED
    BY <1>3, <1>5, <2>1, <2>5
<1> QED
  BY <1>4, <1>5 DEF Accept

\* Connector::connect().
LEMMA ConnectKeeps ==
  ASSUME PollerSound, NEW k \in Connectors, NEW f \in Fds, Connect(k, f)
  PROVE  PollerSound'
<1>1. /\ TypeOK /\ TablesSound(poller, owner, open) /\ Kinds /\ QueuesFit /\ ActiveFits
      /\ owner \in [Channels -> Owners] /\ k \in Channels
      /\ condition \in [Fds -> Conditions] /\ next \in Nat \ {0}
      /\ pending \in Seq(Functors) /\ functors \in Seq(Functors)
  BY Parts DEF Channels
<1>2. /\ owner[k] = "free" /\ f \notin open /\ open' = open \cup {f}
      /\ condition' = condition /\ UNCHANGED loopVars /\ functors' = functors /\ pending' = pending
      /\ poller' = Update(Construct(poller, k, f), k, kWriteEvent)
      /\ owner' = [owner EXCEPT ![k] = "connecting"]
  BY DEF Connect
<1>3. TablesSound(poller', owner', open') /\ OthersKept(poller, poller', k)
  BY <1>1, <1>2, NewChannelSound, Zenon DEF Events
<1>4. owner' \in [Channels -> Owners]
  BY <1>3, Zenon DEF TablesSound
<1>5. OwnersMove({}) /\ DownKept({})
  BY <1>1, <1>2, <1>3, PollerAssumption DEF OwnersMove, DownKept, OthersKept, Unqueued, Channels
<1>6. QueuesFit'
  BY <1>1, <1>2, <1>4, <1>5, QueuesStay, Zenon DEF loopVars
<1>7. Kinds'
  BY <1>1, <1>2, PollerAssumption DEF Kinds, Channels
<1>8. ActiveFits'
  BY <1>1, <1>2, <1>3, ActiveStays DEF OthersKept
<1> QED
  BY <1>1, <1>2, <1>3, <1>6, <1>7, <1>8, StepKeeps DEF loopVars

\* handleClose() of a connection that is in the kernel's table takes it out of it.
LEMMA HandleCloseSound ==
  ASSUME PollerSound, NEW c \in Connections, owner[c] \in {"up", "closing"}, HandleClose(c),
         open' = open, functors' = functors, phase' = phase, poller.index_[c] = kAdded
  PROVE  /\ TablesSound(poller', owner', open') /\ Kinds' /\ QueuesFit' /\ pending' \in Seq(Functors)
         /\ OthersKept(poller, poller', c) /\ \A d \in Channels \ {c} : owner'[d] = owner[d]
<1>1. /\ TypeOK /\ TablesSound(poller, owner, open) /\ Kinds /\ QueuesFit
      /\ owner \in [Channels -> Owners] /\ c \in Channels
      /\ poller \in Tables /\ pending \in Seq(Functors)
  BY Parts, Zenon DEF Channels, TypeOK
<1>2. PICK state \in {"closed", "down"} :
        /\ owner' = [owner EXCEPT ![c] = state]
        /\ state = "down" => pending' = Append(pending, <<"connectDestroyed", c>>)
        /\ state = "closed" => pending' = pending
  BY Zenon DEF HandleClose
<1>3. Expect(poller, owner[c] \in {"up", "closing"}, "handleClose") = poller
  BY <1>1, Expected, Zenon DEF Assertions
<1>4. poller' = Update(poller, c, {})
  BY <1>3 DEF HandleClose
<1>5. Holder(owner, c) /\ Registered([owner EXCEPT ![c] = state], c)
  BY <1>1 DEF Holder, Registered
<1>6. state \in Owners /\ {} \in SUBSET Events
  BY DEF Owners
<1>7. /\ TablesSound(poller', owner', open') /\ OthersKept(poller, poller', c)
      /\ poller'.index_[c] # kAdded
  <2> DEFINE none == {}
             q == Update(poller, c, none)
  <2>1. none \in SUBSET Events /\ none = {} /\ poller' = q
    BY <1>4, <1>6
  <2> HIDE DEF none
  <2>2. TablesSound(q, [owner EXCEPT ![c] = state], open)
    BY <1>1, <1>5, <1>6, <2>1, UpdateKeeps, Zenon
  <2>3. q = Update(poller, c, none)
    OBVIOUS
  <2> HIDE DEF q
  <2>4. OthersKept(poller, q, c) /\ Updated(poller, c, none, q)
    BY <1>1, <1>5, <2>1, <2>3, UpdateEffect, Zenon
  <2>5. q.index_[c] = kDeleted
    BY <2>1, <2>4, Zenon DEF Updated
  <2> QED
    BY <1>2, <2>1, <2>2, <2>4, <2>5, Zenon DEF kAdded, kDeleted
<1>8. owner' \in [Channels -> Owners] /\ owner'[c] = state /\ \A d \in Channels \ {c} : owner'[d] = owner[d]
  BY <1>1, <1>2, <1>6, Zenon
<1>9. OwnersMove({c}) /\ DownKept({c}) /\ owner[c] \in Unqueued
  BY <1>1, <1>7, <1>8 DEF OwnersMove, DownKept, OthersKept, Unqueued, Channels
<1>10. QueuesFit' /\ pending' \in Seq(Functors)
  <2>1. CASE state = "down"
    <3>1. Fits(owner', <<"connectDestroyed", c>>)
      BY <1>8, <2>1 DEF Fits
    <3> QED
      BY <1>1, <1>2, <1>7, <1>8, <1>9, <2>1, <3>1, QueueGrows, Zenon
  <2>2. CASE state = "closed"
    <3>1. \A d \in {c} : owner[d] \in Unqueued /\ owner'[d] # "down" /\ poller'.index_[d] # kAdded
      BY <1>7, <1>8, <1>9, <2>2
    <3> QED
      BY <1>1, <1>2, <1>8, <1>9, <2>2, <3>1, QueuesKept, Zenon
  <2> QED
    BY <2>1, <2>2
<1>11. Kinds'
  BY <1>1, <1>2, PollerAssumption DEF Kinds, Channels
<1> QED
  BY <1>7, <1>8, <1>10, <1>11, Zenon

\* A connection closes in the dispatch.
LEMMA ConnectionClosesKeeps ==
  ASSUME PollerSound, NEW c \in Connections, ConnectionCloses(c)
  PROVE  PollerSound'
<1>1. /\ TypeOK /\ Kinds /\ ActiveFits /\ condition \in [Fds -> Conditions]
      /\ functors \in Seq(Functors) /\ c \in Channels /\ owner \in [Channels -> Owners]
      /\ active \in Seq(Active) /\ next \in Nat \ {0}
  BY Parts DEF Channels, TypeOK
<1>2. /\ Dispatched(c) /\ HandleClose(c) /\ open' = open /\ condition' = condition /\ functors' = functors
      /\ phase' = phase /\ phase = "dispatch" /\ UNCHANGED <<size, phase, active>>
  BY DEF ConnectionCloses, Dispatched
<1>3. owner[c] \in {"up", "closing"} /\ poller.index_[c] = kAdded
  <2>1. next \in 1..Len(active) /\ active[next].ptr = c /\ next >= next
    BY <1>1, <1>2 DEF Dispatched
  <2>2. owner[c] \in {"up", "closing", "connecting"} /\ poller.index_[c] = kAdded
    BY <1>1, <2>1, Zenon DEF ActiveFits, ActiveSound
  <2> QED
    BY <1>1, <2>2 DEF Kinds
<1>4. /\ TablesSound(poller', owner', open') /\ Kinds' /\ QueuesFit' /\ pending' \in Seq(Functors)
      /\ OthersKept(poller, poller', c) /\ \A d \in Channels \ {c} : owner'[d] = owner[d]
  BY <1>2, <1>3, HandleCloseSound, Zenon
<1>5. ActiveFits' /\ next' \in Nat \ {0}
  BY <1>1, <1>2, <1>4, ActiveAdvances, Zenon DEF OthersKept
<1> QED
  BY <1>1, <1>2, <1>4, <1>5, StepKeeps

\* forceCloseInLoop() of a connection that waits for an event.
LEMMA ForceCloseKeeps ==
  ASSUME Usage, PollerSound, NEW c \in Connections, ForceClose(c)
  PROVE  PollerSound'
<1>1. /\ TypeOK /\ ActiveFits /\ condition \in [Fds -> Conditions] /\ next \in Nat \ {0}
      /\ functors \in Seq(Functors) /\ c \in Channels /\ TablesSound(poller, owner, open)
  BY Parts DEF Channels
<1>2. /\ phase = "functors" /\ owner[c] = "closing" /\ poller.events_[c] # {} /\ HandleClose(c)
      /\ open' = open /\ condition' = condition /\ functors' = functors /\ UNCHANGED loopVars
      /\ phase' = phase
  BY DEF ForceClose, Usage, loopVars
<1>3. poller.index_[c] = kAdded
  BY <1>1, <1>2, Zenon DEF TablesSound, Registered
<1>4. TablesSound(poller', owner', open') /\ Kinds' /\ QueuesFit' /\ pending' \in Seq(Functors)
  BY <1>2, <1>3, HandleCloseSound, Zenon
<1>5. ActiveFits'
  BY <1>1, <1>2, ActiveStays
<1> QED
  BY <1>1, <1>2, <1>4, <1>5, StepKeeps DEF loopVars

\* A step that changes the state of one connection and none of the tables.
LEMMA StateSound ==
  ASSUME PollerSound, NEW c \in Connections,
         NEW state, \/ state = "closing" /\ owner[c] = "up"
                    \/ state = "down" /\ owner[c] = "closed",
         poller' = poller, owner' = [owner EXCEPT ![c] = state], open' = open
  PROVE  TablesSound(poller', owner', open') /\ Kinds'
<1>1. TablesSound(poller, owner, open) /\ Kinds /\ owner \in [Channels -> Owners] /\ c \in Channels
  BY Parts DEF Channels
<1>2. /\ owner' \in [Channels -> Owners] /\ owner'[c] = state
      /\ \A d \in Channels : d # c => owner'[d] = owner[d]
  BY <1>1 DEF Owners
<1>3. \A d \in Channels : (Holder(owner', d) <=> Holder(owner, d)) /\ (Registered(owner', d) <=> Registered(owner, d))
  BY <1>1, <1>2 DEF Holder, Registered
<1>4. \A d \in Channels :
        /\ owner'[d] # "free" => owner[d] # "free"
        /\ owner'[d] \in {"closed", "down"} => owner[d] \in {"closed", "down"}
  BY <1>1, <1>2
<1>5. \A f \in Fds : poller.channels_[f] # None => poller.channels_[f] \in Channels
  BY <1>1 DEF TablesSound, Tables
<1>6. TablesSound(poller, owner', open)
  BY <1>1, <1>2, <1>3, <1>4, <1>5, Zenon DEF TablesSound
<1>7. Kinds'
  BY <1>1, <1>2, PollerAssumption DEF Kinds, Channels
<1> QED
  BY <1>6, <1>7

\* shutdown(), forceClose().
LEMMA ShutdownKeeps ==
  ASSUME PollerSound, NEW c \in Connections, Shutdown(c)
  PROVE  PollerSound'
<1>1. /\ TypeOK /\ QueuesFit /\ ActiveFits /\ condition \in [Fds -> Conditions] /\ next \in Nat \ {0}
      /\ functors \in Seq(Functors) /\ pending \in Seq(Functors) /\ c \in Channels
      /\ owner \in [Channels -> Owners]
  BY Parts DEF Channels
<1>2. /\ owner[c] = "up" /\ owner' = [owner EXCEPT ![c] = "closing"]
      /\ poller' = poller /\ open' = open /\ condition' = condition /\ UNCHANGED loopVars
      /\ functors' = functors /\ pending' = pending /\ phase' = phase
  BY DEF Shutdown, loopVars
<1>3. TablesSound(poller', owner', open') /\ Kinds'
  BY <1>2, StateSound, Zenon
<1>4. owner' \in [Channels -> Owners]
  BY <1>3, Zenon DEF TablesSound
<1>5. OwnersMove({}) /\ DownKept({})
  BY <1>1, <1>2 DEF OwnersMove, DownKept, Unqueued
<1>6. QueuesFit'
  BY <1>1, <1>2, <1>4, <1>5, QueuesStay, Zenon
<1>7. ActiveFits'
  BY <1>1, <1>2, ActiveStays
<1> QED
  BY <1>1, <1>2, <1>3, <1>6, <1>7, StepKeeps DEF loopVars

\* TcpServer::removeConnectionInLoop().
LEMMA RemoveConnectionKeeps ==
  ASSUME PollerSound, NEW c \in Connections, RemoveConnectionInLoop(c)
  PROVE  PollerSound'
<1>1. /\ TypeOK /\ QueuesFit /\ ActiveFits /\ condition \in [Fds -> Conditions] /\ next \in Nat \ {0}
      /\ functors \in Seq(Functors) /\ c \in Channels /\ owner \in [Channels -> Owners]
  BY Parts DEF Channels
<1>2. /\ owner[c] = "closed" /\ owner' = [owner EXCEPT ![c] = "down"]
      /\ pending' = Append(pending, <<"connectDestroyed", c>>)
      /\ poller' = poller /\ open' = open /\ condition' = condition /\ UNCHANGED loopVars
      /\ functors' = functors /\ phase' = phase
  BY DEF RemoveConnectionInLoop, loopVars
<1>3. TablesSound(poller', owner', open') /\ Kinds'
  BY <1>2, StateSound, Zenon
<1>4. owner' \in [Channels -> Owners] /\ owner'[c] = "down"
  BY <1>1, <1>2 DEF Owners
<1>5. OwnersMove({c}) /\ DownKept({c}) /\ owner[c] \in Unqueued
  BY <1>1, <1>2 DEF OwnersMove, DownKept, Unqueued
<1>6. Fits(owner', <<"connectDestroyed", c>>)
  BY <1>4 DEF Fits
<1>7. poller'.index_[c] # kAdded
  BY <1>1, <1>2, Zenon DEF QueuesFit, DownIsQueued
<1>8. QueuesFit' /\ pending' \in Seq(Functors)
  BY <1>1, <1>2, <1>4, <1>5, <1>6, <1>7, QueueGrows, Zenon
<1>9. ActiveFits'
  BY <1>1, <1>2, ActiveStays
<1> QED
  BY <1>1, <1>2, <1>3, <1>8, <1>9, StepKeeps DEF loopVars

\* enableReading() and the others of a Channel that stays registered.
LEMMA UpdateSound ==
  ASSUME PollerSound, NEW c \in Channels, owner[c] \in {"up", "closing", "connecting"}, NEW events \in SUBSET Events
  PROVE  LET q == Update(poller, c, events)
         IN  /\ TablesSound(q, owner, open)
             /\ OthersKept(poller, q, c) /\ Updated(poller, c, events, q)
<1> DEFINE q == Update(poller, c, events)
<1>1. TablesSound(poller, owner, open) /\ owner \in [Channels -> Owners]
  BY Parts
<1>2. Holder(owner, c) /\ Registered(owner, c)
  BY DEF Holder, Registered
<1>3. owner[c] \in Owners /\ [owner EXCEPT ![c] = owner[c]] = owner /\ owner[c] \notin {"closed", "down"}
  BY <1>1
<1> DEFINE a == owner[c]
<1>4. a \in Owners /\ Registered([owner EXCEPT ![c] = a], c) /\ (a \in {"closed", "down"} => events = {})
  BY <1>2, <1>3
<1> HIDE DEF a
<1>5. TablesSound(q, [owner EXCEPT ![c] = a], open)
  BY <1>1, <1>2, <1>4, UpdateKeeps, Zenon
<1>6. OthersKept(poller, q, c) /\ Updated(poller, c, events, q)
  <2>1. q = Update(poller, c, events)
    OBVIOUS
  <2> HIDE DEF q
  <2> QED
    BY <1>1, <1>2, <2>1, UpdateEffect, Zenon
<1> QED
  BY <1>3, <1>5, <1>6 DEF a

\* A step that only changes what a registered Channel waits for.
LEMMA InterestSound ==
  ASSUME PollerSound, NEW c \in Channels, owner[c] \in {"up", "closing", "connecting"}, NEW events \in SUBSET Events,
         poller' = Update(poller, c, events) \/ poller' = poller, owner' = owner, open' = open,
         pending' = pending, functors' = functors, phase' = phase
  PROVE  /\ TablesSound(poller', owner', open') /\ Kinds' /\ QueuesFit'
         /\ OthersKept(poller, poller', c)
<1>1. TypeOK /\ Kinds /\ QueuesFit /\ owner \in [Channels -> Owners] /\ TablesSound(poller, owner, open)
  BY Parts
<1>2. TablesSound(poller', owner, open) /\ OthersKept(poller, poller', c)
  <2>1. CASE poller' = poller
    BY <1>1, <2>1, Zenon DEF OthersKept
  <2>2. CASE poller' = Update(poller, c, events)
    BY <2>2, UpdateSound, Zenon
  <2> QED
    BY <2>1, <2>2
<1>3. OwnersMove({}) /\ DownKept({})
  BY <1>2 DEF OwnersMove, DownKept, OthersKept, Channels
<1>4. QueuesFit'
  BY <1>1, <1>3, QueuesStay, Zenon
<1> QED
  BY <1>1, <1>2, <1>4 DEF Kinds

\* A connection reads and writes in the dispatch.
LEMMA ConnectionHandlesKeeps ==
  ASSUME PollerSound, NEW c \in Connections, ConnectionHandles(c)
  PROVE  PollerSound'
<1>1. /\ TypeOK /\ ActiveFits /\ condition \in [Fds -> Conditions]
      /\ functors \in Seq(Functors) /\ pending \in Seq(Functors) /\ c \in Channels
      /\ poller \in Tables
  BY Parts, Zenon DEF Channels, TypeOK
<1>2. /\ Dispatched(c) /\ open' = open /\ condition' = condition /\ functors' = functors
      /\ phase' = phase /\ UNCHANGED <<size, phase, active>> /\ pending' = pending /\ owner' = owner
      /\ poller' = Update(poller, c, poller.events_[c] \ kWriteEvent) \/ poller' = poller
  BY Zenon DEF ConnectionHandles, Dispatched
<1>3. owner[c] \in {"up", "closing", "connecting"}
  <2>1. next \in 1..Len(active) /\ active[next].ptr = c /\ next >= next
    BY <1>1, <1>2 DEF Dispatched, TypeOK
  <2> QED
    BY <1>1, <2>1, Zenon DEF ActiveFits, ActiveSound
<1>4. poller.events_[c] \ kWriteEvent \in SUBSET Events
  BY <1>1 DEF Tables
<1>5. /\ TablesSound(poller', owner', open') /\ Kinds' /\ QueuesFit'
      /\ OthersKept(poller, poller', c)
  BY <1>1, <1>2, <1>3, <1>4, InterestSound, Zenon
<1>6. ActiveFits' /\ next' \in Nat \ {0}
  BY <1>1, <1>2, <1>5, ActiveAdvances, Zenon DEF OthersKept
<1> QED
  BY <1>1, <1>2, <1>5, <1>6, StepKeeps

\* sendInLoop(), startReadInLoop() and, unless its event is still to be handled,
\* stopReadInLoop() of a connection.
LEMMA InterestKeeps ==
  ASSUME Usage, PollerSound, NEW c \in Connections,
         SendInLoop(c) \/ StartReadInLoop(c) \/ StopReadInLoop(c)
  PROVE  PollerSound'
<1>1. /\ TypeOK /\ ActiveFits /\ condition \in [Fds -> Conditions] /\ next \in Nat \ {0}
      /\ functors \in Seq(Functors) /\ pending \in Seq(Functors) /\ c \in Channels
      /\ poller \in Tables
  BY Parts DEF Channels, TypeOK
<1>2. /\ owner[c] \in {"up", "closing"} /\ open' = open /\ condition' = condition /\ functors' = functors
      /\ UNCHANGED loopVars /\ phase' = phase /\ pending' = pending /\ owner' = owner
  BY DEF SendInLoop, StartReadInLoop, StopReadInLoop, Known, Usage, loopVars
<1>3. PICK events \in SUBSET Events :
        /\ poller' = Update(poller, c, events)
        /\ events # {} \/ ~Waiting(c)
  <2>1. /\ poller.events_[c] \cup kWriteEvent \in SUBSET Events /\ poller.events_[c] \cup kWriteEvent # {}
        /\ poller.events_[c] \cup kReadEvent \in SUBSET Events /\ poller.events_[c] \cup kReadEvent # {}
        /\ poller.events_[c] \ kReadEvent \in SUBSET Events
    BY <1>1 DEF Tables, Events, kReadEvent, kWriteEvent
  <2>2. CASE SendInLoop(c)
    BY <2>1, <2>2, Zenon DEF SendInLoop
  <2>3. CASE StartReadInLoop(c)
    BY <2>1, <2>3, Zenon DEF StartReadInLoop
  <2>4. CASE StopReadInLoop(c)
    <3>1. ~Waiting(c) /\ poller' = Update(poller, c, poller.events_[c] \ kReadEvent)
      BY <2>4, Zenon DEF StopReadInLoop, Usage
    <3> QED
      BY <2>1, <3>1, Zenon
  <2> QED
    BY <2>2, <2>3, <2>4
<1>4. /\ TablesSound(poller', owner', open') /\ Kinds' /\ QueuesFit'
      /\ OthersKept(poller, poller', c)
  BY <1>1, <1>2, <1>3, InterestSound, Zenon
<1>5. Updated(poller, c, events, poller')
  BY <1>1, <1>2, <1>3, UpdateSound, Zenon
<1>6. ActiveFits'
  <2>1. \A d \in Channels : Waiting(d) /\ poller.index_[d] = kAdded => poller'.index_[d] = kAdded
    BY <1>3, <1>4, <1>5, Zenon DEF OthersKept, Updated
  <2> QED
    BY <1>1, <1>2, <2>1, ActiveStays, Zenon
<1> QED
  BY <1>1, <1>2, <1>4, <1>6, StepKeeps, Zenon DEF loopVars

\* connectDestroyed() of a connection that is kConnected or kDisconnected, outside of
\* the dispatch.
LEMMA ConnectDestroyedSound ==
  ASSUME PollerSound, NEW c \in Connections, owner[c] \in {"up", "closed", "down"}, phase = "functors",
         ConnectDestroyed(c)
  PROVE  /\ TablesSound(poller', owner', open) /\ OthersKept(poller, poller', c) /\ Kinds'
         /\ owner' = [owner EXCEPT ![c] = "removed"]
<1>1. /\ TablesSound(poller, owner, open) /\ owner \in [Channels -> Owners] /\ c \in Channels /\ Kinds
  BY Parts DEF Channels
<1> DEFINE p == IF owner[c] = "up" THEN Update(poller, c, {}) ELSE poller
           q == Remove(p, c, FALSE)
<1>2. poller' = q /\ owner' = [owner EXCEPT ![c] = "removed"]
  <2>1. (IF owner[c] = "closing" THEN "abandoned" ELSE "removed") = "removed"
    OBVIOUS
  <2> QED
    BY <2>1, Zenon DEF ConnectDestroyed
<1>3. TablesSound(p, owner, open) /\ OthersKept(poller, p, c) /\ p.events_[c] = {}
  <2>1. CASE owner[c] = "up"
    BY <1>1, <2>1, UpdateSound, Zenon DEF Updated
  <2>2. CASE owner[c] \in {"closed", "down"}
    BY <1>1, <2>2, Zenon DEF TablesSound, OthersKept
  <2> QED
    BY <2>1, <2>2, Zenon
<1> HIDE DEF p
<1>4. Registered(owner, c) /\ "removed" \in Owners
  BY DEF Registered, Owners
<1>5. TablesSound(q, [owner EXCEPT ![c] = "removed"], open) /\ OthersKept(p, q, c)
  BY <1>1, <1>3, <1>4, RemoveKeeps, Zenon
<1>6. OthersKept(poller, q, c)
  BY <1>3, <1>5, Zenon DEF OthersKept
<1>7. Kinds'
  BY <1>1, <1>2, PollerAssumption DEF Kinds, Channels
<1> QED
  BY <1>2, <1>5, <1>6, <1>7, Zenon

\* ~TcpServer in a functor.
LEMMA ServerGoneKeeps ==
  ASSUME Usage, PollerSound, NEW c \in Connections, ServerGone(c)
  PROVE  PollerSound'
<1>1. /\ TypeOK /\ QueuesFit /\ ActiveFits /\ condition \in [Fds -> Conditions] /\ next \in Nat \ {0}
      /\ functors \in Seq(Functors) /\ pending \in Seq(Functors) /\ c \in Channels
      /\ owner \in [Channels -> Owners]
  BY Parts DEF Channels
<1>2. /\ phase = "functors" /\ owner[c] \in {"up", "closed"} /\ ConnectDestroyed(c) /\ open' = open
      /\ condition' = condition /\ UNCHANGED loopVars /\ functors' = functors /\ pending' = pending
      /\ phase' = phase
  BY Zenon DEF ServerGone, Usage, loopVars
<1>3. /\ TablesSound(poller', owner', open') /\ OthersKept(poller, poller', c) /\ Kinds'
      /\ owner' = [owner EXCEPT ![c] = "removed"]
  BY <1>2, ConnectDestroyedSound
<1>4. owner' \in [Channels -> Owners]
  BY <1>3, Zenon DEF TablesSound
<1>5. \A d \in {c} : owner[d] \in Unqueued /\ owner'[d] # "down" /\ poller'.index_[d] # kAdded
  <2>1. owner'[c] = "removed"
    BY <1>1, <1>3
  <2>2. poller'.index_[c] = kNew
    BY <1>1, <1>3, <2>1 DEF TablesSound, Registered
  <2> QED
    BY <1>2, <2>1, <2>2 DEF Unqueued, kNew, kAdded
<1>6. QueuesFit'
  <2>1. OwnersMove({c}) /\ DownKept({c})
    BY <1>1, <1>3 DEF OwnersMove, DownKept, OthersKept, Channels
  <2> QED
    BY <1>1, <1>2, <1>4, <1>5, <2>1, QueuesKept, Zenon
<1>7. ActiveFits'
  BY <1>1, <1>2, ActiveStays, Zenon
<1> QED
  BY <1>1, <1>2, <1>3, <1>6, <1>7, StepKeeps DEF loopVars

\* The last TcpConnectionPtr goes.
LEMMA ReleaseKeeps ==
  ASSUME PollerSound, NEW c \in Connections, Release(c)
  PROVE  PollerSound'
<1>1. /\ TypeOK /\ TablesSound(poller, owner, open) /\ Kinds /\ QueuesFit /\ ActiveFits
      /\ condition \in [Fds -> Conditions] /\ next \in Nat \ {0}
      /\ functors \in Seq(Functors) /\ pending \in Seq(Functors) /\ c \in Channels
      /\ owner \in [Channels -> Owners]
  BY Parts DEF Channels
<1> DEFINE f == poller.fd[c]
           p == Destruct(poller, c)
           o == [owner EXCEPT ![c] = "free"]
<1>2. /\ owner[c] = "removed" /\ poller' = Close(p, f) /\ owner' = o /\ open' = open \ {f}
      /\ condition' = [condition EXCEPT ![f] = "quiet"]
      /\ UNCHANGED loopVars /\ functors' = functors /\ pending' = pending /\ phase' = phase
  <2>1. owner[c] = "removed"
    BY <1>1 DEF Release, Kinds
  <2>2. Expect(poller, owner[c] = "removed", "dtor") = poller
    BY <1>1, <2>1, Expected, Zenon DEF Assertions, TypeOK
  <2> QED
    BY <2>1, <2>2, Zenon DEF Release, Forget, loopVars
<1>3. ~Registered(owner, c) /\ Holder(owner, c) /\ f \in Fds
  BY <1>1, <1>2, Zenon DEF Registered, Holder, TablesSound
<1>4. TablesSound(p, o, open) /\ OthersKept(poller, p, c)
  BY <1>1, <1>2, <1>3, DestructKeeps, Zenon
<1>5. \A d \in Channels : Holder(o, d) => p.fd[d] # f
  <2> TAKE d \in Channels
  <2> HAVE Holder(o, d)
  <2>1. d # c /\ Holder(owner, d)
    BY <1>1 DEF Holder
  <2>2. poller.fd[d] # f
    BY <1>1, <1>3, <2>1, Zenon DEF TablesSound
  <2> QED
    BY <1>4, <2>1, <2>2, Zenon DEF OthersKept
<1> HIDE DEF p
<1>6. TablesSound(Close(p, f), o, open \ {f}) /\ Close(p, f).index_ = p.index_
  BY <1>3, <1>4, <1>5, CloseKeeps, Zenon
<1>7. TablesSound(poller', owner', open') /\ poller'.index_ = p.index_
  BY <1>2, <1>6, Zenon
<1>8. OwnersMove({}) /\ DownKept({})
  BY <1>1, <1>2, <1>4, <1>7 DEF OwnersMove, DownKept, OthersKept, Unqueued, Channels
<1>9. owner' \in [Channels -> Owners]
  BY <1>7, Zenon DEF TablesSound
<1>10. QueuesFit'
  BY <1>1, <1>2, <1>8, <1>9, QueuesStay, Zenon
<1>11. ActiveFits'
  <2>1. \A d \in Channels : owner[d] \in {"up", "closing", "connecting"} =>
          owner'[d] = owner[d] /\ poller'.index_[d] = poller.index_[d]
    BY <1>1, <1>2, <1>4, <1>7 DEF OthersKept
  <2> QED
    BY <1>1, <1>2, <2>1, ActiveStays, Zenon
<1>12. Kinds'
  BY <1>1, <1>2, PollerAssumption DEF Kinds, Channels
<1>13. condition' \in [Fds -> Conditions]
  BY <1>1, <1>2, <1>3 DEF Conditions
<1> QED
  BY <1>1, <1>2, <1>7, <1>10, <1>11, <1>12, <1>13, StepKeeps, Zenon DEF loopVars

\* Connector::removeAndResetChannel() of a Connector that is connecting: nobody holds
\* the descriptor after it.
LEMMA WithdrawnSound ==
  ASSUME PollerSound, NEW k \in Connectors, owner[k] = "connecting", NEW current \in BOOLEAN,
         current \/ phase # "dispatch"
  PROVE  LET q == Withdrawn(k, current)
             o == [owner EXCEPT ![k] = "down"]
         IN  /\ TablesSound(q, o, open) /\ OthersKept(poller, q, k)
             /\ \A d \in Channels : Holder(o, d) => q.fd[d] # poller.fd[k]
             /\ poller.fd[k] \in open
<1>1. /\ TablesSound(poller, owner, open) /\ owner \in [Channels -> Owners] /\ k \in Channels
      /\ k \notin Connections
  BY Parts, PollerAssumption DEF Channels
<1> DEFINE p == Update(poller, k, {})
           q == Remove(p, k, current)
           o == [owner EXCEPT ![k] = "down"]
<1>2. TablesSound(p, owner, open) /\ OthersKept(poller, p, k) /\ p.events_[k] = {}
  BY <1>1, UpdateSound, Zenon DEF Updated
<1>3. Registered(owner, k) /\ Holder(owner, k) /\ "down" \in Owners
  BY DEF Registered, Holder, Owners
<1> HIDE DEF p
<1>4. TablesSound(q, o, open) /\ OthersKept(p, q, k)
  BY <1>1, <1>2, <1>3, RemoveKeeps, Zenon
<1>5. OthersKept(poller, q, k)
  BY <1>2, <1>4, Zenon DEF OthersKept
<1>6. \A d \in Channels : Holder(o, d) => q.fd[d] # poller.fd[k]
  <2> TAKE d \in Channels
  <2> HAVE Holder(o, d)
  <2>1. d # k /\ Holder(owner, d)
    BY <1>1 DEF Holder
  <2>2. poller.fd[d] # poller.fd[k]
    BY <1>1, <1>3, <2>1, Zenon DEF TablesSound
  <2> QED
    BY <1>5, <2>1, <2>2, Zenon DEF OthersKept
<1>7. poller.fd[k] \in open
  BY <1>1, <1>3, Zenon DEF TablesSound
<1>8. q = Withdrawn(k, current)
  BY Zenon DEF Withdrawn, p
<1> QED
  BY <1>4, <1>5, <1>6, <1>7, <1>8, Zenon

\* removeAndResetChannel() and retry().
LEMMA GiveUpSound ==
  ASSUME PollerSound, NEW k \in Connectors, owner[k] = "connecting", NEW current \in BOOLEAN,
         current \/ phase # "dispatch", GiveUp(k, current), functors' = functors, phase' = phase
  PROVE  /\ TablesSound(poller', owner', open') /\ Kinds' /\ QueuesFit' /\ pending' \in Seq(Functors)
         /\ owner' = [owner EXCEPT ![k] = "down"] /\ condition' \in [Fds -> Conditions]
         /\ \A d \in Channels \ {k} : poller'.index_[d] = poller.index_[d]
<1>1. /\ TypeOK /\ Kinds /\ QueuesFit /\ owner \in [Channels -> Owners] /\ k \in Channels
      /\ open \in SUBSET Fds /\ condition \in [Fds -> Conditions] /\ k \notin Connections
  BY Parts, PollerAssumption, Zenon DEF Channels
<1> DEFINE q == Withdrawn(k, current)
           o == [owner EXCEPT ![k] = "down"]
           f == poller.fd[k]
<1>2. /\ poller' = Close(q, f) /\ owner' = o /\ pending' = Append(pending, <<"resetChannel", k>>)
      /\ open' = open \ {f} /\ condition' = [condition EXCEPT ![f] = "quiet"]
  BY DEF GiveUp, ResetLater, Forget
<1>3. /\ TablesSound(q, o, open) /\ OthersKept(poller, q, k)
      /\ \A d \in Channels : Holder(o, d) => q.fd[d] # f
      /\ f \in open
  BY WithdrawnSound, Zenon
<1> HIDE DEF q
<1>4. TablesSound(Close(q, f), o, open \ {f}) /\ Close(q, f).index_ = q.index_
  BY <1>1, <1>3, CloseKeeps, Zenon
<1>5. TablesSound(poller', owner', open') /\ poller'.index_ = q.index_
  BY <1>2, <1>4
<1>6. owner' \in [Channels -> Owners] /\ owner'[k] = "down"
  <2>1. owner' = [owner EXCEPT ![k] = "down"]
    BY <1>2
  <2> QED
    BY <1>1, <2>1, Zenon DEF Owners
<1>7. OwnersMove({k}) /\ DownKept({k}) /\ owner[k] \in Unqueued
  BY <1>1, <1>2, <1>3, <1>5, Zenon DEF OwnersMove, DownKept, OthersKept, Unqueued, Channels
<1>8. Fits(owner', <<"resetChannel", k>>)
  BY <1>6 DEF Fits
<1>9. QueuesFit' /\ pending' \in Seq(Functors)
  BY <1>1, <1>2, <1>6, <1>7, <1>8, QueueGrows, Zenon
<1>10. Kinds'
  BY <1>1, <1>2 DEF Kinds, Channels
<1>11. condition' \in [Fds -> Conditions]
  BY <1>1, <1>2, <1>3, Zenon DEF Conditions
<1>12. \A d \in Channels \ {k} : poller'.index_[d] = poller.index_[d]
  BY <1>3, <1>5, Zenon DEF OthersKept
<1> QED
  BY <1>2, <1>5, <1>9, <1>10, <1>11, <1>12, Zenon

\* A Connector fails in the dispatch.
LEMMA AttemptFailsKeeps ==
  ASSUME PollerSound, NEW k \in Connectors, AttemptFails(k)
  PROVE  PollerSound'
<1>1. TypeOK /\ ActiveFits /\ functors \in Seq(Functors) /\ k \in Channels /\ owner \in [Channels -> Owners]
  BY Parts DEF Channels
<1>2. /\ Dispatched(k) /\ owner[k] = "connecting" /\ GiveUp(k, TRUE) /\ functors' = functors
      /\ UNCHANGED <<size, phase, active>> /\ phase' = phase
  BY Zenon DEF AttemptFails, Dispatched
<1>3. /\ TablesSound(poller', owner', open') /\ Kinds' /\ QueuesFit' /\ pending' \in Seq(Functors)
      /\ owner' = [owner EXCEPT ![k] = "down"] /\ condition' \in [Fds -> Conditions]
      /\ \A d \in Channels \ {k} : poller'.index_[d] = poller.index_[d]
  BY <1>2, GiveUpSound, Zenon
<1>4. ActiveFits' /\ next' \in Nat \ {0}
  BY <1>1, <1>2, <1>3, ActiveAdvances
<1> QED
  BY <1>1, <1>2, <1>3, <1>4, StepKeeps

\* Connector::stopInLoop().
LEMMA StopInLoopKeeps ==
  ASSUME PollerSound, NEW k \in Connectors, StopInLoop(k)
  PROVE  PollerSound'
<1>1. /\ TypeOK /\ ActiveFits /\ functors \in Seq(Functors) /\ k \in Channels /\ next \in Nat \ {0}
      /\ owner \in [Channels -> Owners]
  BY Parts DEF Channels
<1>2. /\ phase = "functors" /\ owner[k] = "connecting" /\ GiveUp(k, FALSE) /\ functors' = functors
      /\ UNCHANGED loopVars /\ phase' = phase
  BY Zenon DEF StopInLoop, loopVars
<1>3. /\ TablesSound(poller', owner', open') /\ Kinds' /\ QueuesFit' /\ pending' \in Seq(Functors)
      /\ condition' \in [Fds -> Conditions]
  BY <1>2, GiveUpSound, Zenon
<1>4. ActiveFits'
  BY <1>1, <1>2, ActiveStays, Zenon
<1> QED
  BY <1>1, <1>2, <1>3, <1>4, StepKeeps DEF loopVars

\* A Connector hands its descriptor over to a TcpConnection.
LEMMA AttemptSucceedsKeeps ==
  ASSUME PollerSound, NEW k \in Connectors, NEW c \in Connections, AttemptSucceeds(k, c)
  PROVE  PollerSound'
<1>1. /\ TypeOK /\ Kinds /\ QueuesFit /\ ActiveFits /\ owner \in [Channels -> Owners]
      /\ k \in Channels /\ c \in Channels /\ k \notin Connections /\ c # k
      /\ open \in SUBSET Fds /\ condition \in [Fds -> Conditions]
      /\ functors \in Seq(Functors)
  BY Parts, PollerAssumption DEF Channels
<1> DEFINE f == poller.fd[k]
           p == Withdrawn(k, TRUE)
           o == [owner EXCEPT ![k] = "down"]
           m == Construct(p, c, f)
           n == [o EXCEPT ![c] = "made"]
           q == Update(m, c, kReadEvent)
           l == [owner EXCEPT ![k] = "down", ![c] = "up"]
<1>2. /\ Dispatched(k) /\ owner[k] = "connecting" /\ owner[c] = "free"
      /\ poller' = q /\ owner' = l /\ pending' = Append(pending, <<"resetChannel", k>>)
      /\ open' = open /\ condition' = condition /\ functors' = functors
      /\ UNCHANGED <<size, phase, active>> /\ phase' = phase
  BY Zenon DEF AttemptSucceeds, ResetLater, Dispatched
<1>3. /\ TablesSound(p, o, open) /\ OthersKept(poller, p, k)
      /\ \A d \in Channels : Holder(o, d) => p.fd[d] # f
      /\ f \in open
  BY <1>2, WithdrawnSound, Zenon
<1>4. o[c] = "free" /\ o \in [Channels -> Owners] /\ f \in Fds /\ open \cup {f} = open
  BY <1>1, <1>2, <1>3, Zenon DEF Owners
<1> HIDE DEF p, o, f
<1>5. TablesSound(m, n, open \cup {f}) /\ OthersKept(p, m, c)
  BY <1>1, <1>3, <1>4, ConstructKeeps, Zenon
<1>6. TablesSound(m, n, open)
  BY <1>4, <1>5, Zenon
<1>7. n[c] = "made" /\ n \in [Channels -> Owners] /\ "up" \in Owners /\ "made" \in Owners
  BY <1>1, <1>4 DEF Owners
<1>8. Holder(n, c) /\ Registered([n EXCEPT ![c] = "up"], c) /\ kReadEvent \in SUBSET Events
  BY <1>1, <1>7 DEF Holder, Registered, Events
<1>9. [n EXCEPT ![c] = "up"] = l
  <2>1. [n EXCEPT ![c] = "up"] = [o EXCEPT ![c] = "up"]
    BY <1>1, <1>4, <1>7, OwnerTwice
  <2> QED
    BY <1>1, <2>1, Zenon DEF o
<1> HIDE DEF m, n
<1>10. TablesSound(q, [n EXCEPT ![c] = "up"], open)
  BY <1>1, <1>6, <1>7, <1>8, UpdateKeeps, Zenon
<1>11. OthersKept(m, q, c)
  BY <1>1, <1>6, <1>8, UpdateEffect, Zenon
<1> HIDE DEF q
<1>12. TablesSound(poller', owner', open')
  <2>1. poller' = q /\ owner' = [n EXCEPT ![c] = "up"] /\ open' = open
    BY <1>2, <1>9, Zenon
  <2> QED
    BY <1>10, <2>1, Zenon
<1>13. owner' \in [Channels -> Owners] /\ owner'[k] = "down" /\ owner'[c] = "up"
       /\ \A d \in Channels \ {k, c} : owner'[d] = owner[d]
  <2>1. owner' = [owner EXCEPT ![k] = "down", ![c] = "up"] /\ k # c
    BY <1>2
  <2> QED
    BY <1>1, <2>1 DEF Owners
<1>14. OwnersMove({k}) /\ owner[k] \in Unqueued
  BY <1>2, <1>13 DEF OwnersMove, Unqueued
<1>15. DownKept({k})
  BY <1>2, <1>3, <1>5, <1>11, Zenon DEF DownKept, OthersKept, Channels
<1>16. Fits(owner', <<"resetChannel", k>>)
  BY <1>13 DEF Fits
<1>17. QueuesFit' /\ pending' \in Seq(Functors)
  BY <1>1, <1>2, <1>13, <1>14, <1>15, <1>16, QueueGrows, Zenon
<1>18. Kinds'
  BY <1>1, <1>13, PollerAssumption DEF Kinds, Channels
<1>19. ActiveFits' /\ next' \in Nat \ {0}
  <2>1. \A d \in Channels \ {k} : owner[d] \in {"up", "closing", "connecting"} =>
          owner'[d] = owner[d] /\ poller'.index_[d] = poller.index_[d]
    <3>1. \A d \in Channels : owner[d] \in {"up", "closing", "connecting"} => d # c
      BY <1>2
    <3> QED
      BY <1>2, <1>3, <1>5, <1>11, <1>13, <3>1, Zenon DEF OthersKept
  <2> QED
    BY <1>1, <1>2, <2>1, ActiveAdvances, Zenon
<1> QED
  BY <1>1, <1>2, <1>12, <1>17, <1>18, <1>19, StepKeeps, Zenon

\* The first functor leaves its queue.
LEMMA TailFits ==
  ASSUME NEW o, NEW n, NEW q \in Seq(Functors), NEW r \in Seq(Functors), r # <<>>,
         FunctorsFit(o, q), FunctorsFit(o, r), Apart(q, r),
         \A d \in Channels : d # r[1][2] => n[d] = o[d]
  PROVE  /\ Tail(r) \in Seq(Functors)
         /\ FunctorsFit(n, q) /\ FunctorsFit(n, Tail(r)) /\ Apart(q, Tail(r))
         /\ \A d : d # r[1][2] /\ IsQueued(d, r) => IsQueued(d, Tail(r))
<1> DEFINE t == Tail(r)
           c == r[1][2]
<1>1. /\ t \in Seq(Functors) /\ Len(t) = Len(r) - 1 /\ Len(r) \in Nat \ {0}
      /\ \A i \in 1..Len(t) : t[i] = r[i + 1]
  OBVIOUS
<1>2. 1 \in 1..Len(r) /\ \A i \in 1..Len(t) : i \in Int /\ i + 1 \in 1..Len(r) /\ i + 1 # 1
  BY <1>1
<1>3. /\ \A i \in 1..Len(r) : Fits(o, r[i])
      /\ \A i, j \in 1..Len(r) : r[i][2] = r[j][2] => i = j
      /\ \A i \in 1..Len(q), j \in 1..Len(r) : q[i][2] # r[j][2]
  BY Zenon DEF FunctorsFit, Apart
<1> HIDE DEF t
<1>4. FunctorsFit(n, q)
  <2>1. \A i \in 1..Len(q) : q[i][2] \in Channels /\ q[i][2] # c
    BY <1>2, <1>3, QueueChannels, Zenon
  <2>2. \A i \in 1..Len(q) : n[q[i][2]] = o[q[i][2]]
    BY <2>1, Zenon
  <2> QED
    BY <2>2, QueueFits, Zenon
<1>5. FunctorsFit(o, t)
  <2>1. \A i \in 1..Len(t) : Fits(o, t[i])
    BY <1>1, <1>2, <1>3, Zenon
  <2>2. ASSUME NEW i \in 1..Len(t), NEW j \in 1..Len(t), t[i][2] = t[j][2]
        PROVE  i + 1 = j + 1
    <3>1. r[i + 1][2] = r[j + 1][2]
      BY <1>1, <2>2
    <3> QED
      BY <1>2, <1>3, <3>1, Zenon
  <2>3. \A i, j \in 1..Len(t) : i + 1 = j + 1 => i = j
    OBVIOUS
  <2> QED
    BY <2>1, <2>2, <2>3, Zenon DEF FunctorsFit
<1>6. \A i \in 1..Len(t) : t[i][2] # c
  <2> TAKE i \in 1..Len(t)
  <2>1. r[i + 1][2] # r[1][2]
    BY <1>2, <1>3, Zenon
  <2> QED
    BY <1>1, <2>1
<1>7. FunctorsFit(n, t)
  <2>1. \A i \in 1..Len(t) : t[i][2] \in Channels
    BY <1>1, QueueChannels, Zenon
  <2>2. \A i \in 1..Len(t) : n[t[i][2]] = o[t[i][2]]
    BY <1>6, <2>1, Zenon
  <2> QED
    BY <1>1, <1>5, <2>2, QueueFits, Zenon
<1>8. Apart(q, t)
  <2>1. ASSUME NEW i \in 1..Len(q), NEW j \in 1..Len(t)
        PROVE  q[i][2] # t[j][2]
    <3>1. q[i][2] # r[j + 1][2]
      BY <1>2, <1>3, Zenon
    <3> QED
      BY <1>1, <3>1
  <2> QED
    BY <2>1, Zenon DEF Apart
<1>9. ASSUME NEW d, d # c, IsQueued(d, r)
      PROVE  IsQueued(d, t)
  <2>1. PICK i \in 1..Len(r) : r[i][2] = d
    BY <1>9, Zenon DEF IsQueued
  <2>2. i # 1
    BY <1>9, <2>1
  <2>3. i - 1 \in 1..Len(t) /\ (i - 1) + 1 = i
    BY <1>1, <2>2
  <2>4. t[i - 1] = r[i]
    BY <1>1, <2>3, Zenon
  <2> QED
    BY <2>1, <2>3, <2>4, Zenon DEF IsQueued
<1> QED
  BY <1>1, <1>4, <1>7, <1>8, <1>9, Zenon DEF t

\* The first functor runs, for a Channel that is not down after it.
LEMMA QueueShrinks ==
  ASSUME TypeOK, QueuesFit, functors # <<>>, functors' = Tail(functors), pending' = pending,
         phase = "functors", phase' = phase, NEW c \in Channels, c = functors[1][2],
         NEW state \in Owners, state \notin {"closed", "down"}, owner' = [owner EXCEPT ![c] = state],
         OthersKept(poller, poller', c)
  PROVE  QueuesFit' /\ functors' \in Seq(Functors)
<1>1. /\ pending \in Seq(Functors) /\ functors \in Seq(Functors) /\ owner \in [Channels -> Owners]
      /\ FunctorsFit(owner, pending) /\ FunctorsFit(owner, functors) /\ Apart(pending, functors)
      /\ DownIsQueued(poller, owner, pending, functors)
  BY Zenon DEF TypeOK, QueuesFit
<1>2. owner'[c] = state /\ \A d \in Channels : d # c => owner'[d] = owner[d]
  BY <1>1
<1>3. /\ functors' \in Seq(Functors) /\ FunctorsFit(owner', pending) /\ FunctorsFit(owner', functors')
      /\ Apart(pending, functors')
      /\ \A d : d # c /\ IsQueued(d, functors) => IsQueued(d, functors')
  BY <1>1, <1>2, TailFits, Zenon
<1>4. \A d \in Connections : owner'[d] \in {"closed", "down"} =>
        d # c /\ owner'[d] = owner[d] /\ poller'.index_[d] = poller.index_[d]
  <2>1. \A d \in Connections : d \in Channels
    BY DEF Channels
  <2> QED
    BY <1>2, <2>1, Zenon DEF OthersKept
<1>5. DownIsQueued(poller', owner', pending, functors')
  BY <1>1, <1>3, <1>4, Zenon DEF DownIsQueued
<1>6. QueuesFit'
  BY <1>3, <1>5, Zenon DEF QueuesFit
<1> QED
  BY <1>3, <1>6

\* doPendingFunctors() runs one functor.
LEMMA RunFunctorKeeps ==
  ASSUME PollerSound, RunFunctor
  PROVE  PollerSound'
<1> DEFINE c == functors[1][2]
<1>1. /\ TypeOK /\ TablesSound(poller, owner, open) /\ Kinds /\ QueuesFit /\ ActiveFits
      /\ owner \in [Channels -> Owners] /\ condition \in [Fds -> Conditions] /\ next \in Nat \ {0}
      /\ pending \in Seq(Functors) /\ functors \in Seq(Functors)
  BY Parts, Zenon
<1>2. /\ phase = "functors" /\ functors # <<>> /\ functors' = Tail(functors) /\ pending' = pending
      /\ open' = open /\ condition' = condition /\ UNCHANGED loopVars /\ phase' = phase
  BY Zenon DEF RunFunctor, loopVars
<1>3. 1 \in 1..Len(functors)
  BY <1>1, <1>2
<1>4. Fits(owner, functors[1])
  BY <1>1, <1>3, Zenon DEF QueuesFit, FunctorsFit
<1>5. ASSUME NEW state \in {"up", "removed", "free"}, c \in Channels,
             owner' = [owner EXCEPT ![c] = state],
             TablesSound(poller', owner', open), OthersKept(poller, poller', c), Kinds'
      PROVE  PollerSound'
  <2>1. state \in Owners /\ state \notin {"closed", "down"}
    BY DEF Owners
  <2>2. QueuesFit' /\ functors' \in Seq(Functors)
    BY <1>1, <1>2, <1>5, <2>1, QueueShrinks, Zenon
  <2>3. ActiveFits'
    BY <1>1, <1>2, ActiveStays
  <2> QED
    BY <1>1, <1>2, <1>5, <2>2, <2>3, StepKeeps, Zenon DEF loopVars
<1>6. CASE functors[1][1] = "connectEstablished" /\ ConnectEstablished(c)
  <2>1. c \in Connections /\ c \in Channels /\ owner[c] = "made"
    BY <1>4, <1>6 DEF Fits, Channels
  <2>2. poller' = Update(poller, c, kReadEvent) /\ owner' = [owner EXCEPT ![c] = "up"]
    BY <1>6, Zenon DEF ConnectEstablished
  <2>3. Holder(owner, c) /\ Registered([owner EXCEPT ![c] = "up"], c) /\ kReadEvent \in SUBSET Events
        /\ "up" \in Owners
    BY <1>1, <2>1 DEF Holder, Registered, Events, Owners
  <2> HIDE DEF c
  <2>4. TablesSound(Update(poller, c, kReadEvent), [owner EXCEPT ![c] = "up"], open)
    BY <1>1, <2>1, <2>3, UpdateKeeps, Zenon
  <2>5. OthersKept(poller, poller', c)
    BY <1>1, <2>1, <2>2, <2>3, UpdateEffect, Zenon
  <2>6. Kinds'
    BY <1>1, <2>1, <2>2, PollerAssumption, Zenon DEF Kinds, Channels
  <2> QED
    BY <1>5, <2>1, <2>2, <2>4, <2>5, <2>6, Zenon
<1>7. CASE functors[1][1] = "connectDestroyed" /\ ConnectDestroyed(c)
  <2>1. c \in Connections /\ c \in Channels /\ owner[c] = "down"
    BY <1>4, <1>7, Zenon DEF Fits, Channels
  <2> HIDE DEF c
  <2>2. /\ TablesSound(poller', owner', open) /\ OthersKept(poller, poller', c) /\ Kinds'
        /\ owner' = [owner EXCEPT ![c] = "removed"]
    BY <1>2, <1>7, <2>1, ConnectDestroyedSound
  <2> QED
    BY <1>5, <2>1, <2>2
<1>8. CASE functors[1][1] = "resetChannel" /\ ResetChannel(c)
  <2>1. c \in Connectors /\ c \in Channels /\ owner[c] = "down" /\ c \notin Connections
    BY <1>4, <1>8, PollerAssumption, Zenon DEF Fits, Channels
  <2>2. poller' = Destruct(poller, c) /\ owner' = [owner EXCEPT ![c] = "free"]
    BY <1>8 DEF ResetChannel
  <2>3. ~Registered(owner, c)
    BY <2>1 DEF Registered
  <2> HIDE DEF c
  <2>4. TablesSound(Destruct(poller, c), [owner EXCEPT ![c] = "free"], open) /\ OthersKept(poller, Destruct(poller, c), c)
    BY <1>1, <2>1, <2>3, DestructKeeps, Zenon
  <2>5. Kinds'
    BY <1>1, <2>1, <2>2 DEF Kinds, Channels
  <2> QED
    BY <1>5, <2>1, <2>2, <2>4, <2>5
<1> QED
  BY <1>6, <1>7, <1>8 DEF RunFunctor

\* The end of the dispatch, and the swap.
LEMMA DispatchDoneKeeps ==
  ASSUME PollerSound, DispatchDone
  PROVE  PollerSound'
<1>1. TypeOK /\ TablesSound(poller, owner, open) /\ Kinds /\ QueuesFit /\ ActiveFits
  BY Parts
<1>2. /\ phase = "dispatch" /\ phase' = "functors" /\ active' = <<>> /\ next' = 1
      /\ functors' = pending /\ pending' = <<>>
      /\ poller' = poller /\ owner' = owner /\ open' = open /\ condition' = condition /\ size' = size
  BY DEF DispatchDone
<1>3. functors = <<>> /\ <<>> \in Seq(Functors) /\ <<>> \in Seq(Active)
  BY <1>1, <1>2 DEF QueuesFit
<1>4. TypeOK'
  <2>1. poller' \in Tables /\ owner' \in [Channels -> Owners] /\ open' \in SUBSET Fds
        /\ condition' \in [Fds -> Conditions] /\ size' \in Nat \ {0} /\ functors' \in Seq(Functors)
    BY <1>1, <1>2, Zenon DEF TypeOK
  <2> QED
    BY <1>2, <1>3, <2>1 DEF TypeOK
<1>5. \A c \in Connections : owner[c] = "down" => IsQueued(c, pending)
  BY <1>1, <1>3, EmptyFits, Zenon DEF QueuesFit, DownIsQueued
<1>6. DownIsQueued(poller, owner, pending', functors')
  BY <1>1, <1>2, <1>5, Zenon DEF QueuesFit, DownIsQueued
<1>7. FunctorsFit(owner, pending') /\ FunctorsFit(owner, functors') /\ Apart(pending', functors')
  BY <1>1, <1>2, EmptyFits, Zenon DEF QueuesFit
<1>8. QueuesFit'
  BY <1>2, <1>6, <1>7, Zenon DEF QueuesFit
<1>9. ActiveFits'
  BY <1>2, EmptyFits, Zenon DEF ActiveFits
<1> QED
  BY <1>1, <1>2, <1>4, <1>8, <1>9, PartsStay, Zenon DEF PollerSound

\* doPendingFunctors() is over.
LEMMA FunctorsDoneKeeps ==
  ASSUME PollerSound, FunctorsDone
  PROVE  PollerSound'
<1>1. TypeOK /\ TablesSound(poller, owner, open) /\ Kinds /\ QueuesFit /\ ActiveFits
  BY Parts
<1>2. /\ phase = "functors" /\ functors = <<>> /\ phase' = "poll"
      /\ UNCHANGED <<poller, owner, open, condition, size, active, next, pending, functors>>
  BY DEF FunctorsDone
<1>3. TypeOK'
  BY <1>1, <1>2 DEF TypeOK
<1>4. QueuesFit'
  BY <1>1, <1>2, Zenon DEF QueuesFit
<1>5. ActiveFits'
  BY <1>1, <1>2 DEF ActiveFits
<1> QED
  BY <1>1, <1>2, <1>3, <1>4, <1>5, PartsStay, Zenon DEF PollerSound

\* What epoll_wait() may report when it is called: the Channel of every entry is
\* registered under that descriptor, and it is not closed.
LEMMA ReportedIsRegistered ==
  ASSUME PollerSound, phase = "poll", NEW f \in Fds, Report(f) # {}
  PROVE  LET c == poller.epoll[f].ptr
         IN  /\ c \in Channels /\ poller.fd[c] = f /\ poller.channels_[f] = c
             /\ owner[c] \in {"up", "closing", "connecting"}
             /\ poller.index_[c] = kAdded
             /\ Report(f) \in SUBSET (Events \cup Unasked)
<1>1. TablesSound(poller, owner, open) /\ Kinds /\ QueuesFit /\ poller \in Tables
      /\ owner \in [Channels -> Owners]
  BY Parts DEF TypeOK
<1>2. poller.epoll[f] # None
  BY DEF Report
<1> DEFINE c == poller.channels_[f]
<1>3. c # None /\ c \in Channels
  <2>1. c # None
    BY <1>1, <1>2, Zenon DEF TablesSound
  <2>2. c \in Channels \cup {None}
    BY <1>1 DEF Tables
  <2> QED
    BY <2>1, <2>2
<1>4. Registered(owner, c) /\ poller.fd[c] = f
  BY <1>1, <1>3, Zenon DEF TablesSound
<1> HIDE DEF c
<1>5. poller.index_[c] = kAdded /\ poller.epoll[f] = [ptr |-> c, mask |-> poller.events_[c]]
  BY <1>1, <1>2, <1>3, <1>4, Zenon DEF TablesSound
<1>6. poller.epoll[f].ptr = c /\ poller.epoll[f].mask = poller.events_[c] /\ poller.events_[c] \in SUBSET Events
  BY <1>1, <1>3, <1>5 DEF Tables
<1>7. owner[c] \in {"up", "closing", "connecting"}
  <2>1. ~(c \in Connections /\ owner[c] \in {"closed", "down"})
    BY <1>1, <1>5, Zenon DEF QueuesFit, DownIsQueued
  <2>2. c \notin Connections => owner[c] # "closed"
    BY <1>1, <1>3 DEF Kinds, Channels
  <2> QED
    BY <1>4, <2>1, <2>2 DEF Registered
<1>8. Report(f) \in SUBSET (Events \cup Unasked)
  BY <1>2, <1>6 DEF Report
<1> QED
  BY <1>3, <1>4, <1>5, <1>6, <1>7, <1>8, Zenon DEF c

\* An array is a sequence.
LEMMA ArraySequence ==
  ASSUME NEW S, NEW n \in Nat, NEW g \in [1..n -> S]
  PROVE  g \in Seq(S) /\ Len(g) = n
OBVIOUS

\* EPollPoller::poll().
LEMMA PollKeeps ==
  ASSUME PollerSound, Poll
  PROVE  PollerSound'
<1> DEFINE ready == {f \in Fds : Report(f) # {}}
           n == IF Cardinality(ready) < size THEN Cardinality(ready) ELSE size
<1>1. /\ TypeOK /\ TablesSound(poller, owner, open) /\ Kinds /\ QueuesFit
      /\ poller \in Tables /\ size \in Nat \ {0}
  BY Parts DEF TypeOK
<1>2. /\ phase = "poll" /\ size' = EventListSize(n) /\ next' = 1 /\ phase' = "dispatch"
      /\ owner' = owner /\ open' = open /\ condition' = condition /\ pending' = pending /\ functors' = functors
  BY Zenon DEF Poll
<1>3. PICK s \in [1..n -> ready] :
        /\ \A i, j \in 1..n : s[i] = s[j] => i = j
        /\ active' = [i \in 1..n |-> [ptr |-> poller.epoll[s[i]].ptr, revents_ |-> Report(s[i])]]
        /\ poller' = Expect(poller, \A i \in 1..n :
                               LET c == poller.epoll[s[i]].ptr
                               IN  owner[c] # "free" /\ poller.channels_[poller.fd[c]] = c,
                            "fillActiveChannels")
  BY Zenon DEF Poll
<1>4. n \in Nat
  <2>1. Cardinality(ready) \in Nat
    BY PollerAssumption
  <2> QED
    BY <1>1, <2>1
<1>5. \A i \in 1..n : s[i] \in Fds /\ Report(s[i]) # {}
  BY <1>3, Zenon
<1> HIDE DEF ready, n
<1>6. \A i \in 1..n : LET c == poller.epoll[s[i]].ptr
                      IN  /\ c \in Channels /\ poller.fd[c] = s[i] /\ poller.channels_[s[i]] = c
                          /\ owner[c] \in {"up", "closing", "connecting"} /\ poller.index_[c] = kAdded
                          /\ Report(s[i]) \in SUBSET (Events \cup Unasked)
  BY <1>2, <1>5, ReportedIsRegistered, Zenon
<1>7. poller' = poller
  <2> DEFINE known == \A i \in 1..n :
                        LET c == poller.epoll[s[i]].ptr
                        IN  owner[c] # "free" /\ poller.channels_[poller.fd[c]] = c
  <2>1. known
    BY <1>6, Zenon
  <2>2. poller' = Expect(poller, known, "fillActiveChannels")
    BY <1>3, Zenon
  <2> HIDE DEF known
  <2> QED
    BY <1>1, <2>1, <2>2, Expected, Zenon DEF Assertions
<1>8. \A i \in 1..n : [ptr |-> poller.epoll[s[i]].ptr, revents_ |-> Report(s[i])] \in Active
  BY <1>6 DEF Active
<1>9. active' \in Seq(Active) /\ Len(active') = n
  <2>1. active' \in [1..n -> Active]
    <3> DEFINE e(i) == [ptr |-> poller.epoll[s[i]].ptr, revents_ |-> Report(s[i])]
    <3>1. active' = [i \in 1..n |-> e(i)]
      BY <1>3, Zenon
    <3>2. \A i \in 1..n : e(i) \in Active
      BY <1>8
    <3> HIDE DEF e
    <3> QED
      BY <3>1, <3>2
  <2> QED
    BY <1>4, <2>1, ArraySequence
<1>10. \A i \in 1..n : active'[i].ptr = poller.epoll[s[i]].ptr
  BY <1>3, Zenon
<1>11. size' \in Nat \ {0}
  BY <1>1, <1>2, <1>4 DEF EventListSize
<1>12. TypeOK'
  <2>1. poller' \in Tables /\ owner' \in [Channels -> Owners] /\ open' \subseteq Fds
        /\ condition' \in [Fds -> Conditions] /\ pending' \in Seq(Functors) /\ functors' \in Seq(Functors)
    BY <1>1, <1>2, <1>7, Zenon DEF TypeOK
  <2>2. phase' \in {"poll", "dispatch", "functors"} /\ next' \in Nat \ {0}
    BY <1>2
  <2> QED
    BY <1>9, <1>11, <2>1, <2>2, Zenon DEF TypeOK
<1>13. \A i \in 1..n : /\ owner[active'[i].ptr] \in {"up", "closing", "connecting"}
                       /\ poller.index_[active'[i].ptr] = kAdded
                       /\ poller.fd[active'[i].ptr] = s[i]
  BY <1>6, <1>10, Zenon
<1>14. \A i, j \in 1..n : active'[i].ptr = active'[j].ptr => i = j
  <2>1. \A i, j \in 1..n : s[i] = s[j] => i = j
    BY <1>3, Zenon
  <2> TAKE i, j \in 1..n
  <2> HAVE active'[i].ptr = active'[j].ptr
  <2>2. s[i] = s[j]
    BY <1>13
  <2> QED
    BY <2>1, <2>2
<1>15. ActiveFits'
  <2>1. ActiveSound(poller, owner, active', 1)
    BY <1>9, <1>13, <1>14, Zenon DEF ActiveSound
  <2> QED
    BY <1>2, <1>7, <2>1, Zenon DEF ActiveFits
<1>16. QueuesFit'
  <2>1. functors = <<>>
    BY <1>1, <1>2, Zenon DEF QueuesFit
  <2> QED
    BY <1>1, <1>2, <1>7, <2>1, Zenon DEF QueuesFit
<1> QED
  BY <1>1, <1>2, <1>7, <1>12, <1>15, <1>16, PartsStay, Zenon DEF PollerSound

(***************************************************************************)
(* The theorems.                                                           *)
(***************************************************************************)

\* No Channel exists at first.
LEMMA PollerInitSound == PollerInit => PollerSound
<1> SUFFICES ASSUME PollerInit PROVE PollerSound
  OBVIOUS
<1>1. TypeOK
  <2>1. poller \in Tables
    BY Zenon DEF PollerInit, Tables
  <2> QED
    BY <2>1, PollerAssumption DEF PollerInit, TypeOK, Owners, Conditions
<1>2. TablesSound(poller, owner, open)
  <2>1. poller \in Tables /\ owner \in [Channels -> Owners] /\ open \in SUBSET Fds /\ poller.failed = "none"
    BY <1>1, Zenon DEF TypeOK, PollerInit
  <2>2. \A c \in Channels : owner[c] = "free" /\ ~Holder(owner, c) /\ ~Registered(owner, c)
    BY DEF PollerInit, Holder, Registered
  <2>3. \A c \in Channels : poller.index_[c] = kNew /\ poller.addedToLoop_[c] = FALSE
    BY DEF PollerInit
  <2>4. \A f \in Fds : poller.channels_[f] = None /\ poller.epoll[f] = None
    BY Zenon DEF PollerInit
  <2> QED
    BY <2>1, <2>2, <2>3, <2>4, Zenon DEF TablesSound
<1>3. Kinds
  BY DEF PollerInit, Kinds, Channels
<1>4. QueuesFit /\ ActiveFits
  <2>1. pending = <<>> /\ functors = <<>> /\ active = <<>>
    BY Zenon DEF PollerInit
  <2>2. \A c \in Connections : owner[c] \notin {"closed", "down"}
    BY DEF PollerInit, Channels
  <2>3. DownIsQueued(poller, owner, pending, functors)
    BY <2>2, Zenon DEF DownIsQueued
  <2> QED
    BY <2>1, <2>3, EmptyFits, Zenon DEF QueuesFit, ActiveFits
<1> QED
  BY <1>1, <1>2, <1>3, <1>4 DEF PollerSound

\* Every step keeps the invariant.
LEMMA PollerStepSound ==
  ASSUME Usage, PollerSound, [PollerNext]_pollerVars
  PROVE  PollerSound'
<1>1. CASE LoopStep
  BY <1>1, PollKeeps, ConnectionClosesKeeps, ConnectionHandlesKeeps, AttemptFailsKeeps,
     AttemptSucceedsKeeps, DispatchDoneKeeps, RunFunctorKeeps, FunctorsDoneKeeps
     DEF LoopStep, Handler
<1>2. CASE OtherStep
  BY <1>2, ChangeKeeps, AcceptKeeps, ConnectKeeps, ShutdownKeeps, InterestKeeps, ForceCloseKeeps,
     RemoveConnectionKeeps, ServerGoneKeeps, ReleaseKeeps, StopInLoopKeeps
     DEF OtherStep
<1>3. CASE UNCHANGED pollerVars
  <2>1. UNCHANGED <<poller, owner, open, condition, size, phase, active, next, pending, functors>>
    BY <1>3 DEF pollerVars, loopVars
  <2>2. TypeOK'
    BY <2>1, Zenon DEF PollerSound, TypeOK
  <2> QED
    BY <2>1, <2>2, PartsStay, Zenon DEF PollerSound
<1> QED
  BY <1>1, <1>2, <1>3 DEF PollerNext

\* The invariant says what the properties say.
LEMMA SoundSays ==
  ASSUME PollerSound
  PROVE  NoAssertFails /\ TableAgrees /\ ListedIsRegistered
<1>1. TypeOK /\ TablesSound(poller, owner, open) /\ ActiveFits /\ poller \in Tables
      /\ owner \in [Channels -> Owners] /\ active \in Seq(Active) /\ next \in Nat \ {0}
  BY Parts DEF TypeOK
<1>2. NoAssertFails
  BY <1>1, Zenon DEF TablesSound, NoAssertFails
<1>3. ASSUME NEW f \in Fds, poller.epoll[f] # None
      PROVE  LET c == poller.epoll[f].ptr
             IN  /\ f \in open /\ owner[c] # "free"
                 /\ poller.fd[c] = f /\ poller.channels_[f] = c
                 /\ poller.index_[c] = kAdded /\ poller.events_[c] = poller.epoll[f].mask
  <2> DEFINE d == poller.channels_[f]
  <2>1. d # None /\ d \in Channels
    <3>1. d # None
      BY <1>1, <1>3, Zenon DEF TablesSound
    <3>2. d \in Channels \cup {None}
      BY <1>1, Zenon DEF Tables
    <3> QED
      BY <3>1, <3>2
  <2>2. Registered(owner, d) /\ poller.fd[d] = f
    BY <1>1, <2>1, Zenon DEF TablesSound
  <2> HIDE DEF d
  <2>3. poller.index_[d] = kAdded /\ poller.epoll[f] = [ptr |-> d, mask |-> poller.events_[d]]
    BY <1>1, <1>3, <2>1, <2>2, Zenon DEF TablesSound
  <2>4. poller.epoll[f].ptr = d /\ poller.epoll[f].mask = poller.events_[d]
    BY <2>3
  <2>5. Holder(owner, d) /\ owner[d] # "free"
    BY <2>2 DEF Registered, Holder
  <2>6. f \in open
    BY <1>1, <2>1, <2>2, <2>5, Zenon DEF TablesSound
  <2> QED
    BY <2>2, <2>3, <2>4, <2>5, <2>6, Zenon DEF d
<1>4. ASSUME NEW c \in Channels, owner[c] # "free", poller.index_[c] = kAdded
      PROVE  poller.epoll[poller.fd[c]] # None /\ poller.epoll[poller.fd[c]].ptr = c
  <2>1. Registered(owner, c)
    BY <1>1, <1>4, Zenon DEF TablesSound, kNew, kAdded
  <2>2. poller.epoll[poller.fd[c]] = [ptr |-> c, mask |-> poller.events_[c]] /\ poller.events_[c] \in SUBSET Events
    <3>1. poller.events_[c] \in SUBSET Events
      BY <1>1 DEF Tables
    <3>2. poller.epoll[poller.fd[c]] = [ptr |-> c, mask |-> poller.events_[c]]
      BY <1>1, <1>4, <2>1, Zenon DEF TablesSound, kAdded, kDeleted
    <3> QED
      BY <3>1, <3>2, Zenon
  <2>3. None # [ptr |-> c, mask |-> poller.events_[c]]
    BY <2>2, PollerAssumption, Zenon DEF Channels, Events
  <2> QED
    BY <2>2, <2>3
<1>5. TableAgrees
  BY <1>3, <1>4, Zenon DEF TableAgrees
<1>6. ListedIsRegistered
  <2> SUFFICES ASSUME NEW i \in next..Len(active)
               PROVE  LET c == active[i].ptr
                      IN  owner[c] \in {"up", "closing", "connecting"} /\ poller.channels_[poller.fd[c]] = c
    BY DEF ListedIsRegistered
  <2>1. i \in 1..Len(active) /\ i >= next
    BY <1>1
  <2>2. active[i].ptr \in Channels /\ owner[active[i].ptr] \in {"up", "closing", "connecting"}
    BY <1>1, <2>1, ActivePtr, Zenon DEF ActiveFits, ActiveSound
  <2>3. Registered(owner, active[i].ptr)
    BY <2>2 DEF Registered
  <2> QED
    BY <1>1, <2>2, <2>3, Zenon DEF TablesSound
<1> QED
  BY <1>2, <1>5, <1>6, Zenon

\* However descriptors and the memory of Channels are used again, no assertion of
\* EPollPoller::updateChannel(), removeChannel() and fillActiveChannels(), of
\* EventLoop::removeChannel(), of ~Channel and of handleClose() fails.
THEOREM AssertionsHold == ASSUME Usage PROVE PollerSpec => []NoAssertFails
<1>1. PollerInit => PollerSound
  BY PollerInitSound
<1>2. PollerSound /\ [PollerNext]_pollerVars => PollerSound'
  BY PollerStepSound
<1>3. PollerSound => NoAssertFails
  BY SoundSays
<1> QED
  BY <1>1, <1>2, <1>3, PTL DEF PollerSpec

\* The kernel's table, channels_ and the Channels always agree, and loop() calls no
\* handler of a Channel that was removed or destroyed since the poll.
THEOREM TablesStayAgreed == ASSUME Usage PROVE PollerSpec => []TablesAgree
<1>1. PollerInit => PollerSound
  BY PollerInitSound
<1>2. PollerSound /\ [PollerNext]_pollerVars => PollerSound'
  BY PollerStepSound
<1>3. PollerSound => TablesAgree
  BY SoundSays DEF TablesAgree
<1> QED
  BY <1>1, <1>2, <1>3, PTL DEF PollerSpec

(***************************************************************************)
(* ThreadPool, for any number of workers and callers, any capacity, and    *)
(* tasks that may themselves call run().                                   *)
(***************************************************************************)

\* Workers on their way to take() a task, and threads on their way to add one.
Takers == {w \in woken \cap Workers : pc[w] = "take"}
Runners == {t \in woken \cap PoolUsers : InUserCode(t)}

\* Where a thread may be when it waits or was just woken: in run() a worker is
\* inside its task, in take() it is not.  Without workers nobody waits.
WaitsWhere ==
  /\ Workers = {} => onNotFull = {}
  /\ \A t \in onNotFull \cap Workers : pc[t] = "task"
  /\ \A t \in woken \cap Workers : pc[t] \in {"take", "task"}

\* What becomes of a count when its set gains or loses one thread.
LEMMA Counts ==
  ASSUME NEW S, NEW T, IsFiniteSet(S), IsFiniteSet(T)
  PROVE  /\ Cardinality(S) \in Nat /\ Cardinality(T) \in Nat
         /\ S \subseteq T => Cardinality(S) <= Cardinality(T)
         /\ \A u : S \ {u} \subseteq T => Cardinality(S) - 1 <= Cardinality(T)
         /\ \A u \in T \ S : S \subseteq T => Cardinality(S) + 1 <= Cardinality(T)
<1>1. Cardinality(S) \in Nat /\ Cardinality(T) \in Nat
  BY FS_CardinalityType
<1>2. S \subseteq T => Cardinality(S) <= Cardinality(T)
  BY FS_Subset
<1>3. ASSUME NEW u, S \ {u} \subseteq T PROVE Cardinality(S) - 1 <= Cardinality(T)
  <2>1. IsFiniteSet(S \ {u}) /\ Cardinality(S \ {u}) <= Cardinality(T)
    BY <1>3, FS_Subset
  <2>2. CASE u \in S
    <3>1. Cardinality(S \ {u}) = Cardinality(S) - 1
      BY <2>2, FS_RemoveElement
    <3> QED  BY <3>1, <2>1
  <2>3. CASE u \notin S
    <3>1. S \ {u} = S  BY <2>3
    <3> QED  BY <3>1, <2>1, <1>1
  <2> QED  BY <2>2, <2>3
<1>4. ASSUME NEW u \in T \ S, S \subseteq T PROVE Cardinality(S) + 1 <= Cardinality(T)
  <2>1. IsFiniteSet(S \cup {u}) /\ Cardinality(S \cup {u}) = Cardinality(S) + 1
    BY <1>4, FS_AddElement
  <2>2. S \cup {u} \subseteq T  BY <1>4
  <2>3. Cardinality(S \cup {u}) <= Cardinality(T)
    BY <2>1, <2>2, FS_Subset
  <2> QED  BY <2>1, <2>3
<1> QED  BY <1>1, <1>2, <1>3, <1>4

\* Both counts are counts of finite sets.
LEMMA FinitelyMany ==
  ASSUME NEW S, S \subseteq PoolUsers \cup Workers
  PROVE  IsFiniteSet(S)
<1>1. IsFiniteSet(Callers \cup Workers)
  BY PoolAssumption, FS_Union, Zenon
<1>2. S \subseteq Callers \cup Workers
  BY DEF PoolUsers
<1> QED  BY <1>1, <1>2, FS_Subset

\* Types and places of waiting threads; the queue's numbers are not needed.
Places ==
  /\ running_ \in BOOLEAN /\ queue_ \in Seq(Nat) /\ started \in Seq(Nat)
  /\ pc \in [Workers -> {"test", "take", "task", "exit"}]
  /\ onNotEmpty \subseteq {w \in Workers : pc[w] = "take"}
  /\ onNotFull \subseteq PoolUsers
  /\ woken \subseteq (PoolUsers \cup Workers) \ (onNotEmpty \cup onNotFull)
  /\ WaitsWhere

\* A thread waits or was woken only where the code can have put it.
LEMMA PlacesHold == TaskPoolSpec => []Places
<1>1. TaskPoolInit => Places
  BY DEF TaskPoolInit, Places, WaitsWhere
<1>2. Places /\ [TaskPoolNext]_taskPoolVars => Places'
  <2> SUFFICES ASSUME Places, [TaskPoolNext]_taskPoolVars PROVE Places'
    OBVIOUS
  <2> USE DEF Places, WaitsWhere
  <2>1. ASSUME NEW t \in PoolUsers, RunWaits(t) PROVE Places'
    BY <2>1, Zenon DEF RunWaits, AtRun, InUserCode, InTask
  <2>2. ASSUME NEW t \in PoolUsers, Run(t) PROVE Places'
    <3>1. queue_' \in Seq(Nat) /\ started' \in Seq(Nat)
      <4> DEFINE n == Len(started) + Len(queue_) + 1
      <4>1. queue_ \in Seq(Nat) /\ started \in Seq(Nat) /\ n \in Nat
        BY DEF Places
      <4>2. \/ queue_' = queue_ /\ started' = Append(started, n)
            \/ started' = started /\ queue_' = Append(queue_, n)
        BY <2>2, Zenon DEF Run
      <4> HIDE DEF n
      <4>3. CASE queue_' = queue_ /\ started' = Append(started, n)
        BY <4>1, <4>3
      <4>4. CASE started' = started /\ queue_' = Append(queue_, n)
        BY <4>1, <4>4
      <4> QED  BY <4>2, <4>3, <4>4
    <3>2. UNCHANGED <<running_, pc, onNotFull>>
      BY <2>2, Zenon DEF Run
    <3>3. CASE onNotEmpty = {}
      BY <2>2, <3>1, <3>2, <3>3, Zenon DEF Run, Notified
    <3>4. CASE onNotEmpty # {}
      <4>1. PICK u \in onNotEmpty : onNotEmpty' = onNotEmpty \ {u} /\ woken' = (woken \ {t}) \cup {u}
        BY <2>2, <3>4, Zenon DEF Run, Notified
      <4>2. u \in Workers /\ pc[u] = "take" /\ u \notin onNotFull
        OBVIOUS
      <4> QED  BY <3>1, <3>2, <4>1, <4>2
    <3> QED  BY <3>3, <3>4
  <2>3. ASSUME NEW w \in Workers, TestRunning(w) PROVE Places'
    BY <2>3 DEF TestRunning
  <2>4. ASSUME NEW w \in Workers, TakeWaits(w) PROVE Places'
    BY <2>4 DEF TakeWaits, AtTake
  <2>5. ASSUME NEW w \in Workers, TakeTask(w) PROVE Places'
    <3>1. queue_' \in Seq(Nat) /\ started' \in Seq(Nat)
      BY <2>5 DEF TakeTask
    <3>2. /\ UNCHANGED <<running_, onNotEmpty>> /\ pc' = [pc EXCEPT ![w] = "task"]
          /\ pc[w] = "take" /\ w \notin onNotEmpty
      BY <2>5 DEF TakeTask, AtTake
    <3>3. CASE onNotFull' = onNotFull /\ woken' = woken \ {w}
      BY <3>1, <3>2, <3>3
    <3>4. CASE \E u \in onNotFull : onNotFull' = onNotFull \ {u} /\ woken' = (woken \ {w}) \cup {u}
      BY <3>1, <3>2, <3>4
    <3> QED  BY <2>5, <3>3, <3>4, Zenon DEF TakeTask, Notified
  <2>6. ASSUME NEW w \in Workers, TakeNothing(w) PROVE Places'
    BY <2>6 DEF TakeNothing, AtTake
  <2>7. ASSUME NEW w \in Workers, FinishTask(w) PROVE Places'
    BY <2>7 DEF FinishTask
  <2>8. ASSUME NEW t \in PoolUsers \cup Workers, SpuriousWakeup(t) PROVE Places'
    BY <2>8 DEF SpuriousWakeup
  <2>9. CASE Stop
    BY <2>9, Zenon DEF Stop
  <2>10. CASE Joined
    BY <2>10 DEF Joined
  <2>11. CASE UNCHANGED taskPoolVars
    BY <2>11 DEF taskPoolVars
  <2> QED
    BY <2>1, <2>2, <2>3, <2>4, <2>5, <2>6, <2>7, <2>8, <2>9, <2>10, <2>11, Zenon DEF TaskPoolNext, WorkerStep
<1> QED  BY <1>1, <1>2, PTL DEF TaskPoolSpec

\* run()'s notify() and stop()'s notifyAll() reach every worker they must: while a
\* worker waits in take(), the pool runs and enough others are on their way.
THEOREM NoWorkerIsForgotten == TaskPoolSpec => []NoWorkerForgotten
<1>1. TaskPoolInit => NoWorkerForgotten
  BY DEF TaskPoolInit, NoWorkerForgotten
<1>2. Places /\ NoWorkerForgotten /\ [TaskPoolNext]_taskPoolVars => NoWorkerForgotten'
  <2> SUFFICES ASSUME Places, NoWorkerForgotten, [TaskPoolNext]_taskPoolVars, onNotEmpty' # {}
               PROVE  running_' /\ Len(queue_') <= Cardinality(Takers')
    BY DEF NoWorkerForgotten, Takers
  <2>1. Len(queue_) \in Nat /\ (onNotEmpty # {} => running_ /\ Len(queue_) <= Cardinality(Takers))
    BY DEF Places, NoWorkerForgotten, Takers
  <2>2. IsFiniteSet(Takers) /\ IsFiniteSet(Takers')
    BY FinitelyMany DEF Takers
  <2>3. /\ Cardinality(Takers) \in Nat /\ Cardinality(Takers') \in Nat
        /\ Takers \subseteq Takers' => Cardinality(Takers) <= Cardinality(Takers')
        /\ \A u : Takers \ {u} \subseteq Takers' => Cardinality(Takers) - 1 <= Cardinality(Takers')
        /\ \A u \in Takers' \ Takers :
             Takers \subseteq Takers' => Cardinality(Takers) + 1 <= Cardinality(Takers')
    BY <2>2, Counts
  <2>4. ASSUME UNCHANGED <<running_, queue_>>, onNotEmpty # {}, Takers \subseteq Takers'
        PROVE  running_' /\ Len(queue_') <= Cardinality(Takers')
    BY <2>1, <2>3, <2>4
  <2>5. ASSUME NEW t \in PoolUsers, RunWaits(t)
        PROVE  running_' /\ Len(queue_') <= Cardinality(Takers')
    BY <2>4, <2>5 DEF RunWaits, AtRun, InUserCode, InTask, Takers
  <2>6. ASSUME NEW t \in PoolUsers, Run(t)
        PROVE  running_' /\ Len(queue_') <= Cardinality(Takers')
    <3>1. onNotEmpty # {}
      BY <2>6 DEF Run, Notified
    <3>2. PICK u \in onNotEmpty : woken' = (woken \ {t}) \cup {u}
      BY <3>1, <2>6 DEF Run, Notified
    <3>3. pc' = pc /\ running_' = running_ /\ (t \in Workers => pc[t] = "task")
      BY <2>6 DEF Run, AtRun, InUserCode, InTask
    <3>4. u \in Takers' \ Takers /\ Takers \subseteq Takers'
      BY <3>2, <3>3 DEF Takers, Places
    <3>5. Workers # {}
      BY DEF Places
    <3>6. queue_' = Append(queue_, Len(started) + Len(queue_) + 1)
      BY <2>6, <3>5, Zenon DEF Run
    <3>7. Len(queue_') = Len(queue_) + 1
      BY <3>6 DEF Places
    <3> QED  BY <3>1, <3>3, <3>4, <3>7, <2>1, <2>3
  <2>7. ASSUME NEW w \in Workers, TestRunning(w)
        PROVE  running_' /\ Len(queue_') <= Cardinality(Takers')
    BY <2>4, <2>7 DEF TestRunning, Takers, Places, WaitsWhere
  <2>8. ASSUME NEW w \in Workers, TakeWaits(w)
        PROVE  running_' /\ Len(queue_') <= Cardinality(Takers')
    <3>1. queue_' = <<>> /\ running_'
      BY <2>8 DEF TakeWaits, NoTask
    <3> QED  BY <3>1, <2>3
  <2>9. ASSUME NEW w \in Workers, TakeTask(w)
        PROVE  running_' /\ Len(queue_') <= Cardinality(Takers')
    <3>1. Takers \ {w} \subseteq Takers'
      BY <2>9 DEF TakeTask, Notified, Takers, Places
    <3>2. queue_ # <<>> /\ queue_' = Tail(queue_) /\ UNCHANGED <<running_, onNotEmpty>>
      BY <2>9 DEF TakeTask
    <3>3. Len(queue_') = Len(queue_) - 1
      BY <3>2 DEF Places
    <3>4. Cardinality(Takers) - 1 <= Cardinality(Takers')
      BY <3>1, <2>3
    <3> QED  BY <3>2, <3>3, <3>4, <2>1, <2>3
  <2>10. ASSUME NEW w \in Workers, TakeNothing(w)
         PROVE  running_' /\ Len(queue_') <= Cardinality(Takers')
    BY <2>1, <2>10, Zenon DEF TakeNothing, NoTask
  <2>11. ASSUME NEW w \in Workers, FinishTask(w)
         PROVE  running_' /\ Len(queue_') <= Cardinality(Takers')
    BY <2>4, <2>11 DEF FinishTask, Takers, Places
  <2>12. ASSUME NEW t \in PoolUsers \cup Workers, SpuriousWakeup(t)
         PROVE  running_' /\ Len(queue_') <= Cardinality(Takers')
    BY <2>4, <2>12 DEF SpuriousWakeup, Takers
  <2>13. CASE Stop
    BY <2>13, Zenon DEF Stop
  <2>14. CASE Joined
    BY <2>4, <2>14, Zenon DEF Joined, Takers
  <2>15. CASE UNCHANGED taskPoolVars
    BY <2>4, <2>15, Zenon DEF taskPoolVars, Takers
  <2> QED
    BY <2>5, <2>6, <2>7, <2>8, <2>9, <2>10, <2>11, <2>12, <2>13, <2>14, <2>15, Zenon DEF TaskPoolNext, WorkerStep
<1> QED  BY <1>1, <1>2, PlacesHold, PTL DEF TaskPoolSpec

\* take()'s notify() reaches every caller it must: while a thread waits in run() for
\* room, as many others as there are free places are on their way.
THEOREM NoCallerIsForgotten == TaskPoolSpec => []NoCallerForgotten
<1>1. TaskPoolInit => NoCallerForgotten
  BY DEF TaskPoolInit, NoCallerForgotten
<1>2. Places /\ NoCallerForgotten /\ [TaskPoolNext]_taskPoolVars => NoCallerForgotten'
  <2> SUFFICES ASSUME Places, NoCallerForgotten, [TaskPoolNext]_taskPoolVars, onNotFull' # {}
               PROVE  maxQueueSize_ - Len(queue_') <= Cardinality(Runners')
    BY DEF NoCallerForgotten, Runners
  <2>1. /\ Len(queue_) \in Nat /\ maxQueueSize_ \in Nat
        /\ onNotFull # {} => maxQueueSize_ - Len(queue_) <= Cardinality(Runners)
    BY PoolAssumption DEF Places, NoCallerForgotten, Runners
  <2>2. IsFiniteSet(Runners) /\ IsFiniteSet(Runners')
    BY FinitelyMany, Zenon DEF Runners
  <2>3. /\ Cardinality(Runners) \in Nat /\ Cardinality(Runners') \in Nat
        /\ Runners \subseteq Runners' => Cardinality(Runners) <= Cardinality(Runners')
        /\ \A u : Runners \ {u} \subseteq Runners' => Cardinality(Runners) - 1 <= Cardinality(Runners')
        /\ \A u \in Runners' \ Runners :
             Runners \subseteq Runners' => Cardinality(Runners) + 1 <= Cardinality(Runners')
    BY <2>2, Counts
  <2> USE DEF InUserCode, InTask
  <2>4. ASSUME queue_' = queue_, onNotFull # {}, Runners \subseteq Runners'
        PROVE  maxQueueSize_ - Len(queue_') <= Cardinality(Runners')
    BY <2>1, <2>3, <2>4
  <2>5. ASSUME NEW t \in PoolUsers, RunWaits(t)
        PROVE  maxQueueSize_ - Len(queue_') <= Cardinality(Runners')
    <3>1. queue_' = queue_ /\ Len(queue_) >= maxQueueSize_
      BY <2>5 DEF RunWaits, isFull
    <3> QED  BY <3>1, <2>1, <2>3
  <2>6. ASSUME NEW t \in PoolUsers, Run(t)
        PROVE  maxQueueSize_ - Len(queue_') <= Cardinality(Runners')
    <3>1. Runners \ {t} \subseteq Runners'
      BY <2>6 DEF Run, Notified, Runners
    <3>2. onNotFull' = onNotFull
      BY <2>6 DEF Run
    <3>3. Workers # {}
      BY <3>2 DEF Places, WaitsWhere
    <3>4. queue_' = Append(queue_, Len(started) + Len(queue_) + 1)
      BY <2>6, <3>3, Zenon DEF Run
    <3>5. Len(queue_') = Len(queue_) + 1
      BY <3>4 DEF Places
    <3>6. Cardinality(Runners) - 1 <= Cardinality(Runners')
      BY <3>1, <2>3, Zenon
    <3> QED  BY <3>2, <3>5, <3>6, <2>1, <2>3
  <2>7. ASSUME NEW w \in Workers, TestRunning(w)
        PROVE  maxQueueSize_ - Len(queue_') <= Cardinality(Runners')
    BY <2>4, <2>7, Zenon DEF TestRunning, Runners, Places, WaitsWhere
  <2>8. ASSUME NEW w \in Workers, TakeWaits(w)
        PROVE  maxQueueSize_ - Len(queue_') <= Cardinality(Runners')
    BY <2>4, <2>8 DEF TakeWaits, AtTake, Runners
  <2>9. ASSUME NEW w \in Workers, TakeTask(w)
        PROVE  maxQueueSize_ - Len(queue_') <= Cardinality(Runners')
    <3>1. queue_ # <<>> /\ queue_' = Tail(queue_) /\ pc' = [pc EXCEPT ![w] = "task"] /\ pc[w] = "take"
      BY <2>9 DEF TakeTask, AtTake
    <3>2. Len(queue_') = Len(queue_) - 1 /\ Len(queue_') \in Nat
      BY <3>1 DEF Places
    <3>3. CASE maxQueueSize_ = 0
      BY <3>2, <3>3, <2>3
    <3>4. CASE maxQueueSize_ > 0
      <4>1. onNotFull # {}
        BY <2>9, <3>4 DEF TakeTask, Notified
      <4>2. PICK u \in onNotFull : woken' = (woken \ {w}) \cup {u}
        BY <2>9, <3>4, <4>1 DEF TakeTask, Notified
      <4>3. u \in PoolUsers /\ u \notin woken /\ (u \in Workers => pc[u] = "task")
        BY DEF Places, WaitsWhere
      <4>4. u \in Runners' \ Runners /\ Runners \subseteq Runners'
        BY <3>1, <4>2, <4>3, Zenon DEF Runners, Places
      <4> QED  BY <4>1, <4>4, <3>2, <2>1, <2>3
    <3> QED  BY <3>3, <3>4, <2>1
  <2>10. ASSUME NEW w \in Workers, TakeNothing(w)
         PROVE  maxQueueSize_ - Len(queue_') <= Cardinality(Runners')
    BY <2>4, <2>10, Zenon DEF TakeNothing, AtTake, Runners, Places
  <2>11. ASSUME NEW w \in Workers, FinishTask(w)
         PROVE  maxQueueSize_ - Len(queue_') <= Cardinality(Runners')
    BY <2>4, <2>11 DEF FinishTask, Runners, Places
  <2>12. ASSUME NEW t \in PoolUsers \cup Workers, SpuriousWakeup(t)
         PROVE  maxQueueSize_ - Len(queue_') <= Cardinality(Runners')
    BY <2>4, <2>12, Zenon DEF SpuriousWakeup, Runners
  <2>13. CASE Stop
    BY <2>4, <2>13 DEF Stop, Runners
  <2>14. CASE Joined
    BY <2>4, <2>14 DEF Joined, Runners
  <2>15. CASE UNCHANGED taskPoolVars
    BY <2>4, <2>15 DEF taskPoolVars, Runners
  <2> QED
    BY <2>5, <2>6, <2>7, <2>8, <2>9, <2>10, <2>11, <2>12, <2>13, <2>14, <2>15, Zenon DEF TaskPoolNext, WorkerStep
<1> QED  BY <1>1, <1>2, PlacesHold, PTL DEF TaskPoolSpec

\* No notification of the pool is lost: the two theorems above together.
THEOREM PoolForgetsNobody == TaskPoolSpec => []NoWaiterForgotten
BY NoWorkerIsForgotten, NoCallerIsForgotten, PTL DEF NoWaiterForgotten

------------------------------------------------------------------------------

=============================================================================
