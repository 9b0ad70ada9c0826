------------------------- MODULE TcpConnectionProofs -------------------------
(***************************************************************************)
(* Proofs about TcpConnection, for any number of threads, messages, bytes, *)
(* functors and usages.                                                    *)
(***************************************************************************)
EXTENDS TcpConnection, TLAPS

\* The time that the provers may take for a step.
USE SMTT(20), ZenonT(20)

(***************************************************************************)
(* Byte sequences.                                                         *)
(***************************************************************************)

LEMMA ConcatAssociates ==
  ASSUME NEW s \in Bytes, NEW t \in Bytes, NEW u \in Bytes
  PROVE  (s \o t) \o u = s \o (t \o u)
  BY DEF Bytes

LEMMA SameElements ==
  ASSUME NEW S, NEW s \in Seq(S), NEW t \in Seq(S), Len(s) = Len(t), \A i \in 1..Len(s) : s[i] = t[i]
  PROVE  s = t
  OBVIOUS

LEMMA SeqOf ==
  ASSUME NEW S, NEW s \in Seq(S)
  PROVE  /\ <<>> \in Seq(S)
         /\ \A f \in S : Append(s, f) \in Seq(S)
         /\ s # <<>> => Tail(s) \in Seq(S) /\ Head(s) \in S
  OBVIOUS

LEMMA SeqInto ==
  ASSUME NEW S, NEW T, NEW s \in Seq(S), \A i \in 1..Len(s) : s[i] \in T
  PROVE  s \in Seq(T)
  OBVIOUS

LEMMA SplitInTwo ==
  ASSUME NEW S, NEW s \in Seq(S), NEW n \in 0..Len(s)
  PROVE  /\ SubSeq(s, 1, n) \in Seq(S)
         /\ SubSeq(s, n + 1, Len(s)) \in Seq(S)
         /\ SubSeq(s, 1, n) \o SubSeq(s, n + 1, Len(s)) = s
         /\ SubSeq(s, n + 1, Len(s)) = <<>> <=> n = Len(s)
<1> DEFINE a == SubSeq(s, 1, n)
           b == SubSeq(s, n + 1, Len(s))
<1>1. a \in Seq(S) /\ Len(a) = n /\ \A i \in 1..n : a[i] = s[i]
  OBVIOUS
<1>2. b \in Seq(S) /\ Len(b) = Len(s) - n /\ \A i \in 1..Len(b) : b[i] = s[n + i]
  OBVIOUS
<1>3. a \o b = s
  <2> HIDE DEF a, b
  <2>1. a \o b \in Seq(S) /\ Len(a \o b) = Len(s)
    BY <1>1, <1>2, SMTT(60)
  <2>2. ASSUME NEW i \in 1..Len(s)
        PROVE  (a \o b)[i] = s[i]
    <3>1. CASE i <= n
      BY <1>1, <1>2, <3>1
    <3>2. CASE i > n
      <4>1. i - n \in 1..Len(b) /\ n + (i - n) = i
        BY <1>2, <3>2
      <4>2. (a \o b)[i] = b[i - n]
        BY <1>1, <1>2, <3>2, <4>1
      <4> QED BY <1>2, <4>1, <4>2
    <3>3. i <= n \/ i > n
      OBVIOUS
    <3> QED BY <3>1, <3>2, <3>3, Zenon
  <2> QED BY <2>1, <2>2, SameElements, Zenon
<1>4. b = <<>> <=> n = Len(s)
  <2> HIDE DEF b
  <2>1. b = <<>> <=> Len(b) = 0
    BY <1>2
  <2> QED BY <1>2, <2>1
<1> QED BY <1>1, <1>2, <1>3, <1>4, Zenon

\* The empty sequence, and what is put together from two.
LEMMA Concats ==
  /\ <<>> \in Bytes
  /\ \A s \in Bytes : s \o <<>> = s /\ <<>> \o s = s
  /\ \A s, t \in Bytes : s \o t \in Bytes /\ (s \o t # <<>> <=> s # <<>> \/ t # <<>>)
  BY DEF Bytes

LEMMA PrefixOfLonger ==
  ASSUME NEW s \in Bytes, NEW t \in Bytes, NEW u \in Bytes, IsPrefix(s, t)
  PROVE  IsPrefix(s, t \o u)
  BY DEF IsPrefix, Bytes

LEMMA PrefixOfItself ==
  ASSUME NEW s \in Bytes
  PROVE  IsPrefix(s, s)
  BY DEF IsPrefix, Bytes

(***************************************************************************)
(* The Channel's operators.                                                *)
(***************************************************************************)

\* update() of a Channel leaves it with the events asked for.
LEMMA UpdateDoes ==
  ASSUME NEW c \in ChannelType, NEW ev \in SUBSET (kReadEvent \cup kWriteEvent)
  PROVE  update(c, ev) \in ChannelType /\ update(c, ev).events_ = ev
<1> DEFINE d == [c EXCEPT !.events_ = ev, !.addedToLoop_ = TRUE]
<1>1. d \in ChannelType /\ d.events_ = ev
  BY Zenon DEF ChannelType
<1>2. ASSUME NEW op, NEW e \in ChannelType
      PROVE  epoll_ctl(op, e) \in ChannelType /\ epoll_ctl(op, e).events_ = e.events_
  BY Zenon DEF epoll_ctl, ChannelType
<1>3. [d EXCEPT !.index_ = kAdded] \in ChannelType /\ [d EXCEPT !.index_ = kAdded].events_ = ev
  BY <1>1, Zenon DEF ChannelType
<1>4. epoll_ctl("DEL", d) \in ChannelType /\ epoll_ctl("DEL", d).events_ = ev
  BY <1>1, <1>2, Zenon
<1>5. /\ [epoll_ctl("DEL", d) EXCEPT !.index_ = kDeleted] \in ChannelType
      /\ [epoll_ctl("DEL", d) EXCEPT !.index_ = kDeleted].events_ = ev
  BY <1>4 DEF ChannelType
<1>6. d.index_ \in {kNew, kDeleted} \/ d.index_ = kAdded
  BY <1>1 DEF ChannelType
<1>7. updateChannel(d) \in ChannelType /\ updateChannel(d).events_ = ev
  BY <1>1, <1>2, <1>3, <1>5, <1>6, Zenon DEF updateChannel, kNew, kAdded, kDeleted
<1> QED BY <1>7 DEF update

LEMMA RemoveDoes ==
  ASSUME NEW c \in ChannelType
  PROVE  remove(c) \in ChannelType /\ remove(c).events_ = c.events_
<1>1. epoll_ctl("DEL", c) \in ChannelType /\ epoll_ctl("DEL", c).events_ = c.events_
  BY Zenon DEF epoll_ctl, ChannelType
<1> QED BY <1>1, Zenon DEF remove, ChannelType

\* What the Channel's operators do to the events it asks for.
LEMMA ChannelDoes ==
  ASSUME NEW c \in ChannelType
  PROVE  /\ {enableReading(c), disableReading(c), enableWriting(c), disableWriting(c), disableAll(c), remove(c)}
              \subseteq ChannelType
         /\ isReading(enableReading(c)) /\ (isWriting(enableReading(c)) <=> isWriting(c))
         /\ ~isReading(disableReading(c)) /\ (isWriting(disableReading(c)) <=> isWriting(c))
         /\ isWriting(enableWriting(c)) /\ (isReading(enableWriting(c)) <=> isReading(c))
         /\ ~isWriting(disableWriting(c)) /\ (isReading(disableWriting(c)) <=> isReading(c))
         /\ ~isWriting(disableAll(c)) /\ ~isReading(disableAll(c))
         /\ (isWriting(remove(c)) <=> isWriting(c)) /\ (isReading(remove(c)) <=> isReading(c))
<1>1. c.events_ \in SUBSET (kReadEvent \cup kWriteEvent)
  BY DEF ChannelType
<1>2. /\ enableReading(c) \in ChannelType /\ enableReading(c).events_ = c.events_ \cup kReadEvent
      /\ disableReading(c) \in ChannelType /\ disableReading(c).events_ = c.events_ \ kReadEvent
      /\ enableWriting(c) \in ChannelType /\ enableWriting(c).events_ = c.events_ \cup kWriteEvent
      /\ disableWriting(c) \in ChannelType /\ disableWriting(c).events_ = c.events_ \ kWriteEvent
      /\ disableAll(c) \in ChannelType /\ disableAll(c).events_ = {}
  BY <1>1, UpdateDoes DEF enableReading, disableReading, enableWriting, disableWriting, disableAll
<1>3. remove(c) \in ChannelType /\ remove(c).events_ = c.events_
  BY RemoveDoes
<1> QED BY <1>2, <1>3 DEF isReading, isWriting, kReadEvent, kWriteEvent

(***************************************************************************)
(* The stream of bytes, however the connection is used.                    *)
(***************************************************************************)

Typed ==
  /\ use \in Usages
  /\ channel_ \in ChannelType
  /\ outputBuffer_ \in Bytes /\ wire \in Bytes /\ accepted \in Bytes
  /\ pending \in Seq(FunctorType) /\ batch \in Seq(FunctorType)
  /\ sent \in [Users -> 0..MaxSends]
  /\ pc \in [Threads -> [op : Ops \cup {"none"}, at : {"idle", "set", "queue"}]]
  /\ \A t \in Threads :
       /\ pc[t].op \in use.threads \cup {"none"}
       /\ pc[t].op = "send" => sent[t] < MaxSends
       /\ pc[t].at = "set" => pc[t].op \in Closing
       /\ pc[t].at = "queue" => pc[t].op \in use.threads

\* EPOLLOUT is watched only while there is output.  As long as there is output, or
\* there may be, nothing that was accepted is missing.
OutputInv ==
  /\ isWriting(channel_) => outputBuffer_ # <<>>
  /\ outputBuffer_ # <<>> => wire \o outputBuffer_ = accepted
  /\ StreamIntact

StreamInv == Typed /\ OutputInv

LEMMA EmptyData == Functor("callback") \in FunctorType /\ \A fn \in SharedFns \cup RawFns : Functor(fn) \in FunctorType
<1>1. <<>> \in Bytes
  BY DEF Bytes
<1> QED BY <1>1 DEF Functor, FunctorType, SharedFns

\* sendInLoop(): the bytes that it takes follow those that were there, and
\* EPOLLOUT is watched if some of them wait.
LEMMA SendDoes ==
  ASSUME StreamInv, NEW data \in Bytes, NEW calls \in Seq(FunctorType), sendInLoop(data, calls),
         fin' = fin, peer' = peer
  PROVE  /\ channel_' \in ChannelType
         /\ outputBuffer_' \in Bytes /\ wire' \in Bytes /\ accepted' \in Bytes
         /\ pending' \in Seq(FunctorType)
         /\ OutputInv'
         /\ isReading(channel_') <=> isReading(channel_)
         /\ (outputBuffer_ # <<>> => isWriting(channel_)) => (outputBuffer_' # <<>> => isWriting(channel_'))
         /\ \E took \in Bytes : wire' = wire \o took
         /\ state_ # "kDisconnected" => accepted' = accepted \o data
         /\ state_ = "kDisconnected" => accepted' = accepted
<1>0. /\ channel_ \in ChannelType
      /\ outputBuffer_ \in Bytes /\ wire \in Bytes /\ accepted \in Bytes /\ pending \in Seq(FunctorType)
  BY DEF StreamInv, Typed
<1>1. CASE state_ = "kDisconnected"
  <2>1. UNCHANGED <<channel_, outputBuffer_, wire, accepted>> /\ pending' = calls
    BY <1>1 DEF sendInLoop
  <2>2. OutputInv'
    BY <2>1 DEF StreamInv, OutputInv, StreamIntact, CanWrite
  <2>3. <<>> \in Bytes /\ wire' = wire \o <<>>
    BY <1>0, <2>1, Concats
  <2> QED BY <1>0, <1>1, <2>1, <2>2, <2>3, Zenon
<1>2. CASE state_ # "kDisconnected"
  <2>1. PICK n \in IF WritesDirectly THEN Accepts(data) ELSE {0} :
          LET faultError == WritesDirectly /\ ~CanWrite
              rest == IF faultError THEN <<>> ELSE SubSeq(data, n + 1, Len(data))
              oldLen == Len(outputBuffer_)
          IN  /\ accepted' = accepted \o data
              /\ wire' = wire \o SubSeq(data, 1, n)
              /\ outputBuffer_' = outputBuffer_ \o rest
              /\ channel_' = IF rest # <<>> /\ ~isWriting(channel_) THEN enableWriting(channel_) ELSE channel_
              /\ pending' = IF \/ n = Len(data)
                               \/ rest # <<>> /\ oldLen < highWaterMark_ /\ oldLen + Len(rest) >= highWaterMark_
                            THEN Append(calls, Functor("callback"))
                            ELSE calls
    BY <1>2, Zenon DEF sendInLoop
  <2>2. n \in 0..Len(data) /\ (~CanWrite => n = 0)
    BY <2>1 DEF Accepts, Bytes
  <2> DEFINE took == SubSeq(data, 1, n)
             left == SubSeq(data, n + 1, Len(data))
             rest == IF WritesDirectly /\ ~CanWrite THEN <<>> ELSE left
  <2>3. took \in Bytes /\ left \in Bytes /\ took \o left = data
    BY <2>2, SplitInTwo, Zenon DEF Bytes
  <2>4. n = 0 => took = <<>> /\ left = data
    BY <2>2 DEF Bytes
  <2>5. /\ accepted' = accepted \o data
        /\ wire' = wire \o took
        /\ outputBuffer_' = outputBuffer_ \o rest
        /\ channel_' = IF rest # <<>> /\ ~isWriting(channel_) THEN enableWriting(channel_) ELSE channel_
        /\ pending' \in {calls, Append(calls, Functor("callback"))}
    BY <2>1
  <2> HIDE DEF took, left
  <2>6. rest \in Bytes
    BY <2>3, Concats
  <2>7. ~WritesDirectly => outputBuffer_ # <<>> /\ n = 0
    BY <2>1 DEF WritesDirectly, StreamInv, OutputInv
  <2>8. WritesDirectly => outputBuffer_ = <<>>
    BY DEF WritesDirectly
  <2> HIDE DEF rest
  <2>9. outputBuffer_' \in Bytes /\ wire' \in Bytes /\ accepted' \in Bytes
    BY <1>0, <2>3, <2>5, <2>6, Concats
  <2>10. pending' \in Seq(FunctorType)
    <3>1. Append(calls, Functor("callback")) \in Seq(FunctorType)
      BY EmptyData
    <3> QED BY <2>5, <3>1, Zenon
  <2>11. channel_' \in ChannelType
    BY <1>0, <2>5, ChannelDoes
  <2>12. (outputBuffer_' # <<>> <=> outputBuffer_ # <<>> \/ rest # <<>>)
    BY <1>0, <2>5, <2>6, Concats
  <2>13. /\ isWriting(channel_') <=> isWriting(channel_) \/ rest # <<>>
         /\ isReading(channel_') <=> isReading(channel_)
    BY <1>0, <2>5, ChannelDoes
  <2>14. isWriting(channel_') => outputBuffer_' # <<>>
    BY <2>12, <2>13 DEF StreamInv, OutputInv
  <2>15. CanWrite \/ outputBuffer_ # <<>> => wire \o outputBuffer_ = accepted
    BY DEF StreamInv, OutputInv, StreamIntact
  <2>16. ASSUME WritesDirectly /\ ~CanWrite PROVE OutputInv'
    <3>1. rest = <<>> /\ took = <<>> /\ outputBuffer_ = <<>>
      BY <2>2, <2>4, <2>8, <2>16 DEF rest
    <3>2. outputBuffer_' = <<>> /\ wire' = wire
      BY <1>0, <2>5, <3>1, Concats
    <3>3. IsPrefix(wire \o outputBuffer_, accepted)
      BY DEF StreamInv, OutputInv, StreamIntact
    <3>4. wire \o outputBuffer_ \in Bytes
      BY <1>0, Concats
    <3>5. IsPrefix(wire \o outputBuffer_, accepted \o data)
      BY <1>0, <3>3, <3>4, PrefixOfLonger
    <3>6. ~CanWrite'
      BY <2>16 DEF CanWrite
    <3> QED BY <2>5, <2>14, <3>1, <3>2, <3>5, <3>6 DEF OutputInv, StreamIntact, isWriting
  <2>17. ASSUME ~(WritesDirectly /\ ~CanWrite) PROVE OutputInv'
    <3>1. rest = left /\ wire \o outputBuffer_ = accepted
      BY <2>7, <2>15, <2>17 DEF rest
    <3>2. outputBuffer_ = <<>> \/ took = <<>>
      BY <2>4, <2>7, <2>8
    <3>3. (wire \o took) \o (outputBuffer_ \o rest) = (wire \o outputBuffer_) \o (took \o rest)
      <4>1. CASE outputBuffer_ = <<>>
        <5>1. outputBuffer_ \o rest = rest /\ wire \o outputBuffer_ = wire
          BY <1>0, <2>6, <4>1, Concats
        <5>2. (wire \o took) \o rest = wire \o (took \o rest)
          <6>1. took \in Bytes /\ wire \in Bytes /\ rest \in Bytes
            BY <1>0, <2>3, <2>6
          <6> QED BY <6>1, ConcatAssociates
        <5> QED BY <5>1, <5>2
      <4>2. CASE took = <<>>
        <5>1. wire \o took = wire /\ took \o rest = rest
          BY <1>0, <2>6, <4>2, Concats
        <5>2. (wire \o outputBuffer_) \o rest = wire \o (outputBuffer_ \o rest)
          BY <1>0, <2>6, ConcatAssociates, Zenon
        <5> QED BY <5>1, <5>2
      <4> QED BY <3>2, <4>1, <4>2
    <3>4. wire' \o outputBuffer_' = accepted'
      BY <2>3, <2>5, <3>1, <3>3
    <3>5. IsPrefix(wire' \o outputBuffer_', accepted')
      BY <2>9, <3>4, PrefixOfItself
    <3> QED BY <2>14, <3>4, <3>5 DEF OutputInv, StreamIntact, isWriting
  <2>18. OutputInv'
    BY <2>16, <2>17
  <2> QED BY <1>2, <2>3, <2>5, <2>9, <2>10, <2>11, <2>12, <2>13, <2>18, Zenon
<1> QED BY <1>1, <1>2

LEMMA StreamInitially == Init => StreamInv
<1> SUFFICES ASSUME Init PROVE StreamInv
  OBVIOUS
<1>1. channel_ \in ChannelType /\ ~isWriting(channel_)
  BY DEF Init, NewChannel, ChannelType, isWriting, kWriteEvent
<1>2. outputBuffer_ \in Bytes /\ wire \in Bytes /\ accepted \in Bytes
  BY Concats DEF Init
<1>3. pending \in Seq(FunctorType) /\ batch \in Seq(FunctorType)
  BY EmptyData DEF Init, SharedFns
<1>4. /\ sent \in [Users -> 0..MaxSends]
      /\ pc \in [Threads -> [op : Ops \cup {"none"}, at : {"idle", "set", "queue"}]]
      /\ \A t \in Threads : pc[t] = [op |-> "none", at |-> "idle"]
  BY ConnectionAssumption DEF Init, Idle
<1>5. Typed
  BY <1>1, <1>2, <1>3, <1>4 DEF Typed, Init
<1>6. wire \o outputBuffer_ = accepted /\ outputBuffer_ = <<>>
  BY Concats DEF Init
<1>7. IsPrefix(wire \o outputBuffer_, accepted)
  BY <1>2, <1>6, PrefixOfItself
<1> QED BY <1>1, <1>5, <1>6, <1>7 DEF StreamInv, OutputInv, StreamIntact

\* Steps that do not touch the stream, the Channel, the queues or the threads.
StreamStill ==
  UNCHANGED <<use, channel_, outputBuffer_, wire, accepted, sent, pc, fin, peer, pending, batch>>

LEMMA MessageIsBytes ==
  ASSUME Typed, NEW u \in Users, sent[u] < MaxSends
  PROVE  Message(u) \in Bytes /\ \A i \in 1..MsgLen : Contains(Message(u), <<u, sent[u] + 1, i>>)
<1>1. sent[u] + 1 \in 1..MaxSends /\ MsgLen \in Nat
  BY ConnectionAssumption DEF Typed
<1>2. \A i \in 1..MsgLen : <<u, sent[u] + 1, i>> \in Users \X (1..MaxSends) \X (1..MsgLen)
  BY <1>1
<1>3. Message(u) \in Bytes /\ Len(Message(u)) = MsgLen
  BY <1>1, <1>2 DEF Message, Bytes
<1>4. \A i \in 1..MsgLen : i \in 1..Len(Message(u)) /\ Message(u)[i] = <<u, sent[u] + 1, i>>
  BY <1>1, <1>3 DEF Message
<1> QED BY <1>3, <1>4, Zenon DEF Contains

\* handleWrite(): what the kernel takes moves from the head of outputBuffer_ to the wire.
LEMMA WriteDoes ==
  ASSUME StreamInv, HandleWrite
  PROVE  /\ channel_' \in ChannelType
         /\ outputBuffer_' \in Bytes /\ wire' \in Bytes /\ accepted' = accepted
         /\ pending' \in Seq(FunctorType)
         /\ wire' \o outputBuffer_' = wire \o outputBuffer_
         /\ isWriting(channel_') => isWriting(channel_) /\ outputBuffer_' # <<>>
         /\ isWriting(channel_) /\ outputBuffer_' # <<>> => isWriting(channel_')
         /\ outputBuffer_' # <<>> => outputBuffer_ # <<>>
         /\ ~isWriting(channel_) => UNCHANGED <<channel_, outputBuffer_>>
         /\ isReading(channel_') <=> isReading(channel_)
         /\ \E took \in Bytes : wire' = wire \o took
         /\ fin => fin'
         /\ fin' => fin \/ (state_ = "kDisconnecting" /\ outputBuffer_' = <<>> /\ CanWrite)
<1>0. channel_ \in ChannelType /\ outputBuffer_ \in Bytes /\ wire \in Bytes /\ pending \in Seq(FunctorType)
  BY DEF StreamInv, Typed
<1>1. accepted' = accepted
  BY DEF HandleWrite, lifeVars
<1>2. CASE UNCHANGED <<wire, outputBuffer_, channel_, pending, fin>>
  <2>1. <<>> \in Bytes /\ wire' = wire \o <<>>
    BY <1>0, <1>2, Concats
  <2>2. isWriting(channel_') => outputBuffer_' # <<>>
    BY <1>2 DEF StreamInv, OutputInv
  <2> QED BY <1>0, <1>1, <1>2, <2>1, <2>2, Zenon
<1>3. CASE ~(UNCHANGED <<wire, outputBuffer_, channel_, pending, fin>>)
  <2>1. isWriting(channel_) /\ \E n \in Accepts(outputBuffer_) : n > 0 /\ Written(n)
    BY <1>3 DEF HandleWrite
  <2>2. PICK n \in Accepts(outputBuffer_) : n > 0 /\ Written(n)
    BY <2>1
  <2>3. n \in 0..Len(outputBuffer_) /\ CanWrite
    BY <1>0, <2>2 DEF Accepts, Bytes
  <2> DEFINE took == SubSeq(outputBuffer_, 1, n)
             left == SubSeq(outputBuffer_, n + 1, Len(outputBuffer_))
  <2>4. took \in Bytes /\ left \in Bytes /\ took \o left = outputBuffer_
    BY <1>0, <2>3, SplitInTwo, Zenon DEF Bytes
  <2>5. /\ wire' = wire \o took
        /\ outputBuffer_' = left
        /\ channel_' = IF left = <<>> THEN disableWriting(channel_) ELSE channel_
        /\ pending' \in {pending, Append(pending, Functor("callback"))}
        /\ fin => fin'
        /\ fin' => fin \/ (state_ = "kDisconnecting" /\ left = <<>>)
    BY <2>2, Zenon DEF Written, shutdownInLoop
  <2> HIDE DEF took, left
  <2>6. wire' \in Bytes /\ (left # <<>> => outputBuffer_ # <<>>)
    BY <1>0, <2>4, <2>5, Concats
  <2>7. (wire \o took) \o left = wire \o (took \o left)
    <3>1. took \in Bytes /\ left \in Bytes
      BY <2>4
    <3> QED BY <1>0, <3>1, ConcatAssociates
  <2>8. wire' \o outputBuffer_' = wire \o outputBuffer_
    BY <2>4, <2>5, <2>7
  <2>9. /\ channel_' \in ChannelType
        /\ isWriting(channel_') <=> left # <<>>
        /\ isReading(channel_') <=> isReading(channel_)
    BY <1>0, <2>1, <2>5, ChannelDoes
  <2>10. pending' \in Seq(FunctorType)
    <3>1. Append(pending, Functor("callback")) \in Seq(FunctorType)
      BY <1>0, EmptyData
    <3> QED BY <1>0, <2>5, <3>1, Zenon
  <2> QED BY <1>1, <2>1, <2>3, <2>4, <2>5, <2>6, <2>8, <2>9, <2>10, Zenon
<1> QED BY <1>2, <1>3, Zenon

LEMMA ThreadStream ==
  ASSUME StreamInv, NEW t \in Threads,
         SetDisconnecting(t) \/ QueueFunctor(t) \/ \E op \in use.threads : Call(t, op)
  PROVE  StreamInv'
<1> USE DEF connVars, kernelVars, loopVars, userVars, serverVars, lifeVars
<1>1. /\ UNCHANGED <<use, channel_, outputBuffer_, wire, accepted, fin, peer, batch>>
      /\ pending' = pending \/ QueueFunctor(t)
  BY DEF SetDisconnecting, QueueFunctor, Call
<1>2. OutputInv'
  BY <1>1, Zenon DEF StreamInv, OutputInv, StreamIntact, CanWrite
<1>3. use \in Usage /\ use.threads \subseteq Ops
  BY ConnectionAssumption DEF StreamInv, Typed, Usage
<1>4. pc \in [Threads -> [op : Ops \cup {"none"}, at : {"idle", "set", "queue"}]] /\ sent \in [Users -> 0..MaxSends]
  BY DEF StreamInv, Typed
<1>5. pending' \in Seq(FunctorType)
  <2>1. CASE pending' = pending
    BY <2>1 DEF StreamInv, Typed
  <2>2. CASE QueueFunctor(t)
    <3>1. pending' = Append(pending, FunctorOf(t)) /\ pc[t].at = "queue"
      BY <2>2, Zenon DEF QueueFunctor
    <3>2. pc[t].op \in use.threads /\ (pc[t].op = "send" => sent[t] < MaxSends)
      BY <3>1 DEF StreamInv, Typed
    <3>3. pc[t].op \in {"send", "shutdown", "forceClose", "startRead", "stopRead"}
      BY <3>2, ConnectionAssumption DEF StreamInv, Typed, Usage, Ops, Closing
    <3>4. CASE pc[t].op = "send"
      <4>1. Message(t) \in Bytes
        BY <3>2, <3>4, MessageIsBytes, Zenon DEF StreamInv, Users
      <4>2. FunctorOf(t) = [fn |-> "sendInLoop", data |-> Message(t)]
        BY <3>4 DEF FunctorOf
      <4>3. FunctorOf(t) \in FunctorType
        BY <4>1, <4>2 DEF FunctorType, RawFns
      <4>4. pending \in Seq(FunctorType)
        BY Zenon DEF StreamInv, Typed
      <4> QED BY <3>1, <4>3, <4>4, SeqOf, Zenon
    <3>5. CASE pc[t].op # "send"
      <4>1. \E fn \in SharedFns \cup RawFns : FunctorOf(t) = Functor(fn)
        BY <3>3, <3>5 DEF FunctorOf, SharedFns, RawFns
      <4>2. FunctorOf(t) \in FunctorType
        BY <4>1, EmptyData
      <4> QED BY <3>1, <4>2 DEF StreamInv, Typed
    <3> QED BY <3>4, <3>5
  <2> QED BY <1>1, <2>1, <2>2
<1>6. Typed'
  <2>1. CASE SetDisconnecting(t)
    <3>1. sent' = sent /\ pc' = [pc EXCEPT ![t].at = "queue"] /\ pc[t].at = "set"
      BY <2>1 DEF SetDisconnecting
    <3>2. pc[t].op \in Closing /\ pc[t].op \in use.threads
      BY <3>1 DEF StreamInv, Typed, Closing
    <3>3. /\ pc' \in [Threads -> [op : Ops \cup {"none"}, at : {"idle", "set", "queue"}]]
          /\ pc'[t].op = pc[t].op /\ pc'[t].at = "queue"
          /\ \A v \in Threads : v # t => pc'[v] = pc[v]
      BY <1>4, <3>1
    <3> QED BY <1>1, <1>5, <3>1, <3>2, <3>3 DEF StreamInv, Typed
  <2>2. CASE QueueFunctor(t)
    <3>1. /\ sent' = IF pc[t].op = "send" THEN [sent EXCEPT ![t] = @ + 1] ELSE sent
          /\ pc' = [pc EXCEPT ![t] = Idle]
      BY <2>2 DEF QueueFunctor
    <3>2. pc[t].op = "send" => sent[t] < MaxSends
      BY DEF StreamInv, Typed
    <3>3. sent' \in [Users -> 0..MaxSends] /\ \A v \in Threads : v # t => sent'[v] = sent[v]
      BY <1>4, <3>1, <3>2, ConnectionAssumption DEF Users
    <3>4. /\ pc' \in [Threads -> [op : Ops \cup {"none"}, at : {"idle", "set", "queue"}]]
          /\ pc'[t].op = "none" /\ pc'[t].at = "idle"
          /\ \A v \in Threads : v # t => pc'[v] = pc[v]
      BY <1>4, <3>1, Zenon DEF Idle
    <3> QED BY <1>1, <1>5, <3>3, <3>4, Zenon DEF StreamInv, Typed
  <2>3. CASE \E op \in use.threads : Call(t, op)
    <3>1. PICK op \in use.threads : Call(t, op)
      BY <2>3, Zenon
    <3>2. /\ sent' = sent /\ (op = "send" => sent[t] < MaxSends)
          /\ pc' = [pc EXCEPT ![t] = [op |-> op, at |-> IF op \in Closing THEN "set" ELSE "queue"]]
      BY <3>1, Zenon DEF Call
    <3>3. /\ pc' \in [Threads -> [op : Ops \cup {"none"}, at : {"idle", "set", "queue"}]]
          /\ pc'[t].op = op /\ (pc'[t].at = "set" => op \in Closing)
          /\ \A v \in Threads : v # t => pc'[v] = pc[v]
      BY <1>3, <1>4, <3>2, Zenon
    <3> QED BY <1>1, <1>5, <3>2, <3>3, Zenon DEF StreamInv, Typed
  <2> QED BY <2>1, <2>2, <2>3
<1> QED BY <1>2, <1>6 DEF StreamInv

LEMMA StreamInductive == StreamInv /\ [Next]_vars => StreamInv'
\* What leaves the stream alone keeps the invariant.
<1>StreamKept.
  ASSUME StreamInv, UNCHANGED <<use, outputBuffer_, wire, accepted, sent, pc>>,
         channel_' \in ChannelType, isWriting(channel_') => isWriting(channel_), CanWrite' => CanWrite,
         pending' \in Seq(FunctorType), batch' \in Seq(FunctorType)
  PROVE  StreamInv'
  <2> USE <1>StreamKept
  <2>1. Typed'
    BY DEF StreamInv, Typed
  <2>2. OutputInv'
    BY DEF StreamInv, OutputInv, StreamIntact, isWriting
  <2> QED BY <2>1, <2>2 DEF StreamInv
<1>StreamStillInv.
  ASSUME StreamInv, StreamStill
  PROVE  StreamInv'
  <2> USE <1>StreamStillInv
  <2>1. /\ UNCHANGED <<use, outputBuffer_, wire, accepted, sent, pc>>
        /\ channel_' = channel_ /\ pending' = pending /\ batch' = batch /\ (CanWrite' <=> CanWrite)
    BY DEF StreamStill, CanWrite
  <2>2. channel_ \in ChannelType /\ pending \in Seq(FunctorType) /\ batch \in Seq(FunctorType)
    BY DEF StreamInv, Typed
  <2> QED BY <2>1, <2>2, <1>StreamKept
<1>AbortIsStill.
  ASSUME NEW assertion, Abort(assertion)
  PROVE  StreamStill
    BY <1>AbortIsStill DEF Abort, StreamStill, connVars, kernelVars, loopVars, userVars, serverVars, lifeVars
<1>StillSteps.
  ASSUME \/ Poll \/ CallbackReturns \/ HandleEvent \/ HandleError \/ HandleReadMessage \/ EndScope
         \/ FunctorsDone \/ LoopForceCloseWithDelay \/ (\E u \in Users : DropRef(u)) \/ Destruct
         \/ PeerSends \/ PeerReads
  PROVE  StreamStill
  <2> USE <1>StillSteps
  <2> USE DEF StreamStill, connVars, kernelVars, loopVars, userVars, serverVars, lifeVars
  <2>1. CASE Poll
    BY <2>1 DEF Poll
  <2>2. CASE CallbackReturns
    BY <2>2 DEF CallbackReturns
  <2>3. CASE HandleEvent
    BY <2>3 DEF HandleEvent
  <2>4. CASE HandleError
    BY <2>4 DEF HandleError
  <2>5. CASE HandleReadMessage
    BY <2>5 DEF HandleReadMessage
  <2>6. CASE EndScope
    BY <2>6 DEF EndScope
  <2>7. CASE FunctorsDone
    BY <2>7 DEF FunctorsDone
  <2>8. CASE LoopForceCloseWithDelay
    BY <2>8 DEF LoopForceCloseWithDelay
  <2>9. ASSUME NEW u \in Users, DropRef(u) PROVE StreamStill
    BY <2>9 DEF DropRef
  <2>10. CASE Destruct
    BY <2>10, Zenon DEF Destruct, Abort
  <2>11. CASE PeerSends
    BY <2>11 DEF PeerSends
  <2>12. CASE PeerReads
    BY <2>12 DEF PeerReads
  <2> QED BY <2>1, <2>2, <2>3, <2>4, <2>5, <2>6, <2>7, <2>8, <2>9, <2>10, <2>11, <2>12
\* Steps that change the queues, or the Channel without asking it to watch for EPOLLOUT.
<1>QueueOrChannelSteps.
  ASSUME StreamInv, UNCHANGED <<use, outputBuffer_, wire, accepted, sent, pc, peer>>, fin => fin',
         \/ channel_' \in {channel_, enableReading(channel_), disableReading(channel_), disableAll(channel_)}
         \/ channel_' = remove(channel_),
         pending' = pending \/ \E fn \in SharedFns \cup RawFns : pending' = Append(pending, Functor(fn)),
         batch' = batch \/ (batch # <<>> /\ batch' = Tail(batch))
  PROVE  StreamInv'
  <2> USE <1>QueueOrChannelSteps
  <2>0. channel_ \in ChannelType /\ pending \in Seq(FunctorType) /\ batch \in Seq(FunctorType)
    BY DEF StreamInv, Typed
  <2>1. channel_' \in ChannelType /\ (isWriting(channel_') => isWriting(channel_))
    BY <2>0, ChannelDoes
  <2>2. pending' \in Seq(FunctorType)
    BY <2>0, EmptyData
  <2>3. batch' \in Seq(FunctorType)
    <3>1. batch # <<>> => Tail(batch) \in Seq(FunctorType)
      BY <2>0
    <3> QED BY <2>0, <3>1, Zenon
  <2>4. CanWrite' => CanWrite
    BY DEF CanWrite
  <2> QED BY <2>1, <2>2, <2>3, <2>4, <1>StreamKept
<1>CloseKeepsStream.
  ASSUME StreamInv, NEW rest, CallHandleClose(rest), batch' = batch \/ (batch # <<>> /\ batch' = Tail(batch))
  PROVE  StreamInv'
    BY <1>CloseKeepsStream, <1>QueueOrChannelSteps DEF CallHandleClose, handleClose, kernelVars, userVars, serverVars
<1>HandleHupStream.
  ASSUME StreamInv, HandleHup \/ HandleReadEnd
  PROVE  StreamInv'
  <2> USE <1>HandleHupStream
  <2>1. (CallHandleClose(Tail(todo)) /\ UNCHANGED batch) \/ Abort("handleClose")
    BY DEF HandleHup, HandleReadEnd
  <2> QED BY <2>1, <1>CloseKeepsStream, <1>AbortIsStill, <1>StreamStillInv
<1>CloseCallbackStream.
  ASSUME StreamInv, CloseCallback
  PROVE  StreamInv'
  <2> USE <1>CloseCallbackStream
  <2>1. CASE Abort("server") \/ Abort("erase")
    BY <2>1, <1>AbortIsStill, <1>StreamStillInv
  <2>2. CASE ~(Abort("server") \/ Abort("erase"))
    <3>1. /\ UNCHANGED <<use, channel_, outputBuffer_, wire, accepted, sent, pc, fin, peer, batch>>
          /\ pending' = pending \/ pending' = Append(pending, Functor("connectDestroyed"))
      BY <2>2 DEF CloseCallback, removeConnectionInLoop, connVars, kernelVars, userVars, lifeVars
    <3> QED BY <3>1, <1>QueueOrChannelSteps DEF SharedFns
  <2> QED BY <2>1, <2>2
<1>BaseRemoveStream.
  ASSUME StreamInv, BaseRemove
  PROVE  StreamInv'
  <2> USE <1>BaseRemoveStream
  <2>1. CASE Abort("server") \/ Abort("erase")
    BY <2>1, <1>AbortIsStill, <1>StreamStillInv
  <2>2. CASE ~(Abort("server") \/ Abort("erase"))
    <3>1. /\ UNCHANGED <<use, channel_, outputBuffer_, wire, accepted, sent, pc, fin, peer, batch>>
          /\ pending' = Append(pending, Functor("connectDestroyed"))
      BY <2>2 DEF BaseRemove, removeConnectionInLoop, connVars, kernelVars, userVars, lifeVars
    <3> QED BY <3>1, <1>QueueOrChannelSteps DEF SharedFns
  <2> QED BY <2>1, <2>2
<1>ConnectStream.
  ASSUME StreamInv, ConnectEstablished \/ ConnectDestroyed \/ RemoveChannel
  PROVE  StreamInv'
  <2> USE <1>ConnectStream
  <2>1. CASE Abort("established") \/ Abort("remove") \/ Abort("listed")
    BY <2>1, <1>AbortIsStill, <1>StreamStillInv
  <2>2. CASE ~(Abort("established") \/ Abort("remove") \/ Abort("listed"))
    <3>1. /\ UNCHANGED <<use, outputBuffer_, wire, accepted, sent, pc, fin, peer, pending, batch>>
          /\ channel_' \in {channel_, enableReading(channel_), disableAll(channel_), remove(channel_)}
      BY <2>2 DEF ConnectEstablished, ConnectDestroyed, RemoveChannel, kernelVars, userVars, serverVars, lifeVars
    <3> QED BY <3>1, <1>QueueOrChannelSteps
  <2> QED BY <2>1, <2>2
<1>FunctorStepsStream.
  ASSUME StreamInv, Swap \/ RunSteps \/ RunForceClose
  PROVE  StreamInv'
  <2> USE <1>FunctorStepsStream
  <2>1. CASE Swap
    <3>1. /\ UNCHANGED <<use, channel_, outputBuffer_, wire, accepted, sent, pc, fin, peer>>
          /\ batch' = pending /\ pending' = <<>>
      BY <2>1, Zenon DEF Swap, connVars, kernelVars, userVars, serverVars, lifeVars
    <3>2. channel_ \in ChannelType /\ pending \in Seq(FunctorType)
      BY DEF StreamInv, Typed
    <3> QED BY <3>1, <3>2, <1>StreamKept DEF CanWrite
  <2>2. CASE RunSteps
    <3>1. /\ UNCHANGED <<use, channel_, outputBuffer_, wire, accepted, sent, pc, fin, peer, pending>>
          /\ batch # <<>> /\ batch' = Tail(batch)
      BY <2>2, Zenon DEF RunSteps, NextFunctor, connVars, kernelVars, userVars, serverVars, lifeVars
    <3> QED BY <3>1, <1>QueueOrChannelSteps
  <2>3. CASE RunForceClose
    <3>1. batch # <<>> /\ batch' = Tail(batch)
      BY <2>3 DEF RunForceClose, NextFunctor
    <3>2. CASE CallHandleClose(<<>>)
      BY <3>1, <3>2, <1>CloseKeepsStream
    <3>3. CASE ~CallHandleClose(<<>>)
      <4>1. UNCHANGED <<use, channel_, outputBuffer_, wire, accepted, sent, pc, fin, peer, pending>>
        BY <2>3, <3>3 DEF RunForceClose, connVars, kernelVars, userVars, serverVars, lifeVars
      <4> QED BY <3>1, <4>1, <1>QueueOrChannelSteps
    <3> QED BY <3>2, <3>3
  <2> QED BY <2>1, <2>2, <2>3
<1>LoopCallsStream.
  ASSUME StreamInv, LoopShutdown \/ LoopForceClose \/ LoopRead \/ TimerFires \/ ServerDtor
  PROVE  StreamInv'
  <2> USE <1>LoopCallsStream
  <2> USE DEF connVars, kernelVars, loopVars, userVars, serverVars, lifeVars
  <2>1. /\ UNCHANGED <<use, outputBuffer_, wire, accepted, sent, pc, peer, batch>>
        /\ fin => fin'
        /\ channel_' \in {channel_, enableReading(channel_), disableReading(channel_), disableAll(channel_)}
        /\ \/ pending' = pending
           \/ pending' = Append(pending, Functor("forceCloseInLoop"))
           \/ pending' = Append(pending, Functor("connectDestroyed"))
    <3>1. CASE LoopShutdown
      BY <3>1, Zenon DEF LoopShutdown, shutdownInLoop
    <3>2. CASE LoopForceClose
      BY <3>2 DEF LoopForceClose, forceClose
    <3>3. CASE LoopRead
      BY <3>3 DEF LoopRead, startReadInLoop, stopReadInLoop
    <3>4. CASE TimerFires
      BY <3>4 DEF TimerFires, forceClose
    <3>5. CASE ServerDtor
      <4>1. CASE Abort("channelDtor")
        BY <4>1, Zenon DEF Abort
      <4>2. CASE ~Abort("channelDtor")
        BY <3>5, <4>2, Zenon DEF ServerDtor
      <4> QED BY <4>1, <4>2
    <3> QED BY <3>1, <3>2, <3>3, <3>4, <3>5
  <2> QED BY <2>1, <1>QueueOrChannelSteps DEF SharedFns
<1>PeerStream.
  ASSUME StreamInv, PeerCloses \/ PeerResets
  PROVE  StreamInv'
  <2> USE <1>PeerStream
  <2>1. /\ UNCHANGED <<use, channel_, outputBuffer_, wire, accepted, sent, pc, fin, pending, batch>>
        /\ peer # "reset"
    BY DEF PeerCloses, PeerResets, connVars, loopVars, userVars, serverVars, lifeVars
  <2>2. channel_ \in ChannelType /\ pending \in Seq(FunctorType) /\ batch \in Seq(FunctorType)
    BY DEF StreamInv, Typed
  <2> QED BY <2>1, <2>2, <1>StreamKept, Zenon DEF CanWrite
<1>RunRawStream.
  ASSUME StreamInv, RunRaw
  PROVE  StreamInv'
  <2> USE <1>RunRawStream
  <2>0. batch \in Seq(FunctorType) /\ pending \in Seq(FunctorType)
    BY DEF StreamInv, Typed
  <2>1. CASE ~Strong
    BY <2>1, <1>AbortIsStill, <1>StreamStillInv DEF RunRaw
  <2>2. CASE Strong
    <3>1. /\ batch # <<>> /\ Head(batch).fn \in RawFns /\ batch' = Tail(batch)
          /\ UNCHANGED <<use, peer, sent, pc>>
      BY <2>2 DEF RunRaw, NextFunctor, userVars, serverVars
    <3>2. Head(batch) \in FunctorType /\ Tail(batch) \in Seq(FunctorType)
      BY <2>0, <3>1
    <3>3. Head(batch).data \in Bytes
      BY <3>2 DEF FunctorType
    <3>4. CASE Head(batch).fn = "sendInLoop"
      <4>1. sendInLoop(Head(batch).data, pending) /\ fin' = fin
        BY <2>2, <3>4, Zenon DEF RunRaw
      <4>2. /\ channel_' \in ChannelType
            /\ outputBuffer_' \in Bytes /\ wire' \in Bytes /\ accepted' \in Bytes
            /\ pending' \in Seq(FunctorType)
            /\ OutputInv'
        BY <2>0, <3>1, <3>3, <4>1, SendDoes
      <4>3. Typed'
        BY <3>1, <3>2, <4>2 DEF StreamInv, Typed
      <4> QED BY <4>2, <4>3 DEF StreamInv
    <3>5. CASE Head(batch).fn # "sendInLoop"
      <4>1. /\ UNCHANGED <<outputBuffer_, wire, accepted, pending>> /\ (fin => fin')
            /\ channel_' \in {channel_, enableReading(channel_), disableReading(channel_)}
        BY <2>2, <3>1, <3>5, Zenon DEF RunRaw, RawFns, shutdownInLoop, startReadInLoop, stopReadInLoop
      <4> QED BY <3>1, <4>1, <1>QueueOrChannelSteps
    <3> QED BY <3>4, <3>5
  <2> QED BY <2>1, <2>2
<1>LoopSendStream.
  ASSUME StreamInv, LoopSend
  PROVE  StreamInv'
  <2> USE <1>LoopSendStream
  <2>1. /\ sendInLoop(Message(LoopUser), pending) /\ sent[LoopUser] < MaxSends
        /\ sent' = [sent EXCEPT ![LoopUser] = @ + 1]
        /\ UNCHANGED <<use, fin, peer, pc, batch>>
    BY DEF LoopSend, serverVars
  <2>2. Message(LoopUser) \in Bytes
    BY <2>1, MessageIsBytes, Zenon DEF StreamInv, Users
  <2>3. pending \in Seq(FunctorType)
    BY DEF StreamInv, Typed
  <2>4. /\ channel_' \in ChannelType
        /\ outputBuffer_' \in Bytes /\ wire' \in Bytes /\ accepted' \in Bytes
        /\ pending' \in Seq(FunctorType)
        /\ OutputInv'
    BY <2>1, <2>2, <2>3, SendDoes
  <2>5. sent' \in [Users -> 0..MaxSends] /\ \A t \in Threads : sent'[t] = sent[t]
    BY <2>1, ConnectionAssumption DEF StreamInv, Typed, Users
  <2>6. Typed'
    BY <2>1, <2>4, <2>5 DEF StreamInv, Typed
  <2> QED BY <2>4, <2>6 DEF StreamInv
<1>HandleWriteStream.
  ASSUME StreamInv, HandleWrite
  PROVE  StreamInv'
  <2> USE <1>HandleWriteStream
  <2>1. UNCHANGED <<use, sent, pc, peer, batch>>
    BY DEF HandleWrite, userVars, serverVars
  <2>2. /\ channel_' \in ChannelType /\ outputBuffer_' \in Bytes /\ wire' \in Bytes /\ accepted' = accepted
        /\ pending' \in Seq(FunctorType) /\ wire' \o outputBuffer_' = wire \o outputBuffer_
        /\ isWriting(channel_') => outputBuffer_' # <<>>
        /\ outputBuffer_' # <<>> => outputBuffer_ # <<>>
        /\ fin => fin'
    BY WriteDoes
  <2>3. Typed'
    BY <2>1, <2>2 DEF StreamInv, Typed
  <2>4. CanWrite' => CanWrite
    BY <2>1, <2>2, Zenon DEF CanWrite
  <2>5. OutputInv'
    BY <2>2, <2>4 DEF StreamInv, OutputInv, StreamIntact, isWriting
  <2> QED BY <2>3, <2>5 DEF StreamInv
<1> SUFFICES ASSUME StreamInv, [Next]_vars PROVE StreamInv'
  OBVIOUS
<1>1. CASE UNCHANGED vars
  <2>1. StreamStill
    BY <1>1 DEF vars, StreamStill, connVars, kernelVars, loopVars, userVars, serverVars, lifeVars
  <2> QED BY <2>1, <1>StreamStillInv
<1>2. CASE LoopThread
  BY <1>2, <1>StillSteps, <1>StreamStillInv, <1>HandleHupStream, <1>HandleWriteStream, <1>CloseCallbackStream,
     <1>ConnectStream,
     <1>FunctorStepsStream, <1>RunRawStream
     DEF LoopThread, Handlers, Functors
<1>3. CASE LoopCalls \/ TimerFires \/ ServerDtor
  BY <1>3, <1>StillSteps, <1>StreamStillInv, <1>LoopSendStream, <1>LoopCallsStream DEF LoopCalls
<1>4. CASE ThreadCalls
  BY <1>4, ThreadStream DEF ThreadCalls
<1>5. CASE (\E u \in Users : DropRef(u)) \/ Destruct \/ BaseRemove
  BY <1>5, <1>StillSteps, <1>StreamStillInv, <1>BaseRemoveStream
<1>6. CASE Peer
  BY <1>6, <1>StillSteps, <1>StreamStillInv, <1>PeerStream DEF Peer
<1> QED BY <1>1, <1>2, <1>3, <1>4, <1>5, <1>6 DEF Next

\* However the connection is used, and by however many threads: what the kernel took
\* and what outputBuffer_ holds is what sendInLoop() took, in order and without a gap,
\* and nothing of it is missing while the socket can be written.
THEOREM StreamIsIntact == Spec => []StreamIntact
<1>1. StreamInv => StreamIntact
  BY DEF StreamInv, OutputInv
<1> QED BY <1>1, StreamInitially, StreamInductive, PTL DEF Spec

(***************************************************************************)
(* The events that are watched, in a polite usage.                         *)
(***************************************************************************)

Up == {"kConnected", "kDisconnecting"}

\* Until connectEstablished() has run, nothing else can be done with the connection.
Starting ==
  /\ channel_ = NewChannel /\ outputBuffer_ = <<>> /\ reading_ = TRUE /\ fin = FALSE
  /\ holds = {} /\ \A t \in Threads : pc[t] = Idle
  /\ use.sameLoop => todo = <<"connectEstablished", "release">>
  /\ ~use.sameLoop =>
       \/ /\ phase \in {"poll", "events"} /\ held = FALSE /\ todo \in {<<>>, <<"callback">>}
          /\ pending # <<>> /\ Head(pending).fn = "connectEstablished"
       \/ phase = "functors" /\ todo = <<>> /\ batch # <<>> /\ Head(batch).fn = "connectEstablished"
       \/ phase = "functors" /\ todo = <<"connectEstablished">>

StartInv == state_ = "kConnecting" => Starting

\* What a connection that nobody closes never sees.
OpenSteps == Steps \ {"close", "error", "closeCallback", "connectDestroyed", "remove"}
OpenFunctors == {f \in FunctorType : f.fn \notin {"connectDestroyed", "forceCloseInLoop"}}
OtherFunctors == {f \in FunctorType : f.fn # "shutdownInLoop"}
StaysOpen ==
  /\ state_ # "kDisconnected"
  /\ peer = "open" /\ soError = FALSE /\ timer = FALSE /\ baseQueue = 0
  /\ revents_ \subseteq {"IN", "OUT"}
  /\ todo \in Seq(OpenSteps) /\ pending \in Seq(OpenFunctors) /\ batch \in Seq(OpenFunctors)

OpenInv == NeverCloses(use) => StaysOpen

\* EventsAgree, for every state but the first and the last.
Agrees ==
  /\ state_ # "kDisconnected" => (isWriting(channel_) <=> outputBuffer_ # <<>>)
  /\ state_ \notin {"kConnecting", "kDisconnected"} => (reading_ <=> isReading(channel_))

EventsInv ==
  /\ todo \in Seq(Steps)
  /\ StartInv
  /\ OpenInv
  /\ Polite(use) => Agrees

LEMMA SendFunctor ==
  \A data \in Bytes : LET f == [fn |-> "sendInLoop", data |-> data] IN f \in OpenFunctors /\ f \in OtherFunctors
BY DEF OpenFunctors, OtherFunctors, FunctorType, RawFns

LEMMA EventsInitially == Init => EventsInv
<1> SUFFICES ASSUME Init PROVE EventsInv
  OBVIOUS
<1>0. use \in Usage /\ use.sameLoop \in BOOLEAN
  BY ConnectionAssumption DEF Init, Usage
<1>1. todo \in Seq(Steps) /\ todo \in Seq(OpenSteps)
  <2>1. <<>> \in Seq(OpenSteps) /\ <<"connectEstablished", "release">> \in Seq(OpenSteps)
    BY DEF Steps, OpenSteps
  <2>2. todo \in {<<>>, <<"connectEstablished", "release">>}
    BY DEF Init
  <2>3. todo \in Seq(OpenSteps)
    BY <2>1, <2>2, Zenon
  <2> QED BY <2>3 DEF OpenSteps
<1>2. StartInv
  <2>1. ~use.sameLoop => pending # <<>> /\ Head(pending).fn = "connectEstablished"
    BY DEF Init, Functor
  <2> QED BY <1>0, <2>1 DEF Init, StartInv, Starting
<1>3. OpenInv
  <2>1. Functor("connectEstablished") \in OpenFunctors
    BY EmptyData DEF OpenFunctors, Functor, SharedFns
  <2>2. pending \in Seq(OpenFunctors) /\ batch \in Seq(OpenFunctors)
    BY <2>1 DEF Init
  <2> QED BY <1>1, <2>2 DEF Init, OpenInv, StaysOpen
<1>4. Agrees
  BY DEF Init, Agrees, NewChannel, isWriting, kWriteEvent
<1> QED BY <1>1, <1>2, <1>3, <1>4 DEF EventsInv

\* The steps that nothing can take before connectEstablished().
LEMMA NotWhileStarting ==
  ASSUME StreamInv, EventsInv, state_ = "kConnecting"
  PROVE  /\ \A step : At(step) => step \in {"callback", "connectEstablished"}
         /\ \A op : ~UserCode(op)
         /\ \A fns : NextFunctor(fns) => "connectEstablished" \in fns
         /\ \A t \in Threads : t \notin holds /\ pc[t].at = "idle"
<1>1. Starting
  BY DEF EventsInv, StartInv
<1>2. ASSUME NEW step, At(step) PROVE step \in {"callback", "connectEstablished"}
  BY <1>1, <1>2 DEF At, Starting
<1>3. ASSUME NEW op, UserCode(op) PROVE FALSE
  <2>1. todo # <<>> /\ Head(todo) = "callback" /\ (held \/ Contains(todo, "release"))
    BY <1>1, <1>3 DEF UserCode, At, Starting
  <2>2. held = FALSE /\ todo = <<"callback">>
    BY <1>1, <2>1 DEF Starting
  <2> QED BY <2>1, <2>2 DEF Contains
<1>4. ASSUME NEW fns, NextFunctor(fns) PROVE "connectEstablished" \in fns
  BY <1>1, <1>4 DEF NextFunctor, Starting
<1>5. \A t \in Threads : t \notin holds /\ pc[t].at = "idle"
  BY <1>1 DEF Starting, Idle
<1> QED BY <1>2, <1>3, <1>4, <1>5

\* Steps that leave the connection, the loop and its queues alone.
EventsStill ==
  UNCHANGED <<use, connVars, fin, peer, soError, timer, baseQueue, loopVars, pc, holds>>

LEMMA OpenStepsAre ==
  /\ OpenSteps \subseteq Steps
  /\ {"callback", "event", "read", "write", "endEvent", "release", "connectEstablished"} \subseteq OpenSteps
  BY DEF OpenSteps, Steps

\* The loop pops a step, and pushes others.
LEMMA PushedSteps ==
  ASSUME NEW S, NEW s \in Seq(S), s # <<>>, NEW steps \in Seq(S)
  PROVE  steps \o Tail(s) \in Seq(S) /\ Tail(s) \in Seq(S) /\ Head(s) \in S
  OBVIOUS

LEMMA PushKeeps ==
  ASSUME EventsInv, todo # <<>>, NEW steps \in Seq(Steps), Push(steps), NeverCloses(use) => steps \in Seq(OpenSteps)
  PROVE  todo' \in Seq(Steps) /\ (NeverCloses(use) => todo' \in Seq(OpenSteps))
<1>1. todo \in Seq(Steps) /\ (NeverCloses(use) => todo \in Seq(OpenSteps))
  BY DEF EventsInv, OpenInv, StaysOpen
<1>2. steps \o Tail(todo) \in Seq(Steps)
  BY <1>1, PushedSteps
<1>3. NeverCloses(use) => steps \o Tail(todo) \in Seq(OpenSteps)
  BY <1>1, PushedSteps
<1> QED BY <1>2, <1>3 DEF Push

LEMMA PopKeeps ==
  ASSUME EventsInv, todo # <<>>, Push(<<>>)
  PROVE  todo' \in Seq(Steps) /\ (NeverCloses(use) => todo' \in Seq(OpenSteps)) /\ todo' = Tail(todo)
<1>1. <<>> \in Seq(Steps) /\ <<>> \in Seq(OpenSteps)
  OBVIOUS
<1>2. todo' \in Seq(Steps) /\ (NeverCloses(use) => todo' \in Seq(OpenSteps))
  BY <1>1, PushKeeps, Zenon
<1>3. <<>> \o Tail(todo) = Tail(todo)
  BY DEF EventsInv
<1> QED BY <1>2, <1>3 DEF Push

\* The next step of a connection that nobody closes.
LEMMA OpenHead ==
  ASSUME EventsInv, NeverCloses(use), NEW step, At(step)
  PROVE  step \in OpenSteps
<1>1. todo \in Seq(OpenSteps) /\ todo # <<>> /\ Head(todo) = step
  BY DEF EventsInv, OpenInv, StaysOpen, At
<1> QED BY <1>1

LEMMA DispatchedSteps ==
  /\ Dispatched \in Seq(Steps)
  /\ revents_ \subseteq {"IN", "OUT"} => Dispatched \in Seq(OpenSteps)
<1>1. ASSUME NEW b, NEW s \in Steps PROVE When(b, s) \in Seq(Steps)
  BY DEF When
<1>2. {"close", "error", "read", "write"} \subseteq Steps
  BY DEF Steps
<1>3. Dispatched \in Seq(Steps)
  BY <1>1, <1>2 DEF Dispatched
<1>4. ASSUME revents_ \subseteq {"IN", "OUT"} PROVE Dispatched \in Seq(OpenSteps)
  <2>1. When("HUP" \in revents_ /\ "IN" \notin revents_, "close") = <<>> /\ When("ERR" \in revents_, "error") = <<>>
    BY <1>4 DEF When
  <2> DEFINE r == When("IN" \in revents_, "read")
             w == When("OUT" \in revents_, "write")
  <2>2. r \in Seq(OpenSteps) /\ w \in Seq(OpenSteps)
    BY OpenStepsAre DEF When
  <2>3. Dispatched = <<>> \o <<>> \o r \o w
    BY <2>1 DEF Dispatched
  <2> HIDE DEF r, w
  <2> QED BY <2>2, <2>3
<1> QED BY <1>3, <1>4

\* sendInLoop() queues at most a callback.
LEMMA SendQueues ==
  ASSUME NEW data, NEW calls, sendInLoop(data, calls)
  PROVE  pending' \in {calls, Append(calls, Functor("callback"))}
  BY DEF sendInLoop

LEMMA EventsInductive == StreamInv /\ EventsInv /\ [Next]_vars => EventsInv'
<1>AgreeKept.
  ASSUME EventsInv, UNCHANGED <<use, outputBuffer_, reading_>>,
         isWriting(channel_') <=> isWriting(channel_), isReading(channel_') <=> isReading(channel_),
         state_' \in {state_, "kDisconnected"} \/ (state_ \in Up /\ state_' \in Up)
  PROVE  (Polite(use) => Agrees)'
    BY <1>AgreeKept DEF EventsInv, Agrees, Up, isWriting, isReading
\* A connection that is down has nothing to agree on.
<1>DownAgrees.
  ASSUME state_' = "kDisconnected"
  PROVE  (Polite(use) => Agrees)' /\ StartInv'
    BY <1>DownAgrees DEF Agrees, StartInv
<1>OpenKept.
  ASSUME EventsInv, UNCHANGED <<use, peer, soError, timer, baseQueue, revents_>>,
         NeverCloses(use) => /\ state_' # "kDisconnected"
                             /\ todo' \in Seq(OpenSteps) /\ pending' \in Seq(OpenFunctors) /\ batch' \in Seq(OpenFunctors)
  PROVE  OpenInv'
    BY <1>OpenKept DEF EventsInv, OpenInv, StaysOpen
<1>EventsStillInv.
  ASSUME EventsInv, EventsStill
  PROVE  EventsInv'
  <2> USE <1>EventsStillInv
  <2> USE DEF EventsStill, connVars, loopVars
  <2>1. (todo \in Seq(Steps))'
    BY DEF EventsInv
  <2>2. StartInv'
    BY DEF EventsInv, StartInv, Starting
  <2>3. OpenInv'
    BY DEF EventsInv, OpenInv, StaysOpen
  <2>4. (Polite(use) => Agrees)'
    BY DEF EventsInv, Agrees
  <2> QED BY <2>1, <2>2, <2>3, <2>4 DEF EventsInv
<1>AbortIsEventsStill.
  ASSUME NEW assertion, Abort(assertion)
  PROVE  EventsStill
    BY <1>AbortIsEventsStill DEF Abort, EventsStill, kernelVars, userVars, serverVars, lifeVars
<1>OpenQueues.
  ASSUME EventsInv, NeverCloses(use)
  PROVE  /\ pending \in Seq(OpenFunctors) /\ batch \in Seq(OpenFunctors)
         /\ batch # <<>> => Tail(batch) \in Seq(OpenFunctors) /\ Head(batch) \in OpenFunctors
         /\ \A f \in OpenFunctors : Append(pending, f) \in Seq(OpenFunctors)
  <2> USE <1>OpenQueues
  <2>1. pending \in Seq(OpenFunctors) /\ batch \in Seq(OpenFunctors)
    BY DEF EventsInv, OpenInv, StaysOpen
  <2>2. batch # <<>> => Tail(batch) \in Seq(OpenFunctors) /\ Head(batch) \in OpenFunctors
    BY <2>1
  <2> QED BY <2>1, <2>2
<1>PollEvents.
  ASSUME StreamInv, EventsInv, Poll
  PROVE  EventsInv'
  <2> USE <1>PollEvents
  <2> USE DEF connVars, kernelVars, userVars, serverVars, lifeVars
  <2>0. /\ UNCHANGED <<use, state_, channel_, outputBuffer_, reading_, fin, holds, pc, pending, batch, held>>
        /\ UNCHANGED <<peer, soError, timer, baseQueue>>
        /\ phase = "poll" /\ todo = <<>> /\ phase' = "events"
        /\ revents_' = Reported(channel_, Ready)
        /\ todo' = IF revents_' = {} THEN <<"callback">> ELSE <<"callback", "event">>
    BY DEF Poll
  <2>1. todo' \in Seq(Steps) /\ todo' \in Seq(OpenSteps)
    <3>1. <<"callback">> \in Seq(OpenSteps) /\ <<"callback", "event">> \in Seq(OpenSteps)
      BY OpenStepsAre
    <3>2. todo' \in Seq(OpenSteps)
      BY <2>0, <3>1
    <3> QED BY <3>2, OpenStepsAre
  <2>2. StartInv'
    <3>1. SUFFICES ASSUME state_ = "kConnecting" PROVE Starting'
      BY <2>0 DEF StartInv
    <3>2. Starting
      BY <3>1 DEF EventsInv, StartInv
    <3>3. revents_' = {}
      BY <2>0, <3>2 DEF Starting, Reported, NewChannel
    <3> QED BY <2>0, <3>2, <3>3 DEF Starting
  <2>3. OpenInv'
    <3>1. SUFFICES ASSUME NeverCloses(use) PROVE StaysOpen'
      BY <2>0 DEF OpenInv
    <3>2. StaysOpen
      BY <3>1 DEF EventsInv, OpenInv
    <3>3. revents_' \subseteq {"IN", "OUT"}
      BY <2>0, <3>2 DEF StaysOpen, Reported, Ready
    <3> QED BY <2>0, <2>1, <3>2, <3>3 DEF StaysOpen
  <2>4. (Polite(use) => Agrees)'
    BY <2>0, <1>AgreeKept
  <2> QED BY <2>1, <2>2, <2>3, <2>4 DEF EventsInv
\* Steps of the loop that pop, and may push, without touching the connection or a queue.
<1>PlainHandlers.
  ASSUME StreamInv, EventsInv,
         CallbackReturns \/ HandleEvent \/ HandleError \/ HandleReadMessage \/ EndScope
  PROVE  EventsInv'
  <2> USE <1>PlainHandlers
  <2> USE DEF connVars, kernelVars, userVars, serverVars, lifeVars
  <2>0. /\ UNCHANGED <<use, state_, channel_, outputBuffer_, reading_, fin, holds, pc, pending, batch, held, phase>>
        /\ UNCHANGED <<peer, timer, baseQueue, revents_>>
        /\ soError' = soError \/ soError' = FALSE
        /\ todo # <<>>
    BY Zenon DEF CallbackReturns, HandleEvent, HandleError, HandleReadMessage, EndScope, At
  <2>1. todo' \in Seq(Steps) /\ (NeverCloses(use) => todo' \in Seq(OpenSteps))
    <3>1. CASE Push(<<>>)
      BY <2>0, <3>1, PopKeeps
    <3>2. CASE Push(<<"callback">>)
      <4>1. <<"callback">> \in Seq(Steps) /\ <<"callback">> \in Seq(OpenSteps)
        BY DEF OpenSteps, Steps
      <4> QED BY <2>0, <3>2, <4>1, PushKeeps, Zenon
    <3>3. CASE Push(Dispatched \o <<"endEvent", "release">>)
      <4> DEFINE steps == Dispatched \o <<"endEvent", "release">>
      <4>1. <<"endEvent", "release">> \in Seq(Steps) /\ <<"endEvent", "release">> \in Seq(OpenSteps)
        BY DEF OpenSteps, Steps
      <4>2. NeverCloses(use) => revents_ \subseteq {"IN", "OUT"}
        BY DEF EventsInv, OpenInv, StaysOpen
      <4>3. steps \in Seq(Steps)
        BY <4>1, DispatchedSteps
      <4>4. NeverCloses(use) => steps \in Seq(OpenSteps)
        BY <4>1, <4>2, DispatchedSteps
      <4> QED BY <2>0, <3>3, <4>3, <4>4, PushKeeps, Zenon
    <3> QED BY <3>1, <3>2, <3>3 DEF CallbackReturns, HandleEvent, HandleError, HandleReadMessage, EndScope
  <2>2. StartInv'
    <3>1. SUFFICES ASSUME state_ = "kConnecting" PROVE Starting'
      BY <2>0 DEF StartInv
    <3>2. Starting
      BY <3>1 DEF EventsInv, StartInv
    <3>3. CallbackReturns
      <4>1. ~At("event") /\ ~At("error") /\ ~At("read") /\ ~At("endEvent") /\ ~At("release")
        BY <3>1, NotWhileStarting
      <4> QED BY <4>1, Zenon DEF HandleEvent, HandleError, HandleReadMessage, EndScope
    <3>4. Head(todo) = "callback" /\ todo' = Tail(todo)
      BY <2>0, <3>3, PopKeeps DEF CallbackReturns, At
    <3>5. todo = <<"callback">>
      BY <2>0, <3>2, <3>4 DEF Starting
    <3>6. todo' = <<>>
      BY <3>4, <3>5
    <3> QED BY <2>0, <3>2, <3>5, <3>6 DEF Starting
  <2>3. OpenInv'
    BY <2>0, <2>1 DEF EventsInv, OpenInv, StaysOpen
  <2>4. (Polite(use) => Agrees)'
    BY <2>0, <1>AgreeKept
  <2> QED BY <2>1, <2>2, <2>3, <2>4, Zenon DEF EventsInv
<1>CloseEvents.
  ASSUME EventsInv, NEW rest \in Seq(Steps), CallHandleClose(rest), ~NeverCloses(use)
  PROVE  EventsInv'
  <2> USE <1>CloseEvents
  <2>1. use' = use /\ state_' = "kDisconnected" /\ todo' = <<"callback", "closeCallback">> \o rest
    BY DEF CallHandleClose, handleClose, serverVars
  <2>2. <<"callback", "closeCallback">> \in Seq(Steps)
    BY DEF Steps
  <2>3. todo' \in Seq(Steps)
    BY <2>1, <2>2
  <2> QED BY <2>1, <2>3, <1>DownAgrees DEF EventsInv, OpenInv
<1>HandleHupEvents.
  ASSUME StreamInv, EventsInv, HandleHup \/ HandleReadEnd
  PROVE  EventsInv'
  <2> USE <1>HandleHupEvents
  <2>1. ~NeverCloses(use)
    <3>1. SUFFICES ASSUME NeverCloses(use) PROVE FALSE
      OBVIOUS
    <3>2. "close" \notin OpenSteps
      BY DEF OpenSteps
    <3>3. ~At("close")
      BY <3>1, <3>2, OpenHead
    <3>4. peer = "open"
      BY <3>1 DEF EventsInv, OpenInv, StaysOpen
    <3> QED BY <3>3, <3>4 DEF HandleHup, HandleReadEnd
  <2>2. Tail(todo) \in Seq(Steps)
    <3>1. todo # <<>> /\ todo \in Seq(Steps)
      BY DEF HandleHup, HandleReadEnd, At, EventsInv
    <3> QED BY <3>1
  <2>3. CallHandleClose(Tail(todo)) \/ Abort("handleClose")
    BY DEF HandleHup, HandleReadEnd
  <2> QED BY <2>1, <2>2, <2>3, <1>CloseEvents, <1>AbortIsEventsStill, <1>EventsStillInv, Zenon
<1>HandleWriteEvents.
  ASSUME StreamInv, EventsInv, HandleWrite
  PROVE  EventsInv'
  <2> USE <1>HandleWriteEvents
  <2>0. /\ UNCHANGED <<use, state_, reading_, peer, soError, timer, baseQueue, revents_, batch>>
        /\ At("write") /\ todo # <<>> /\ Push(<<>>)
    BY DEF HandleWrite, serverVars, lifeVars, At
  <2>1. todo' \in Seq(Steps) /\ (NeverCloses(use) => todo' \in Seq(OpenSteps))
    BY <2>0, PopKeeps
  <2>2. StartInv'
    BY <2>0, NotWhileStarting DEF StartInv
  <2>3. OpenInv'
    <3>1. pending' \in {pending, Append(pending, Functor("callback"))}
      BY DEF HandleWrite, Written
    <3>2. Functor("callback") \in OpenFunctors
      BY EmptyData DEF OpenFunctors, Functor
    <3>3. NeverCloses(use) => pending' \in Seq(OpenFunctors) /\ batch \in Seq(OpenFunctors) /\ state_ # "kDisconnected"
      BY <3>1, <3>2, <1>OpenQueues, Zenon DEF EventsInv, OpenInv, StaysOpen
    <3> QED BY <2>0, <2>1, <3>3, <1>OpenKept
  <2>4. (Polite(use) => Agrees)'
    <3>1. /\ isWriting(channel_') => isWriting(channel_) /\ outputBuffer_' # <<>>
          /\ isWriting(channel_) /\ outputBuffer_' # <<>> => isWriting(channel_')
          /\ outputBuffer_' # <<>> => outputBuffer_ # <<>>
          /\ isReading(channel_') <=> isReading(channel_)
      BY WriteDoes
    <3> QED BY <2>0, <3>1, Zenon DEF EventsInv, Agrees, isWriting, isReading
  <2> QED BY <2>1, <2>2, <2>3, <2>4 DEF EventsInv
<1>CloseCallbackEvents.
  ASSUME StreamInv, EventsInv, CloseCallback
  PROVE  EventsInv'
  <2> USE <1>CloseCallbackEvents
  <2>1. CASE Abort("server") \/ Abort("erase")
    BY <2>1, <1>AbortIsEventsStill, <1>EventsStillInv
  <2>2. CASE ~(Abort("server") \/ Abort("erase"))
    <3>1. /\ UNCHANGED <<use, state_, channel_, outputBuffer_, reading_>>
          /\ At("closeCallback") /\ todo # <<>> /\ Push(<<>>)
      BY <2>2 DEF CloseCallback, connVars, At
    <3>2. todo' \in Seq(Steps)
      BY <3>1, PopKeeps
    <3>3. ~NeverCloses(use)
      BY <3>1, OpenHead DEF OpenSteps
    <3>4. StartInv'
      BY <3>1, NotWhileStarting DEF StartInv
    <3>5. (Polite(use) => Agrees)'
      BY <3>1, <1>AgreeKept
    <3> QED BY <3>1, <3>2, <3>3, <3>4, <3>5 DEF EventsInv, OpenInv
  <2> QED BY <2>1, <2>2
\* More functors do not change which one is first.
<1>FirstStays.
  ASSUME NEW S, NEW s \in Seq(S), s # <<>>, NEW f \in S
  PROVE  Append(s, f) # <<>> /\ Head(Append(s, f)) = Head(s)
    BY <1>FirstStays
<1>BaseRemoveEvents.
  ASSUME StreamInv, EventsInv, BaseRemove
  PROVE  EventsInv'
  <2> USE <1>BaseRemoveEvents
  <2>1. CASE Abort("server") \/ Abort("erase")
    BY <2>1, <1>AbortIsEventsStill, <1>EventsStillInv
  <2>2. CASE ~(Abort("server") \/ Abort("erase"))
    <3>1. /\ UNCHANGED <<use, state_, channel_, outputBuffer_, reading_, fin, holds, pc, todo, phase, held, batch>>
          /\ pending' = Append(pending, Functor("connectDestroyed"))
          /\ baseQueue > 0
      BY <2>2 DEF BaseRemove, removeConnectionInLoop, connVars, kernelVars, userVars
    <3>2. ~NeverCloses(use)
      BY <3>1 DEF EventsInv, OpenInv, StaysOpen
    <3>3. StartInv'
      <4>1. pending # <<>> => pending' # <<>> /\ Head(pending') = Head(pending)
        BY <3>1, EmptyData, <1>FirstStays, Zenon DEF StreamInv, Typed, SharedFns
      <4> QED BY <3>1, <4>1 DEF EventsInv, StartInv, Starting
    <3>4. (Polite(use) => Agrees)'
      BY <3>1, <1>AgreeKept
    <3> QED BY <3>1, <3>2, <3>3, <3>4 DEF EventsInv, OpenInv
  <2> QED BY <2>1, <2>2
<1>ServerDtorEvents.
  ASSUME StreamInv, EventsInv, ServerDtor
  PROVE  EventsInv'
  <2> USE <1>ServerDtorEvents
  <2> USE DEF connVars, kernelVars, loopVars, userVars, serverVars, lifeVars
  <2>0. CASE Abort("channelDtor")
    BY <2>0, <1>AbortIsEventsStill, <1>EventsStillInv
  <2> SUFFICES ASSUME ~Abort("channelDtor") PROVE EventsInv'
    BY <2>0
  <2>1. /\ UNCHANGED <<use, state_, channel_, outputBuffer_, reading_, fin, holds, pc, phase, held, batch>>
        /\ pending' \in {pending, Append(pending, Functor("connectDestroyed"))}
        /\ todo' \in {todo, <<"connectDestroyed", "release">> \o todo}
        /\ todo' # todo => use.sameLoop /\ (todo = <<>> \/ At("callback"))
        /\ use.serverDies # "never"
    BY Zenon DEF ServerDtor, MayDestruct
  <2>2. ~NeverCloses(use)
    BY <2>1 DEF NeverCloses
  <2>3. StartInv'
    <3>1. pending # <<>> => pending' # <<>> /\ Head(pending') = Head(pending)
      <4>1. pending \in Seq(FunctorType) /\ Functor("connectDestroyed") \in FunctorType
        BY EmptyData DEF StreamInv, Typed, SharedFns
      <4> QED BY <2>1, <4>1, <1>FirstStays, Zenon
    <3>2. state_ = "kConnecting" => todo' = todo
      <4>1. <<"connectEstablished", "release">> # <<>> /\ Head(<<"connectEstablished", "release">>) # "callback"
        OBVIOUS
      <4> QED BY <2>1, <4>1, Zenon DEF EventsInv, StartInv, Starting, At
    <3> QED BY <2>1, <3>1, <3>2, Zenon DEF EventsInv, StartInv, Starting
  <2>4. (Polite(use) => Agrees)'
    BY <2>1, <1>AgreeKept
  <2>5. todo' \in Seq(Steps)
    <3>1. <<"connectDestroyed", "release">> \in Seq(Steps)
      BY DEF Steps
    <3>2. todo \in Seq(Steps)
      BY Zenon DEF EventsInv
    <3> QED BY <2>1, <3>1, <3>2
  <2> QED BY <2>1, <2>2, <2>3, <2>4, <2>5 DEF EventsInv, OpenInv
<1>ConnectEstablishedEvents.
  ASSUME StreamInv, EventsInv, ConnectEstablished
  PROVE  EventsInv'
  <2> USE <1>ConnectEstablishedEvents
  <2>1. CASE state_ # "kConnecting"
    BY <2>1, <1>AbortIsEventsStill, <1>EventsStillInv DEF ConnectEstablished
  <2>2. CASE state_ = "kConnecting"
    <3>1. /\ UNCHANGED <<use, outputBuffer_, reading_, peer, soError, timer, baseQueue, revents_, pending, batch>>
          /\ state_' = "kConnected" /\ channel_' = enableReading(channel_)
          /\ todo # <<>> /\ Push(<<"callback">>)
      BY <2>2 DEF ConnectEstablished, kernelVars, serverVars, At
    <3>2. Starting /\ channel_ \in ChannelType
      BY <2>2 DEF EventsInv, StartInv, StreamInv, Typed
    <3>3. isReading(channel_') /\ ~isWriting(channel_')
      BY <3>1, <3>2, ChannelDoes, Zenon DEF Starting, NewChannel, isWriting, kWriteEvent
    <3>4. Agrees'
      BY <3>1, <3>2, <3>3 DEF Agrees, Starting, isReading, isWriting
    <3>5. todo' \in Seq(Steps) /\ (NeverCloses(use) => todo' \in Seq(OpenSteps))
      <4>1. <<"callback">> \in Seq(OpenSteps) /\ <<"callback">> \in Seq(Steps)
        BY OpenStepsAre
      <4> QED BY <3>1, <4>1, PushKeeps, Zenon
    <3>6. OpenInv'
      BY <3>1, <3>5, <1>OpenKept, <1>OpenQueues
    <3> QED BY <3>1, <3>4, <3>5, <3>6 DEF EventsInv, StartInv
  <2> QED BY <2>1, <2>2
<1>ConnectDestroyedEvents.
  ASSUME StreamInv, EventsInv, ConnectDestroyed
  PROVE  EventsInv'
  <2> USE <1>ConnectDestroyedEvents
  <2>1. /\ UNCHANGED <<use, outputBuffer_, reading_>> /\ At("connectDestroyed") /\ todo # <<>>
        /\ \/ state_' = "kDisconnected"
           \/ UNCHANGED <<state_, channel_>>
        /\ Push(<<"callback", "remove">>) \/ Push(<<"remove">>)
    BY DEF ConnectDestroyed, serverVars, At
  <2>2. ~NeverCloses(use)
    BY <2>1, OpenHead DEF OpenSteps
  <2>3. todo' \in Seq(Steps)
    <3>1. <<"callback", "remove">> \in Seq(Steps) /\ <<"remove">> \in Seq(Steps)
      BY DEF Steps
    <3> QED BY <2>1, <2>2, <3>1, PushKeeps, Zenon
  <2>4. StartInv'
    BY <2>1, NotWhileStarting DEF StartInv
  <2>5. (Polite(use) => Agrees)'
    BY <2>1, <1>AgreeKept, <1>DownAgrees
  <2> QED BY <2>1, <2>2, <2>3, <2>4, <2>5 DEF EventsInv, OpenInv
<1>RemoveChannelEvents.
  ASSUME StreamInv, EventsInv, RemoveChannel
  PROVE  EventsInv'
  <2> USE <1>RemoveChannelEvents
  <2>1. CASE Abort("remove") \/ Abort("listed")
    BY <2>1, <1>AbortIsEventsStill, <1>EventsStillInv
  <2>2. CASE ~(Abort("remove") \/ Abort("listed"))
    <3>1. /\ UNCHANGED <<use, state_, outputBuffer_, reading_>> /\ channel_' = remove(channel_)
          /\ At("remove") /\ todo # <<>> /\ Push(<<>>)
      BY <2>2 DEF RemoveChannel, serverVars, At
    <3>2. ~NeverCloses(use)
      BY <3>1, OpenHead DEF OpenSteps
    <3>3. todo' \in Seq(Steps)
      BY <3>1, PopKeeps, Zenon
    <3>4. StartInv'
      BY <3>1, NotWhileStarting DEF StartInv
    <3>5. channel_ \in ChannelType
      BY Zenon DEF StreamInv, Typed
    <3>6. (Polite(use) => Agrees)'
      BY <3>1, <3>5, ChannelDoes, <1>AgreeKept
    <3> QED BY <3>1, <3>2, <3>3, <3>4, <3>6 DEF EventsInv, OpenInv
  <2> QED BY <2>1, <2>2
<1>SwapEvents.
  ASSUME StreamInv, EventsInv, Swap \/ FunctorsDone
  PROVE  EventsInv'
  <2> USE <1>SwapEvents
  <2> USE DEF connVars, kernelVars, userVars, serverVars, lifeVars
  <2>1. /\ UNCHANGED <<use, state_, channel_, outputBuffer_, reading_, fin, holds, pc, todo>>
        /\ UNCHANGED <<peer, soError, timer, baseQueue, revents_>>
        /\ todo = <<>>
        /\ \/ phase = "events" /\ phase' = "functors" /\ batch' = pending /\ pending' = <<>>
           \/ phase = "functors" /\ batch = <<>> /\ UNCHANGED <<pending, batch>>
    BY DEF Swap, FunctorsDone
  <2>2. StartInv'
    <3>1. SUFFICES ASSUME state_ = "kConnecting" PROVE Starting'
      BY <2>1 DEF StartInv
    <3>2. Starting
      BY <3>1 DEF EventsInv, StartInv
    <3>3. phase = "events" /\ ~use.sameLoop /\ pending # <<>> /\ Head(pending).fn = "connectEstablished"
      BY <2>1, <3>2 DEF Starting
    <3> QED BY <2>1, <3>2, <3>3 DEF Starting
  <2>3. OpenInv'
    <3>1. <<>> \in Seq(OpenFunctors)
      OBVIOUS
    <3>2. NeverCloses(use) => state_ # "kDisconnected" /\ todo \in Seq(OpenSteps)
      BY DEF EventsInv, OpenInv, StaysOpen
    <3> QED BY <2>1, <3>1, <3>2, <1>OpenKept, <1>OpenQueues, Zenon
  <2>4. (Polite(use) => Agrees)'
    BY <2>1, <1>AgreeKept
  <2> QED BY <2>1, <2>2, <2>3, <2>4, Zenon DEF EventsInv
<1>RunStepsEvents.
  ASSUME StreamInv, EventsInv, RunSteps
  PROVE  EventsInv'
  <2> USE <1>RunStepsEvents
  <2> USE DEF connVars, kernelVars, userVars, serverVars, lifeVars
  <2>1. /\ UNCHANGED <<use, state_, channel_, outputBuffer_, reading_, fin, holds, pc, phase, held, pending>>
        /\ UNCHANGED <<peer, soError, timer, baseQueue, revents_>>
        /\ todo = <<>> /\ batch # <<>> /\ Head(batch).fn \in SharedFns \ {"forceCloseInLoop"}
        /\ phase = "functors" /\ batch' = Tail(batch) /\ todo' = <<Head(batch).fn>>
    BY DEF RunSteps, NextFunctor
  <2>2. todo' \in Seq(Steps)
    <3>1. Head(batch).fn \in Steps
      BY <2>1, Zenon DEF SharedFns, Steps
    <3> QED BY <2>1, <3>1
  <2>3. StartInv'
    <3>1. SUFFICES ASSUME state_ = "kConnecting" PROVE Starting'
      BY <2>1 DEF StartInv
    <3>2. Starting
      BY <3>1 DEF EventsInv, StartInv
    <3>3. ~use.sameLoop /\ Head(batch).fn = "connectEstablished"
      BY <2>1, <3>2 DEF Starting
    <3> QED BY <2>1, <3>2, <3>3 DEF Starting
  <2>4. OpenInv'
    <3>1. SUFFICES ASSUME NeverCloses(use)
                   PROVE  /\ state_ # "kDisconnected" /\ todo' \in Seq(OpenSteps)
                          /\ pending \in Seq(OpenFunctors) /\ Tail(batch) \in Seq(OpenFunctors)
      BY <2>1, <1>OpenKept
    <3>2. Head(batch) \in OpenFunctors /\ pending \in Seq(OpenFunctors) /\ Tail(batch) \in Seq(OpenFunctors)
      BY <2>1, <3>1, <1>OpenQueues
    <3>3. Head(batch).fn \in {"connectEstablished", "callback"}
      BY <2>1, <3>2 DEF OpenFunctors, SharedFns
    <3>4. Head(batch).fn \in OpenSteps
      BY <3>3, OpenStepsAre
    <3>5. todo' \in Seq(OpenSteps)
      BY <2>1, <3>4
    <3> QED BY <3>1, <3>2, <3>5 DEF EventsInv, OpenInv, StaysOpen
  <2>5. (Polite(use) => Agrees)'
    BY <2>1, <1>AgreeKept
  <2> QED BY <2>2, <2>3, <2>4, <2>5, Zenon DEF EventsInv
<1>RunForceCloseEvents.
  ASSUME StreamInv, EventsInv, RunForceClose
  PROVE  EventsInv'
  <2> USE <1>RunForceCloseEvents
  <2>1. NextFunctor({"forceCloseInLoop"}) /\ batch # <<>> /\ Head(batch).fn = "forceCloseInLoop"
    BY DEF RunForceClose, NextFunctor
  <2>2. ~NeverCloses(use)
    BY <2>1, <1>OpenQueues DEF OpenFunctors
  <2>3. CASE CallHandleClose(<<>>)
    <3>1. <<>> \in Seq(Steps)
      OBVIOUS
    <3> QED BY <2>2, <2>3, <3>1, <1>CloseEvents, Zenon
  <2>4. CASE ~CallHandleClose(<<>>)
    <3>1. UNCHANGED <<use, state_, channel_, outputBuffer_, reading_, todo>>
      BY <2>4 DEF RunForceClose, connVars, serverVars
    <3>2. StartInv'
      BY <2>1, <3>1, NotWhileStarting DEF StartInv
    <3>3. (Polite(use) => Agrees)'
      BY <3>1, <1>AgreeKept
    <3> QED BY <2>2, <3>1, <3>2, <3>3 DEF EventsInv, OpenInv
  <2> QED BY <2>3, <2>4
<1>CallbackIsOpen.
  Functor("callback") \in OpenFunctors
    BY EmptyData DEF OpenFunctors, Functor
\* sendInLoop() and the events.
<1>SendAgrees.
  ASSUME StreamInv, EventsInv, NEW data \in Bytes, sendInLoop(data, pending),
         UNCHANGED <<use, state_, reading_, fin, peer>>
  PROVE  /\ (Polite(use) => Agrees)'
         /\ NeverCloses(use) => pending' \in Seq(OpenFunctors)
  <2> USE <1>SendAgrees
  <2>1. pending \in Seq(FunctorType)
    BY Zenon DEF StreamInv, Typed
  <2>2. /\ isWriting(channel_') => outputBuffer_' # <<>>
        /\ isReading(channel_') <=> isReading(channel_)
        /\ (outputBuffer_ # <<>> => isWriting(channel_)) => (outputBuffer_' # <<>> => isWriting(channel_'))
    BY <2>1, SendDoes DEF OutputInv, isWriting
  <2>3. (Polite(use) => Agrees)'
    BY <2>2 DEF EventsInv, Agrees, isWriting, isReading
  <2>4. NeverCloses(use) => pending' \in Seq(OpenFunctors)
    BY SendQueues, <1>CallbackIsOpen, <1>OpenQueues, Zenon
  <2> QED BY <2>3, <2>4, Zenon
\* startReadInLoop() and stopReadInLoop() set reading_ and the events together.
<1>ReadAgrees.
  ASSUME StreamInv, EventsInv, startReadInLoop \/ stopReadInLoop, UNCHANGED <<use, state_, outputBuffer_>>
  PROVE  (Polite(use) => Agrees)'
  <2> USE <1>ReadAgrees
  <2>1. channel_ \in ChannelType
    BY DEF StreamInv, Typed
  <2>2. CASE UNCHANGED <<channel_, reading_>>
    BY <2>2, <1>AgreeKept, Zenon
  <2>3. CASE channel_' = enableReading(channel_) /\ reading_' = TRUE
    BY <2>1, <2>3, ChannelDoes, Zenon DEF EventsInv, Agrees, isReading, isWriting
  <2>4. CASE channel_' = disableReading(channel_) /\ reading_' = FALSE
    BY <2>1, <2>4, ChannelDoes DEF EventsInv, Agrees, isReading, isWriting
  <2> QED BY <2>2, <2>3, <2>4, Zenon DEF startReadInLoop, stopReadInLoop
<1>RunRawEvents.
  ASSUME StreamInv, EventsInv, RunRaw
  PROVE  EventsInv'
  <2> USE <1>RunRawEvents
  <2>1. CASE ~Strong
    BY <2>1, <1>AbortIsEventsStill, <1>EventsStillInv DEF RunRaw
  <2>2. CASE Strong
    <3>1. /\ UNCHANGED <<use, state_, peer, soError, todo, revents_, timer, baseQueue>>
          /\ batch # <<>> /\ batch' = Tail(batch) /\ Head(batch).fn \in RawFns /\ NextFunctor(RawFns)
      BY <2>2, Zenon DEF RunRaw, NextFunctor, serverVars
    <3>2. StartInv'
      BY <3>1, NotWhileStarting, Zenon DEF StartInv, RawFns
    <3>3. Head(batch).data \in Bytes
      <4>0. batch \in Seq(FunctorType)
        BY Zenon DEF StreamInv, Typed
      <4>1. Head(batch) \in FunctorType
        BY <3>1, <4>0, SeqOf, Zenon
      <4> QED BY <4>1 DEF FunctorType
    <3>4. CASE Head(batch).fn = "sendInLoop"
      <4>1. sendInLoop(Head(batch).data, pending) /\ UNCHANGED <<reading_, fin>>
        BY <2>2, <3>4, Zenon DEF RunRaw
      <4>2. (Polite(use) => Agrees)' /\ (NeverCloses(use) => pending' \in Seq(OpenFunctors))
        BY <3>1, <3>3, <4>1, <1>SendAgrees, Zenon
      <4>3. OpenInv'
        BY <3>1, <4>2, <1>OpenKept, <1>OpenQueues DEF EventsInv, OpenInv, StaysOpen
      <4> QED BY <3>1, <3>2, <4>2, <4>3 DEF EventsInv
    <3>5. CASE Head(batch).fn # "sendInLoop"
      <4>1. /\ UNCHANGED <<outputBuffer_, pending>>
            /\ UNCHANGED <<channel_, reading_>> \/ startReadInLoop \/ stopReadInLoop
        BY <2>2, <3>1, <3>5, Zenon DEF RunRaw, RawFns
      <4>2. (Polite(use) => Agrees)'
        BY <3>1, <4>1, <1>AgreeKept, <1>ReadAgrees, Zenon
      <4>3. OpenInv'
        BY <3>1, <4>1, <1>OpenKept, <1>OpenQueues DEF EventsInv, OpenInv, StaysOpen
      <4> QED BY <3>1, <3>2, <4>2, <4>3 DEF EventsInv
    <3> QED BY <3>4, <3>5
  <2> QED BY <2>1, <2>2
<1>LoopSendEvents.
  ASSUME StreamInv, EventsInv, LoopSend
  PROVE  EventsInv'
  <2> USE <1>LoopSendEvents
  <2>1. /\ UNCHANGED <<use, state_, reading_, fin, peer, soError, todo, revents_, timer, baseQueue, batch>>
        /\ UserCode("send") /\ sendInLoop(Message(LoopUser), pending) /\ sent[LoopUser] < MaxSends
    BY DEF LoopSend, serverVars
  <2>2. Message(LoopUser) \in Bytes
    BY <2>1, MessageIsBytes, Zenon DEF StreamInv, Users
  <2>3. (Polite(use) => Agrees)' /\ (NeverCloses(use) => pending' \in Seq(OpenFunctors))
    BY <2>1, <2>2, <1>SendAgrees
  <2>4. StartInv'
    BY <2>1, NotWhileStarting, Zenon DEF StartInv
  <2>5. OpenInv'
    BY <2>1, <2>3, <1>OpenKept, <1>OpenQueues DEF EventsInv, OpenInv, StaysOpen
  <2> QED BY <2>1, <2>3, <2>4, <2>5 DEF EventsInv
<1>LoopReadEvents.
  ASSUME StreamInv, EventsInv, LoopRead
  PROVE  EventsInv'
  <2> USE <1>LoopReadEvents
  <2>1. /\ UNCHANGED <<use, state_, outputBuffer_, peer, soError, todo, revents_, timer, baseQueue, pending, batch>>
        /\ startReadInLoop \/ stopReadInLoop
        /\ UserCode("startRead") \/ UserCode("stopRead") \/ UserCode("pauseRead")
    BY DEF LoopRead, kernelVars, loopVars, serverVars, lifeVars
  <2>2. (Polite(use) => Agrees)'
    BY <2>1, <1>ReadAgrees
  <2>3. StartInv'
    BY <2>1, NotWhileStarting, Zenon DEF StartInv
  <2>4. OpenInv'
    BY <2>1, <1>OpenKept, <1>OpenQueues DEF EventsInv, OpenInv, StaysOpen
  <2> QED BY <2>1, <2>2, <2>3, <2>4 DEF EventsInv
<1>LoopShutdownEvents.
  ASSUME StreamInv, EventsInv, LoopShutdown
  PROVE  EventsInv'
  <2> USE <1>LoopShutdownEvents
  <2>1. /\ UNCHANGED <<use, reading_, channel_, outputBuffer_, peer, soError, todo, revents_, timer, baseQueue>>
        /\ UNCHANGED <<pending, batch>>
        /\ state_ = "kConnected" /\ state_' = "kDisconnecting"
    BY DEF LoopShutdown, loopVars, serverVars, lifeVars
  <2>2. (Polite(use) => Agrees)'
    BY <2>1, <1>AgreeKept, Zenon DEF Up
  <2>3. OpenInv'
    BY <2>1, <1>OpenKept, <1>OpenQueues DEF EventsInv, OpenInv, StaysOpen
  <2> QED BY <2>1, <2>2, <2>3 DEF EventsInv, StartInv
<1>LoopForceCloseEvents.
  ASSUME StreamInv, EventsInv, LoopForceClose \/ LoopForceCloseWithDelay
  PROVE  EventsInv'
  <2> USE <1>LoopForceCloseEvents
  <2>1. /\ UNCHANGED <<use, reading_, channel_, outputBuffer_, todo>>
        /\ state_ \in Up /\ state_' = "kDisconnecting"
        /\ UserCode("forceClose") \/ UserCode("forceCloseWithDelay")
    BY Zenon DEF LoopForceClose, LoopForceCloseWithDelay, forceClose, loopVars, serverVars, Up
  <2>2. ~NeverCloses(use)
    BY <2>1 DEF UserCode, NeverCloses
  <2>3. (Polite(use) => Agrees)'
    BY <2>1, <1>AgreeKept DEF Up
  <2> QED BY <2>1, <2>2, <2>3, Zenon DEF EventsInv, StartInv, OpenInv
<1>TimerFiresEvents.
  ASSUME StreamInv, EventsInv, TimerFires
  PROVE  EventsInv'
  <2> USE <1>TimerFiresEvents
  <2>1. /\ UNCHANGED <<use, reading_, channel_, outputBuffer_, fin, holds, pc, phase, held, todo, batch>>
        /\ \/ UNCHANGED <<state_, pending>>
           \/ state_ \in Up /\ state_' = "kDisconnecting"
        /\ timer
    BY DEF TimerFires, forceClose, kernelVars, userVars, serverVars, Up
  <2>2. ~NeverCloses(use)
    BY <2>1 DEF EventsInv, OpenInv, StaysOpen
  <2>3. (Polite(use) => Agrees)'
    BY <2>1, <1>AgreeKept, Zenon DEF Up
  <2>4. StartInv'
    BY <2>1, Zenon DEF EventsInv, StartInv, Starting, Up
  <2> QED BY <2>1, <2>2, <2>3, <2>4, Zenon DEF EventsInv, OpenInv
<1>ThreadEvents.
  ASSUME StreamInv, EventsInv, NEW t \in Threads,
         SetDisconnecting(t) \/ QueueFunctor(t) \/ \E op \in use.threads : Call(t, op)
  PROVE  EventsInv'
  <2> USE <1>ThreadEvents
  <2> USE DEF connVars, kernelVars, loopVars, userVars, serverVars, lifeVars
  <2>1. /\ UNCHANGED <<use, reading_, channel_, outputBuffer_, peer, soError, todo, revents_, timer, baseQueue, batch>>
        /\ state_' = state_ \/ SetDisconnecting(t)
        /\ pending' = pending \/ QueueFunctor(t)
        /\ t \in holds \/ pc[t].at # "idle"
    BY Zenon DEF SetDisconnecting, QueueFunctor, Call
  <2>2. state_ # "kConnecting"
    BY <2>1, NotWhileStarting
  <2>3. CASE SetDisconnecting(t)
    <3>1. pc[t].at = "set" /\ state_' = "kDisconnecting" /\ pending' = pending
      BY <2>3 DEF SetDisconnecting
    <3>2. pc[t].op \in use.threads \cap Closing
      BY <3>1, Zenon DEF StreamInv, Typed, Closing
    <3>3. Polite(use) => Agrees /\ state_ # "kDisconnected"
      BY <3>2, Zenon DEF Polite, EventsInv, OpenInv, StaysOpen
    <3>4. (Polite(use) => Agrees)'
      <4>1. Polite(use) => (isWriting(channel_) <=> outputBuffer_ # <<>>)
        BY <3>3 DEF Agrees
      <4>2. Polite(use) => (reading_ <=> isReading(channel_))
        BY <2>2, <3>3, Zenon DEF Agrees
      <4> QED BY <2>1, <3>1, <4>1, <4>2, Zenon DEF Agrees
    <3>5. OpenInv'
      BY <2>1, <3>1, <1>OpenKept, <1>OpenQueues, Zenon DEF EventsInv, OpenInv, StaysOpen
    <3> QED BY <2>1, <3>1, <3>4, <3>5, Zenon DEF EventsInv, StartInv
  <2>4. CASE state_' = state_
    <3>1. (Polite(use) => Agrees)'
      BY <2>1, <2>4, <1>AgreeKept, Zenon
    <3>2. NeverCloses(use) => pending' \in Seq(OpenFunctors)
      <4>1. CASE pending' = pending
        BY <4>1, <1>OpenQueues
      <4>2. CASE QueueFunctor(t)
        <5>1. pending' = Append(pending, FunctorOf(t)) /\ pc[t].at = "queue"
          BY <4>2, Zenon DEF QueueFunctor
        <5>2. pc[t].op \in use.threads /\ (pc[t].op = "send" => sent[t] < MaxSends)
          BY <5>1, Zenon DEF StreamInv, Typed
        <5>3. NeverCloses(use) => pc[t].op \in {"send", "shutdown", "startRead", "stopRead"}
          BY <5>2, ConnectionAssumption, Zenon DEF StreamInv, Typed, Usage, Ops, Closing, NeverCloses
        <5>4. CASE pc[t].op = "send"
          <6>1. Message(t) \in Bytes
            BY <5>2, <5>4, MessageIsBytes, Zenon DEF StreamInv, Users
          <6>2. FunctorOf(t) = [fn |-> "sendInLoop", data |-> Message(t)]
            BY <5>4 DEF FunctorOf
          <6>3. FunctorOf(t) \in OpenFunctors
            BY <6>1, <6>2, SendFunctor, Zenon
          <6> QED BY <5>1, <6>3, <1>OpenQueues, Zenon
        <5>5. CASE pc[t].op # "send"
          <6>1. NeverCloses(use) => \E fn \in RawFns : FunctorOf(t) = Functor(fn)
            BY <5>3, <5>5 DEF FunctorOf, RawFns
          <6>2. \A fn \in RawFns : Functor(fn) \in OpenFunctors
            BY EmptyData, Zenon DEF OpenFunctors, Functor, RawFns
          <6>3. NeverCloses(use) => FunctorOf(t) \in OpenFunctors
            BY <6>1, <6>2
          <6> QED BY <5>1, <6>3, <1>OpenQueues
        <5> QED BY <5>4, <5>5, Zenon
      <4> QED BY <2>1, <4>1, <4>2, Zenon
    <3>3. OpenInv'
      BY <2>1, <2>4, <3>2, <1>OpenKept, <1>OpenQueues, Zenon DEF EventsInv, OpenInv, StaysOpen
    <3> QED BY <2>1, <2>2, <2>4, <3>1, <3>3, Zenon DEF EventsInv, StartInv
  <2> QED BY <2>1, <2>3, <2>4
<1>OtherEvents.
  ASSUME StreamInv, EventsInv,
         (\E u \in Users : DropRef(u)) \/ Destruct \/ PeerSends \/ PeerReads \/ PeerCloses \/ PeerResets
  PROVE  EventsInv'
  <2> USE <1>OtherEvents
  <2> USE DEF connVars, kernelVars, loopVars, userVars, serverVars, lifeVars
  <2>1. CASE Destruct \/ PeerSends \/ PeerReads
    <3>1. EventsStill
      BY <2>1 DEF Destruct, PeerSends, PeerReads, Abort, EventsStill
    <3> QED BY <3>1, <1>EventsStillInv
  <2>2. ASSUME NEW u \in Users, DropRef(u) PROVE EventsInv'
    <3>1. /\ UNCHANGED <<use, state_, reading_, channel_, outputBuffer_, peer, soError, todo, revents_, timer>>
          /\ UNCHANGED <<baseQueue, pending, batch, fin, pc, phase, held>>
          /\ holds' = holds \ {u}
      BY <2>2, Zenon DEF DropRef
    <3>2. StartInv'
      BY <3>1 DEF EventsInv, StartInv, Starting
    <3>3. OpenInv'
      BY <3>1, Zenon DEF EventsInv, OpenInv, StaysOpen
    <3> QED BY <3>1, <3>2, <3>3, <1>AgreeKept, Zenon DEF EventsInv
  <2>3. CASE PeerCloses \/ PeerResets
    <3>1. /\ UNCHANGED <<use, state_, reading_, channel_, outputBuffer_, todo>>
          /\ UNCHANGED <<holds, pending, batch, fin, pc, phase, held>>
          /\ ~(use.peer \subseteq {"send"})
      BY <2>3, Zenon DEF PeerCloses, PeerResets
    <3>2. StartInv'
      BY <3>1, Zenon DEF EventsInv, StartInv, Starting
    <3>3. OpenInv'
      BY <3>1, Zenon DEF OpenInv, NeverCloses
    <3> QED BY <3>1, <3>2, <3>3, <1>AgreeKept DEF EventsInv
  <2> QED BY <2>1, <2>2, <2>3
<1> SUFFICES ASSUME StreamInv, EventsInv, [Next]_vars PROVE EventsInv'
  OBVIOUS
<1>1. CASE UNCHANGED vars
  <2>1. EventsStill
    BY <1>1 DEF vars, EventsStill, connVars, kernelVars, loopVars, userVars, serverVars, lifeVars
  <2> QED BY <2>1, <1>EventsStillInv, Zenon
<1>2. CASE LoopThread
  BY <1>2, <1>PollEvents, <1>PlainHandlers, <1>HandleHupEvents, <1>HandleWriteEvents, <1>CloseCallbackEvents,
     <1>ConnectEstablishedEvents, <1>ConnectDestroyedEvents, <1>RemoveChannelEvents, <1>SwapEvents, <1>RunRawEvents,
     <1>RunForceCloseEvents, <1>RunStepsEvents
     DEF LoopThread, Handlers, Functors
<1>3. CASE LoopCalls \/ TimerFires
  BY <1>3, <1>LoopSendEvents, <1>LoopShutdownEvents, <1>LoopForceCloseEvents, <1>LoopReadEvents,
     <1>TimerFiresEvents, Zenon DEF LoopCalls
<1>4. CASE ThreadCalls
  BY <1>4, <1>ThreadEvents DEF ThreadCalls
<1>5. CASE (\E u \in Users : DropRef(u)) \/ Destruct \/ Peer
  BY <1>5, <1>OtherEvents DEF Peer
<1>6. CASE BaseRemove \/ ServerDtor
  BY <1>6, <1>BaseRemoveEvents, <1>ServerDtorEvents
<1> QED BY <1>1, <1>2, <1>3, <1>4, <1>5, <1>6 DEF Next

\* As long as other threads do not close a connection that something else may close:
\* EPOLLOUT is watched exactly while output waits, and EPOLLIN while reading_ is set.
THEOREM EventsStayInStep ==
  ASSUME \A u \in Usages : Polite(u)
  PROVE  Spec => []EventsAgree
<1>1. StreamInv /\ EventsInv => EventsAgree
  BY Zenon DEF StreamInv, Typed, EventsInv, Agrees, EventsAgree
<1> QED BY <1>1, StreamInitially, StreamInductive, EventsInitially, EventsInductive, PTL DEF Spec

(***************************************************************************)
(* FIN goes out after what was sent before shutdown(), in an ordered usage.*)
(***************************************************************************)

ShutDown == "shutdown" \in use.threads /\ state_ \notin {"kConnecting", "kConnected"}

\* Every byte of the loop user's k-th message is in s.
Whole(s, k) == \A i \in 1..MsgLen : Contains(s, <<LoopUser, k, i>>)

FinInv ==
  /\ promised \in [Users -> 0..MaxSends] /\ fin \in BOOLEAN
  /\ fin => state_ \notin {"kConnecting", "kConnected"}
  /\ ~ShutDown => /\ pending \in Seq(OtherFunctors) /\ batch \in Seq(OtherFunctors)
                  /\ \A t \in Threads : pc[t].op = "shutdown" => pc[t].at # "queue"
  /\ "send" \notin use.threads => \A t \in Threads : sent[t] = 0
  /\ ~({"send", "shutdown"} \subseteq use.threads) => \A t \in Threads : promised[t] = 0
  /\ promised[LoopUser] <= sent[LoopUser]
  /\ \A k \in 1..sent[LoopUser] : Whole(accepted, k)
  /\ Ordered(use) /\ fin /\ peer # "reset" => \A k \in 1..promised[LoopUser] : Whole(wire, k)

\* state_ never goes back to kConnecting or kConnected.
Forward == state_' = state_ \/ state_' \in {"kDisconnecting", "kDisconnected"} \/ state_ = "kConnecting"

LEMMA OtherFunctorsAre ==
  \A fn \in (SharedFns \cup RawFns) \ {"shutdownInLoop"} : Functor(fn) \in OtherFunctors
  BY EmptyData, Zenon DEF OtherFunctors, Functor

LEMMA FinInitially == Init => FinInv
<1> SUFFICES ASSUME Init PROVE FinInv
  OBVIOUS
<1>1. Functor("connectEstablished") \in OtherFunctors
  BY OtherFunctorsAre DEF SharedFns
<1>2. pending \in Seq(OtherFunctors) /\ batch \in Seq(OtherFunctors)
  BY <1>1 DEF Init
<1>3. promised \in [Users -> 0..MaxSends] /\ \A u \in Users : promised[u] = 0 /\ sent[u] = 0
  BY ConnectionAssumption DEF Init
<1>4. \A t \in Threads : pc[t].op # "shutdown"
  BY DEF Init, Idle
<1>5. LoopUser \in Users /\ Threads \subseteq Users
  BY DEF Users
<1>6. promised[LoopUser] = 0 /\ sent[LoopUser] = 0 /\ \A t \in Threads : promised[t] = 0 /\ sent[t] = 0
  BY <1>3, <1>5
<1>7. fin = FALSE /\ promised[LoopUser] <= sent[LoopUser]
  BY <1>6 DEF Init
<1>8. \A k \in 1..sent[LoopUser] : Whole(accepted, k)
  BY <1>6
<1> QED BY <1>2, <1>3, <1>4, <1>6, <1>7, <1>8, Zenon DEF FinInv

LEMMA FinInductive == StreamInv /\ EventsInv /\ FinInv /\ [Next]_vars => FinInv'
<1>ContainedInLonger.
  ASSUME NEW s \in Bytes, NEW t \in Bytes, NEW e, Contains(s, e) \/ Contains(t, e)
  PROVE  Contains(s \o t, e)
  <2> USE <1>ContainedInLonger
  <2> USE DEF Bytes
  <2>1. CASE Contains(s, e)
    <3>1. PICK i \in 1..Len(s) : s[i] = e
      BY <2>1 DEF Contains
    <3>2. i \in 1..Len(s \o t) /\ (s \o t)[i] = e
      BY <3>1
    <3> QED BY <3>2 DEF Contains
  <2>2. CASE Contains(t, e)
    <3>1. PICK i \in 1..Len(t) : t[i] = e
      BY <2>2 DEF Contains
    <3>2. Len(s) + i \in 1..Len(s \o t) /\ (s \o t)[Len(s) + i] = e
      BY <3>1
    <3> QED BY <3>2, Zenon DEF Contains
  <2> QED BY <2>1, <2>2
<1>PromisesWereSent.
  ASSUME StreamInv, FinInv
  PROVE  promised[LoopUser] \in 0..sent[LoopUser]
  <2> USE <1>PromisesWereSent
  <2>1. promised \in [Users -> 0..MaxSends] /\ promised[LoopUser] <= sent[LoopUser] /\ LoopUser \in Users
    BY Zenon DEF FinInv, Users
  <2>2. sent \in [Users -> 0..MaxSends]
    BY Zenon DEF StreamInv, Typed
  <2>3. promised[LoopUser] \in 0..MaxSends /\ sent[LoopUser] \in 0..MaxSends
    BY <2>1, <2>2, Zenon
  <2> QED BY <2>1, <2>3
\* Steps that touch neither the stream nor the threads' calls.
<1>FinKept.
  ASSUME StreamInv, FinInv, UNCHANGED <<use, wire, accepted, fin, sent, promised, pc>>, Forward,
         peer = "reset" => peer' = "reset",
         pending' \in {pending, <<>>} \/ \E f \in OtherFunctors : pending' = Append(pending, f),
         batch' \in {batch, pending} \/ (batch # <<>> /\ batch' = Tail(batch))
  PROVE  FinInv'
  <2> USE <1>FinKept
  <2>1. ShutDown => ShutDown'
    BY Zenon DEF ShutDown, Forward
  <2>2. fin => state_' \notin {"kConnecting", "kConnected"}
    BY DEF FinInv, Forward
  <2>3. ~ShutDown => pending' \in Seq(OtherFunctors) /\ batch' \in Seq(OtherFunctors)
    <3>1. SUFFICES ASSUME ~ShutDown PROVE pending' \in Seq(OtherFunctors) /\ batch' \in Seq(OtherFunctors)
      BY Zenon
    <3>2. pending \in Seq(OtherFunctors) /\ batch \in Seq(OtherFunctors)
      BY <3>1 DEF FinInv
    <3>3. <<>> \in Seq(OtherFunctors) /\ \A f \in OtherFunctors : Append(pending, f) \in Seq(OtherFunctors)
      BY <3>2
    <3>4. batch # <<>> => Tail(batch) \in Seq(OtherFunctors)
      BY <3>2
    <3> QED BY <3>2, <3>3, <3>4, Zenon
  <2> QED BY <2>1, <2>2, <2>3, Zenon DEF FinInv
<1>AbortFin.
  ASSUME StreamInv, FinInv, NEW assertion, Abort(assertion)
  PROVE  FinInv'
    BY <1>AbortFin, <1>FinKept DEF Abort, Forward, connVars, kernelVars, loopVars, userVars, serverVars, lifeVars
<1>LoopFin.
  ASSUME StreamInv, FinInv,
         \/ Poll \/ CallbackReturns \/ HandleEvent \/ HandleHup \/ HandleError \/ HandleReadMessage \/ HandleReadEnd
         \/ EndScope \/ ConnectEstablished \/ ConnectDestroyed \/ RemoveChannel
  PROVE  FinInv'
  <2> USE <1>LoopFin
  <2> USE DEF connVars, kernelVars, loopVars, userVars, serverVars, lifeVars
  <2>1. CASE Abort("handleClose") \/ Abort("established") \/ Abort("remove") \/ Abort("listed")
    BY <2>1, <1>AbortFin
  <2>2. CASE ~(Abort("handleClose") \/ Abort("established") \/ Abort("remove") \/ Abort("listed"))
    <3>1. /\ UNCHANGED <<use, wire, accepted, fin, sent, promised, pc, peer, pending, batch>>
          /\ Forward
      <4>1. CASE Poll \/ CallbackReturns \/ HandleEvent
        BY <4>1, Zenon DEF Poll, CallbackReturns, HandleEvent, Forward
      <4>2. CASE HandleHup \/ HandleReadEnd
        BY <2>2, <4>2, Zenon DEF HandleHup, HandleReadEnd, CallHandleClose, handleClose, Forward
      <4>3. CASE HandleError \/ HandleReadMessage \/ EndScope
        BY <4>3, Zenon DEF HandleError, HandleReadMessage, EndScope, Forward
      <4>4. CASE ConnectEstablished \/ ConnectDestroyed \/ RemoveChannel
        BY <2>2, <4>4, Zenon DEF ConnectEstablished, ConnectDestroyed, RemoveChannel, Forward
      <4> QED BY <4>1, <4>2, <4>3, <4>4
    <3> QED BY <3>1, <1>FinKept
  <2> QED BY <2>1, <2>2
<1>QueueFin.
  ASSUME StreamInv, FinInv,
         \/ CloseCallback \/ BaseRemove \/ ServerDtor \/ Swap \/ FunctorsDone \/ RunForceClose \/ RunSteps
         \/ LoopForceClose \/ LoopForceCloseWithDelay \/ LoopRead \/ TimerFires
  PROVE  FinInv'
  <2> USE <1>QueueFin
  <2> USE DEF connVars, kernelVars, loopVars, userVars, serverVars, lifeVars
  <2>1. CASE Abort("server") \/ Abort("erase") \/ Abort("channelDtor")
    BY <2>1, <1>AbortFin
  <2>2. CASE ~(Abort("server") \/ Abort("erase") \/ Abort("channelDtor"))
    <3>1. /\ UNCHANGED <<use, wire, accepted, fin, sent, promised, pc, peer>>
          /\ Forward
          /\ \/ pending' \in {pending, <<>>}
             \/ pending' = Append(pending, Functor("connectDestroyed"))
             \/ pending' = Append(pending, Functor("forceCloseInLoop"))
          /\ batch' \in {batch, pending} \/ (batch # <<>> /\ batch' = Tail(batch))
      <4>1. CASE CloseCallback \/ BaseRemove
        BY <2>2, <4>1 DEF CloseCallback, BaseRemove, removeConnectionInLoop, Forward
      <4>2. CASE ServerDtor \/ Swap \/ FunctorsDone
        BY <2>2, <4>2, Zenon DEF ServerDtor, Swap, FunctorsDone, Forward
      <4>3. CASE RunForceClose \/ RunSteps
        BY <4>3, Zenon DEF RunForceClose, RunSteps, NextFunctor, CallHandleClose, handleClose, Forward
      <4>4. CASE LoopForceClose \/ LoopForceCloseWithDelay \/ LoopRead
        BY <4>4, Zenon DEF LoopForceClose, LoopForceCloseWithDelay, LoopRead, forceClose, Forward
      <4>5. CASE TimerFires
        BY <4>5 DEF TimerFires, forceClose, Forward
      <4> QED BY <4>1, <4>2, <4>3, <4>4, <4>5
    <3>2. Functor("connectDestroyed") \in OtherFunctors /\ Functor("forceCloseInLoop") \in OtherFunctors
      BY OtherFunctorsAre DEF SharedFns
    <3> QED BY <3>1, <3>2, <1>FinKept, Zenon
  <2> QED BY <2>1, <2>2
<1>OtherFin.
  ASSUME StreamInv, FinInv,
         (\E u \in Users : DropRef(u)) \/ Destruct \/ PeerSends \/ PeerReads \/ PeerCloses \/ PeerResets
  PROVE  FinInv'
  <2> USE <1>OtherFin
  <2>1. /\ UNCHANGED <<use, wire, accepted, fin, sent, promised, pc, pending, batch>>
        /\ Forward /\ (peer = "reset" => peer' = "reset")
    BY DEF DropRef, Destruct, Abort, PeerSends, PeerReads, PeerCloses, PeerResets, Forward,
           connVars, kernelVars, loopVars, userVars, serverVars, lifeVars
  <2> QED BY <2>1, <1>FinKept
\* What was contained in the stream stays in it.
<1>StreamGrows.
  ASSUME StreamInv, NEW e, NEW took \in Bytes
  PROVE  /\ Contains(wire, e) => Contains(wire \o took, e)
         /\ Contains(accepted, e) => Contains(accepted \o took, e)
  <2> USE <1>StreamGrows
  <2>1. wire \in Bytes /\ accepted \in Bytes
    BY Zenon DEF StreamInv, Typed
  <2> QED BY <2>1, <1>ContainedInLonger
\* When FIN is sent nothing is missing, and so nothing that was promised.
<1>NothingMissing.
  ASSUME StreamInv, FinInv, wire' = accepted, promised'[LoopUser] \in 0..sent[LoopUser]
  PROVE  \A k \in 1..promised'[LoopUser] : Whole(wire', k)
  <2> USE <1>NothingMissing
  <2>0. sent \in [Users -> 0..MaxSends]
    BY Zenon DEF StreamInv, Typed
  <2>1. sent[LoopUser] \in Nat
    BY <2>0, ConnectionAssumption DEF Users
  <2>2. \A k \in 1..promised'[LoopUser] : k \in 1..sent[LoopUser]
    BY <2>1
  <2> QED BY <2>2, Zenon DEF FinInv
<1>RunRawFin.
  ASSUME StreamInv, EventsInv, FinInv, RunRaw
  PROVE  FinInv'
  <2> USE <1>RunRawFin
  <2>0. batch \in Seq(FunctorType) /\ pending \in Seq(FunctorType)
    BY Zenon DEF StreamInv, Typed
  <2>1. CASE ~Strong
    BY <2>1, <1>AbortFin DEF RunRaw
  <2>2. CASE Strong
    <3>1. /\ UNCHANGED <<use, state_, peer, sent, promised, pc>>
          /\ batch # <<>> /\ batch' = Tail(batch) /\ Head(batch).fn \in RawFns
      BY <2>2 DEF RunRaw, NextFunctor, userVars, serverVars
    <3>2. Head(batch).data \in Bytes
      <4>1. Head(batch) \in FunctorType
        BY <2>0, <3>1
      <4> QED BY <4>1 DEF FunctorType
    <3>3. CASE Head(batch).fn = "sendInLoop"
      <4>1. sendInLoop(Head(batch).data, pending) /\ fin' = fin
        BY <2>2, <3>3, Zenon DEF RunRaw
      <4>2. /\ \E took \in Bytes : wire' = wire \o took
            /\ accepted' \in {accepted, accepted \o Head(batch).data}
        BY <2>0, <3>1, <3>2, <4>1, SendDoes, Zenon
      <4>3. \A e : (Contains(wire, e) => Contains(wire', e)) /\ (Contains(accepted, e) => Contains(accepted', e))
        BY <3>2, <4>2, <1>StreamGrows, Zenon
      <4>4. ~ShutDown => pending' \in Seq(OtherFunctors) /\ batch' \in Seq(OtherFunctors)
        <5>1. SUFFICES ASSUME ~ShutDown PROVE pending' \in Seq(OtherFunctors) /\ batch' \in Seq(OtherFunctors)
          BY Zenon
        <5>2. pending \in Seq(OtherFunctors) /\ batch \in Seq(OtherFunctors)
          BY <5>1 DEF FinInv
        <5>3. Functor("callback") \in OtherFunctors
          BY OtherFunctorsAre DEF SharedFns
        <5>4. Append(pending, Functor("callback")) \in Seq(OtherFunctors) /\ Tail(batch) \in Seq(OtherFunctors)
          BY <3>1, <5>2, <5>3
        <5> QED BY <3>1, <4>1, <5>2, <5>4, SendQueues
      <4>5. ShutDown' <=> ShutDown
        BY <3>1 DEF ShutDown
      <4>6. \A k : (Whole(wire, k) => Whole(wire', k)) /\ (Whole(accepted, k) => Whole(accepted', k))
        BY <4>3, Zenon DEF Whole
      <4> QED BY <3>1, <4>1, <4>4, <4>5, <4>6, Zenon DEF FinInv
    <3>4. CASE Head(batch).fn = "shutdownInLoop"
      <4>1. fin' = (fin \/ ~isWriting(channel_)) /\ UNCHANGED <<wire, accepted, pending>>
        BY <2>2, <3>4, Zenon DEF RunRaw, shutdownInLoop
      <4>2. ShutDown
        <5>1. SUFFICES ASSUME ~ShutDown PROVE FALSE
          OBVIOUS
        <5>2. batch \in Seq(OtherFunctors)
          BY <5>1, Zenon DEF FinInv
        <5>3. Head(batch) \in OtherFunctors
          BY <3>1, <5>2
        <5> QED BY <3>4, <5>3 DEF OtherFunctors
      <4>3. ShutDown'
        BY <3>1, <4>2, Zenon DEF ShutDown
      <4>4. Ordered(use) /\ fin' /\ peer # "reset" => \A k \in 1..promised[LoopUser] : Whole(wire, k)
        <5>1. SUFFICES ASSUME Ordered(use), ~fin, ~isWriting(channel_), peer # "reset"
                       PROVE  \A k \in 1..promised[LoopUser] : Whole(wire, k)
          BY <4>1, Zenon DEF FinInv
        <5>2. NeverCloses(use)
          BY <4>2, <5>1 DEF ShutDown, Ordered, Polite, Closing
        <5>3. state_ # "kDisconnected" /\ Agrees
          BY <5>1, <5>2 DEF EventsInv, OpenInv, StaysOpen, Ordered
        <5>4. outputBuffer_ = <<>>
          BY <5>1, <5>3, Zenon DEF Agrees
        <5>5. wire \o outputBuffer_ = accepted /\ wire \o <<>> = wire
          BY <5>1, Concats, Zenon DEF StreamInv, OutputInv, StreamIntact, CanWrite, Typed
        <5>6. wire' = accepted
          BY <4>1, <5>4, <5>5
        <5>7. promised[LoopUser] \in 0..sent[LoopUser]
          BY <1>PromisesWereSent, Zenon
        <5> QED BY <3>1, <4>1, <5>6, <5>7, <1>NothingMissing, Zenon
      <4>5. fin' \in BOOLEAN
        BY <4>1, Zenon
      <4> QED BY <3>1, <4>1, <4>2, <4>3, <4>4, <4>5, Zenon DEF FinInv, ShutDown
    <3>5. CASE Head(batch).fn \notin {"sendInLoop", "shutdownInLoop"}
      <4>1. UNCHANGED <<wire, accepted, fin, pending>>
        BY <2>2, <3>1, <3>5, Zenon DEF RunRaw, RawFns
      <4> QED BY <3>1, <4>1, <1>FinKept DEF Forward
    <3> QED BY <3>3, <3>4, <3>5
  <2> QED BY <2>1, <2>2
<1>HandleWriteFin.
  ASSUME StreamInv, EventsInv, FinInv, HandleWrite
  PROVE  FinInv'
  <2> USE <1>HandleWriteFin
  <2>1. /\ UNCHANGED <<use, state_, peer, sent, promised, pc, batch>>
        /\ pending' \in {pending, Append(pending, Functor("callback"))}
        /\ fin' \in {fin, (fin \/ ~isWriting(disableWriting(channel_)))}
    BY DEF HandleWrite, Written, shutdownInLoop, userVars, serverVars
  <2>2. /\ accepted' = accepted /\ wire' \o outputBuffer_' = wire \o outputBuffer_
        /\ outputBuffer_' \in Bytes /\ wire' \in Bytes
        /\ \E took \in Bytes : wire' = wire \o took
        /\ fin => fin'
        /\ fin' => fin \/ (state_ = "kDisconnecting" /\ outputBuffer_' = <<>> /\ CanWrite)
    BY WriteDoes, Zenon
  <2>3. \A k : Whole(wire, k) => Whole(wire', k)
    BY <2>2, <1>StreamGrows, Zenon DEF Whole
  <2>4. ~ShutDown => pending' \in Seq(OtherFunctors)
    <3>1. Functor("callback") \in OtherFunctors
      BY OtherFunctorsAre DEF SharedFns
    <3>2. ~ShutDown => pending \in Seq(OtherFunctors)
      BY Zenon DEF FinInv
    <3> QED BY <2>1, <3>1, <3>2
  <2>5. ShutDown' <=> ShutDown
    BY <2>1 DEF ShutDown
  <2>6. fin' \in BOOLEAN
    BY <2>1, Zenon DEF FinInv
  <2>7. Ordered(use) /\ fin' /\ peer # "reset" => \A k \in 1..promised[LoopUser] : Whole(wire', k)
    <3>1. CASE fin
      BY <2>3, <3>1 DEF FinInv
    <3>2. CASE fin' /\ ~fin
      <4>1. outputBuffer_' = <<>> /\ CanWrite
        BY <2>2, <3>2
      <4>2. wire' = accepted
        BY <2>2, <4>1, Concats, Zenon DEF StreamInv, OutputInv, StreamIntact
      <4>3. promised[LoopUser] \in 0..sent[LoopUser]
        BY <1>PromisesWereSent, Zenon
      <4> QED BY <2>1, <4>2, <4>3, <1>NothingMissing, Zenon
    <3> QED BY <3>1, <3>2, Zenon
  <2>8. fin' => state_ \notin {"kConnecting", "kConnected"}
    BY <2>2, Zenon DEF FinInv
  <2> QED BY <2>1, <2>2, <2>4, <2>5, <2>6, <2>7, <2>8, Zenon DEF FinInv
<1>LoopSendFin.
  ASSUME StreamInv, EventsInv, FinInv, LoopSend
  PROVE  FinInv'
  <2> USE <1>LoopSendFin
  <2>1. /\ UNCHANGED <<use, state_, fin, peer, promised, pc, batch>>
        /\ state_ = "kConnected" /\ sendInLoop(Message(LoopUser), pending) /\ sent[LoopUser] < MaxSends
        /\ sent' = [sent EXCEPT ![LoopUser] = @ + 1]
    BY DEF LoopSend, serverVars
  <2>2. Message(LoopUser) \in Bytes /\ Whole(Message(LoopUser), sent[LoopUser] + 1)
    BY <2>1, MessageIsBytes, Zenon DEF StreamInv, Users, Whole
  <2>3. pending \in Seq(FunctorType) /\ accepted \in Bytes /\ sent \in [Users -> 0..MaxSends] /\ LoopUser \in Users
    BY DEF StreamInv, Typed, Users
  <2>4. accepted' = accepted \o Message(LoopUser)
    BY <2>1, <2>2, <2>3, SendDoes
  <2>5. sent'[LoopUser] = sent[LoopUser] + 1 /\ sent[LoopUser] \in Nat /\ \A t \in Threads : sent'[t] = sent[t]
    BY <2>1, <2>3, ConnectionAssumption DEF Users
  <2>6. \A k \in 1..sent'[LoopUser] : Whole(accepted', k)
    <3>1. TAKE k \in 1..sent'[LoopUser]
    <3>0. sent'[LoopUser] = sent[LoopUser] + 1 /\ sent[LoopUser] \in Nat
      BY <2>5, Zenon
    <3>2. k \in 1..sent[LoopUser] \/ k = sent[LoopUser] + 1
      BY <3>0
    <3>3. Whole(accepted, k) \/ Whole(Message(LoopUser), k)
      BY <2>2, <3>2, Zenon DEF FinInv
    <3> QED BY <2>2, <2>3, <2>4, <3>3, <1>ContainedInLonger, Zenon DEF Whole
  <2>7. fin = FALSE
    BY <2>1, Zenon DEF FinInv
  <2>8. ~ShutDown => pending' \in Seq(OtherFunctors)
    <3>1. Functor("callback") \in OtherFunctors
      BY OtherFunctorsAre DEF SharedFns
    <3>2. ~ShutDown => pending \in Seq(OtherFunctors)
      BY DEF FinInv
    <3> QED BY <2>1, <3>1, <3>2, SendQueues
  <2>9. ShutDown' <=> ShutDown
    BY <2>1, Zenon DEF ShutDown
  <2>10. promised[LoopUser] \in Nat /\ promised[LoopUser] <= sent'[LoopUser]
    BY <2>3, <2>5, ConnectionAssumption DEF FinInv
  <2> QED BY <2>1, <2>5, <2>6, <2>7, <2>8, <2>9, <2>10, Zenon DEF FinInv
<1>LoopShutdownFin.
  ASSUME StreamInv, EventsInv, FinInv, LoopShutdown
  PROVE  FinInv'
  <2> USE <1>LoopShutdownFin
  <2>1. /\ UNCHANGED <<use, channel_, outputBuffer_, wire, accepted, peer, sent, pc, pending, batch>>
        /\ state_ = "kConnected" /\ state_' = "kDisconnecting"
        /\ fin' = (fin \/ ~isWriting(channel_))
        /\ promised' = [promised EXCEPT ![LoopUser] = sent[LoopUser]]
    BY DEF LoopShutdown, shutdownInLoop, loopVars, serverVars, lifeVars
  <2>2. sent \in [Users -> 0..MaxSends] /\ promised \in [Users -> 0..MaxSends] /\ LoopUser \in Users
    BY Zenon DEF StreamInv, Typed, FinInv, Users
  <2>3. /\ promised' \in [Users -> 0..MaxSends] /\ promised'[LoopUser] = sent[LoopUser]
        /\ \A t \in Threads : promised'[t] = promised[t]
    BY <2>1, <2>2, ConnectionAssumption DEF Users
  <2>4. sent[LoopUser] \in 0..sent[LoopUser] /\ sent[LoopUser] <= sent[LoopUser]
    BY <2>2, ConnectionAssumption
  <2>5. Ordered(use) /\ fin' /\ peer # "reset" => \A k \in 1..promised'[LoopUser] : Whole(wire', k)
    <3>1. SUFFICES ASSUME Ordered(use), fin', peer # "reset" PROVE wire' = accepted
      BY <2>3, <2>4, <1>NothingMissing, Zenon
    <3>2. ~fin
      BY <2>1 DEF FinInv
    <3>3. ~isWriting(channel_)
      BY <2>1, <3>1, <3>2, Zenon
    <3>4. outputBuffer_ = <<>>
      BY <2>1, <3>1, <3>3, Zenon DEF EventsInv, Agrees, Ordered
    <3>5. wire \o outputBuffer_ = accepted /\ wire \o <<>> = wire
      BY <3>1, <3>2, Concats, Zenon DEF StreamInv, OutputInv, StreamIntact, CanWrite, Typed
    <3> QED BY <2>1, <3>4, <3>5, Zenon
  <2>6. fin' \in BOOLEAN
    BY <2>1, Zenon
  <2>7. ~ShutDown
    BY <2>1, Zenon DEF ShutDown
  <2> QED BY <2>1, <2>3, <2>4, <2>5, <2>6, <2>7, Zenon DEF FinInv
<1>ThreadFin.
  ASSUME StreamInv, EventsInv, FinInv, NEW t \in Threads,
         SetDisconnecting(t) \/ QueueFunctor(t) \/ \E op \in use.threads : Call(t, op)
  PROVE  FinInv'
  <2> USE <1>ThreadFin
  <2> USE DEF connVars, kernelVars, loopVars, userVars, serverVars, lifeVars
  <2>1. UNCHANGED <<use, wire, accepted, fin, peer, batch>>
    BY DEF SetDisconnecting, QueueFunctor, Call
  <2>2. /\ pc \in [Threads -> [op : Ops \cup {"none"}, at : {"idle", "set", "queue"}]]
        /\ sent \in [Users -> 0..MaxSends] /\ promised \in [Users -> 0..MaxSends]
        /\ t \in Users /\ LoopUser \in Users /\ t # LoopUser
    BY ConnectionAssumption, Zenon DEF StreamInv, Typed, FinInv, Users
  <2>3. CASE SetDisconnecting(t)
    <3>1. /\ state_' = "kDisconnecting" /\ pc' = [pc EXCEPT ![t].at = "queue"] /\ pc[t].at = "set"
          /\ promised' = IF pc[t].op = "shutdown" THEN [promised EXCEPT ![t] = sent[t]] ELSE promised
          /\ UNCHANGED <<sent, pending>>
      BY <2>3 DEF SetDisconnecting
    <3>2. pc[t].op \in use.threads
      BY <3>1, Zenon DEF StreamInv, Typed, Closing
    <3>3. promised' \in [Users -> 0..MaxSends] /\ promised'[LoopUser] = promised[LoopUser]
      BY <2>2, <3>1
    <3>4. ~({"send", "shutdown"} \subseteq use.threads) => \A v \in Threads : promised'[v] = 0
      <4>1. SUFFICES ASSUME ~({"send", "shutdown"} \subseteq use.threads), NEW v \in Threads PROVE promised'[v] = 0
        OBVIOUS
      <4>2. promised[v] = 0 /\ promised[t] = 0
        BY <4>1, Zenon DEF FinInv
      <4>3. pc[t].op = "shutdown" => sent[t] = 0
        BY <3>2, <4>1, Zenon DEF FinInv
      <4> QED BY <2>2, <3>1, <4>2, <4>3, Zenon
    <3>5. ~ShutDown' => pc[t].op # "shutdown" /\ ~ShutDown
      BY <2>1, <3>1, <3>2 DEF ShutDown
    <3>6. \A v \in Threads : pc'[v].op = pc[v].op /\ (v # t => pc'[v].at = pc[v].at)
      BY <2>2, <3>1
    <3>7. ~ShutDown' => /\ pending' \in Seq(OtherFunctors) /\ batch' \in Seq(OtherFunctors)
                        /\ \A v \in Threads : pc'[v].op = "shutdown" => pc'[v].at # "queue"
      BY <2>1, <3>1, <3>5, <3>6 DEF FinInv
    <3> QED BY <2>1, <3>1, <3>3, <3>4, <3>7 DEF FinInv
  <2>4. CASE QueueFunctor(t)
    <3>1. /\ pc' = [pc EXCEPT ![t] = Idle] /\ pc[t].at = "queue"
          /\ pending' = Append(pending, FunctorOf(t))
          /\ sent' = IF pc[t].op = "send" THEN [sent EXCEPT ![t] = @ + 1] ELSE sent
          /\ UNCHANGED <<state_, promised>>
      BY <2>4, Zenon DEF QueueFunctor
    <3>2. pc[t].op \in use.threads /\ (pc[t].op = "send" => sent[t] < MaxSends)
      BY <3>1, Zenon DEF StreamInv, Typed
    <3>3. sent'[LoopUser] = sent[LoopUser]
      BY <2>2, <3>1, Zenon
    <3>4. "send" \notin use.threads => \A v \in Threads : sent'[v] = 0
      BY <3>1, <3>2, Zenon DEF FinInv
    <3>5. ShutDown' <=> ShutDown
      BY <2>1, <3>1, Zenon DEF ShutDown
    <3>6. ~ShutDown => pending' \in Seq(OtherFunctors)
      <4>1. SUFFICES ASSUME ~ShutDown PROVE FunctorOf(t) \in OtherFunctors
        BY <3>1, SeqOf, Zenon DEF FinInv
      <4>2. pc[t].op # "shutdown"
        BY <3>1, <4>1, Zenon DEF FinInv
      <4>3. pc[t].op \in {"send", "forceClose", "startRead", "stopRead"}
        BY <3>2, <4>2, ConnectionAssumption DEF StreamInv, Typed, Usage, Ops, Closing
      <4>4. CASE pc[t].op = "send"
        <5>1. Message(t) \in Bytes
          BY <2>2, <3>2, <4>4, MessageIsBytes, Zenon DEF StreamInv
        <5>2. FunctorOf(t) = [fn |-> "sendInLoop", data |-> Message(t)]
          BY <4>4, Zenon DEF FunctorOf
        <5> QED BY <5>1, <5>2, SendFunctor, Zenon
      <4>5. CASE pc[t].op # "send"
        <5>1. \E fn \in (SharedFns \cup RawFns) \ {"shutdownInLoop"} : FunctorOf(t) = Functor(fn)
          BY <4>3, <4>5 DEF FunctorOf, SharedFns, RawFns
        <5> QED BY <5>1, OtherFunctorsAre
      <4> QED BY <4>4, <4>5
    <3>7. \A v \in Threads : pc'[v].op = "shutdown" => pc'[v] = pc[v]
      BY <2>2, <3>1, Zenon DEF Idle
    <3> QED BY <2>1, <3>1, <3>3, <3>4, <3>5, <3>6, <3>7, Zenon DEF FinInv
  <2>5. CASE \E op \in use.threads : Call(t, op)
    <3>1. PICK op \in use.threads : Call(t, op)
      BY <2>5
    <3>2. /\ pc' = [pc EXCEPT ![t] = [op |-> op, at |-> IF op \in Closing THEN "set" ELSE "queue"]]
          /\ UNCHANGED <<state_, sent, promised, pending>>
      BY <3>1, Zenon DEF Call
    <3>3. ShutDown' <=> ShutDown
      BY <2>1, <3>2, Zenon DEF ShutDown
    <3>4. \A v \in Threads : pc'[v].op = "shutdown" => pc'[v] = pc[v] \/ pc'[v].at = "set"
      BY <2>2, <3>2, Zenon DEF Closing
    <3> QED BY <2>1, <3>2, <3>3, <3>4, Zenon DEF FinInv
  <2> QED BY <2>3, <2>4, <2>5
<1> SUFFICES ASSUME StreamInv, EventsInv, FinInv, [Next]_vars PROVE FinInv'
  BY Zenon
<1>1. CASE UNCHANGED vars
  BY <1>1, <1>FinKept DEF vars, Forward, connVars, kernelVars, loopVars, userVars, serverVars, lifeVars
<1>2. CASE LoopThread
  BY <1>2, <1>LoopFin, <1>QueueFin, <1>HandleWriteFin, <1>RunRawFin DEF LoopThread, Handlers, Functors
<1>3. CASE LoopCalls \/ TimerFires
  BY <1>3, <1>LoopSendFin, <1>LoopShutdownFin, <1>QueueFin, Zenon DEF LoopCalls
<1>4. CASE ThreadCalls
  BY <1>4, <1>ThreadFin, Zenon DEF ThreadCalls
<1>5. CASE (\E u \in Users : DropRef(u)) \/ Destruct \/ Peer
  BY <1>5, <1>OtherFin DEF Peer
<1>6. CASE BaseRemove \/ ServerDtor
  BY <1>6, <1>QueueFin
<1> QED BY <1>1, <1>2, <1>3, <1>4, <1>5, <1>6 DEF Next

\* As long as the other threads do not both send and shut down, and do not close what
\* something else may close: shutdown() sends FIN only after every message that its
\* caller had sent before, to its last byte.
THEOREM FinGoesLast ==
  ASSUME \A u \in Usages : Ordered(u)
  PROVE  Spec => []FinAfterSends
<1>1. StreamInv /\ FinInv => FinAfterSends
  <2>1. SUFFICES ASSUME StreamInv, FinInv, fin, peer # "reset", NEW u \in Users, NEW k \in 1..promised[u],
                        NEW i \in 1..MsgLen
                 PROVE  Contains(wire, <<u, k, i>>)
    BY Zenon DEF FinAfterSends
  <2>2. Ordered(use)
    BY <2>1, Zenon DEF StreamInv, Typed
  <2>3. u \in Threads => promised[u] = 0
    BY <2>1, <2>2, Zenon DEF FinInv, Ordered
  <2>4. u = LoopUser
    BY <2>3 DEF Users
  <2> QED BY <2>1, <2>2, <2>4, Zenon DEF FinInv, Whole
<1> QED BY <1>1, StreamInitially, StreamInductive, EventsInitially, EventsInductive, FinInitially, FinInductive,
           PTL DEF Spec

==============================================================================
