------------------------- MODULE ConnectionLifeProofs -------------------------
(***************************************************************************)
(* Proofs about the life of a TcpConnection: from connectEstablished() to  *)
(* the destructor every handler and functor meets the connection in the    *)
(* state it asserts, in every careful usage.                               *)
(***************************************************************************)
EXTENDS TcpConnectionProofs

\* The time that the provers may take for a step.
USE SMTT(20), ZenonT(20)

(***************************************************************************)
(* The life of a connection, in a careful usage.                           *)
(***************************************************************************)

\* The functors that a usage can queue.
Asked(u) ==
  {f \in FunctorType : /\ f.fn = "forceCloseInLoop" => Forced(u)
                       /\ f.fn = "startReadInLoop" => "startRead" \in u.threads
                       /\ f.fn = "stopReadInLoop" => "stopRead" \in u.threads}
Shared == {f \in FunctorType : f.fn \in SharedFns}
Later == {f \in FunctorType : f.fn # "connectEstablished"}
Stay == {f \in FunctorType : f.fn # "connectDestroyed"}

Begins(s, step) == s # <<>> /\ Head(s) = step

\* Functors bound to a raw this wait only while a thread holds the connection;
\* connectEstablished() runs once.
AskInv ==
  /\ pending \in Seq(Asked(use)) /\ batch \in Seq(Asked(use))
  /\ timer => Forced(use)
  /\ reading_ \/ {"stopRead", "pauseRead"} \cap use.loop # {} \/ "stopRead" \in use.threads
  /\ holds \cap Threads = {} => pending \in Seq(Shared) /\ batch \in Seq(Shared)
  /\ \A t \in Threads : pc[t] # Idle => t \in holds
  /\ state_ # "kConnecting" => pending \in Seq(Later) /\ batch \in Seq(Later)
  /\ phase # "functors" => batch = <<>>
  /\ state_ = "kConnecting" =>
       IF Begins(todo, "connectEstablished")
       THEN pending \in Seq(Later) /\ batch \in Seq(Later)
       ELSE IF phase = "functors"
            THEN pending \in Seq(Later) /\ batch # <<>> /\ Tail(batch) \in Seq(Later)
            ELSE pending # <<>> /\ Tail(pending) \in Seq(Later)

\* The Channel and the kernel's table.
TableInv ==
  /\ channel_.registered <=> channel_.index_ = kAdded
  /\ state_ \in Up => channel_.index_ # kNew /\ (channel_.index_ = kAdded <=> channel_.events_ # {})
  /\ state_ = "kDisconnected" => channel_.events_ = {}

\* What can be left of the handler that the loop is in.
Releases == {<<>>, <<"release">>}
Ends == Releases \cup {<<"endEvent", "release">>, <<"write", "endEvent", "release">>}
Errs == Ends \cup {<<"error", "endEvent", "release">>, <<"error", "write", "endEvent", "release">>}

\* What is left after connectDestroyed(): ~TcpServer may have come inside a callback.
Rest(s) ==
  \/ s \in Releases
  \/ Begins(s, "release") /\ Begins(Tail(s), "callback") /\ Tail(Tail(s)) \in Ends

Quiet(s) == s \in Errs \/ (Begins(s, "callback") /\ Tail(s) \in Ends) \/ Rest(s)
Event(s) ==
  \/ s = <<"event">> \/ s = <<"callback", "event">>
  \/ Begins(s, "close") /\ Tail(s) \in Errs
  \/ Begins(s, "read") /\ Tail(s) \in Ends
  \/ Begins(s, "error") /\ Begins(Tail(s), "read") /\ Tail(Tail(s)) \in Ends
Closes(s) ==
  \/ Begins(s, "closeCallback") /\ Tail(s) \in Errs
  \/ Begins(s, "callback") /\ Begins(Tail(s), "closeCallback") /\ Tail(Tail(s)) \in Errs
Destroys(s) ==
  \/ Begins(s, "connectDestroyed") /\ Rest(Tail(s))
  \/ Begins(s, "remove") /\ Rest(Tail(s))
  \/ Begins(s, "callback") /\ Begins(Tail(s), "remove") /\ Rest(Tail(Tail(s)))
Starts(s) == Begins(s, "connectEstablished") /\ Tail(s) \in Releases
Shaped(s) == Quiet(s) \/ Event(s) \/ Closes(s) \/ Destroys(s) \/ Starts(s)

\* One functor of s destroys the connection.
OneDestroys(s) ==
  \E i \in 1..Len(s) : s[i].fn = "connectDestroyed" /\ \A j \in 1..Len(s) : j # i => s[j].fn # "connectDestroyed"
NoneDestroys == pending \in Seq(Stay) /\ batch \in Seq(Stay)

\* A connection that is up is in the server's map, or the server's destructor has just
\* come for it.
UpInv ==
  /\ ~Closes(todo) /\ baseQueue = 0 /\ NoneDestroys
  /\ \/ inMap /\ server /\ ~Destroys(todo)
     \/ ~inMap /\ Begins(todo, "connectDestroyed") /\ state_ = "kConnected" /\ use.serverDies # "never"

\* A connection that is down is on its way out, in exactly one place.
DownInv ==
  \/ /\ inMap /\ server /\ NoneDestroys /\ ~Destroys(todo) /\ channel_.index_ = kDeleted
     /\ IF Closes(todo) THEN baseQueue = 0 ELSE baseQueue = 1
  \/ /\ ~inMap /\ ~Closes(todo) /\ baseQueue = 0
     /\ \/ OneDestroys(pending) /\ batch \in Seq(Stay) /\ ~Destroys(todo) /\ channel_.index_ = kDeleted
        \/ OneDestroys(batch) /\ pending \in Seq(Stay) /\ ~Destroys(todo) /\ channel_.index_ = kDeleted
        \/ NoneDestroys /\ Destroys(todo) /\ channel_.index_ # kNew
        \/ NoneDestroys /\ ~Destroys(todo) /\ channel_.index_ = kNew /\ ~channel_.addedToLoop_

StageInv ==
  /\ failed = "none"
  /\ state_ \in Up \cup {"kConnecting", "kDisconnected"}
  /\ Shaped(todo)
  /\ Starts(todo) => state_ = "kConnecting"
  /\ Event(todo) => state_ \in Up /\ phase = "events" /\ (NeverCloses(use) \/ channel_.index_ = kAdded)
  /\ state_ = "kConnecting" => inMap /\ server /\ baseQueue = 0 /\ NoneDestroys
  /\ state_ \in Up => UpInv
  /\ state_ = "kDisconnected" => DownInv
  /\ ~(batch \in Seq(Stay)) => held
  /\ Destroys(todo) => held \/ Contains(todo, "release")
  /\ Destroys(todo) => phase # "events"
  /\ Closes(todo) => phase = "events" \/ Forced(use)
  /\ use.sameLoop => baseQueue = 0
  /\ use.serverDies # "never" => state_ # "kDisconnecting"

LifeInv == AskInv /\ TableInv /\ StageInv

\* Every invariant, and what the usage must be.
AllInv == StreamInv /\ EventsInv /\ LifeInv /\ Careful(use) /\ ~DropsEarly

(***************************************************************************)
(* Sequences of functors.                                                  *)
(***************************************************************************)

LEMMA FunctorsAre ==
  ASSUME NEW u
  PROVE  /\ Asked(u) \subseteq FunctorType /\ Shared \subseteq FunctorType /\ Stay \subseteq FunctorType
         /\ Functor("callback") \in Asked(u) \cap Shared \cap Later \cap Stay
         /\ Functor("connectDestroyed") \in Asked(u) \cap Shared \cap Later
         /\ Forced(u) => Functor("forceCloseInLoop") \in Asked(u)
         /\ Functor("forceCloseInLoop") \in Shared \cap Later \cap Stay
  BY EmptyData DEF Asked, Shared, Stay, Later, Functor, SharedFns

\* Where the functors of two queues are in the one that follows the other.
LEMMA JoinedQueues ==
  \A s, t \in Seq(FunctorType) :
    /\ \A i \in 1..Len(s) : i \in DOMAIN (s \o t) /\ (s \o t)[i] = s[i] /\ s[i] \in FunctorType
    /\ \A i \in 1..Len(t) : /\ Len(s) + i \in DOMAIN (s \o t) /\ (s \o t)[Len(s) + i] = t[i]
                            /\ t[i] \in FunctorType
  OBVIOUS

\* A functor that destroys the connection is queued where there is none.
LEMMA OneComes ==
  ASSUME NEW s \in Seq(Stay)
  PROVE  OneDestroys(Append(s, Functor("connectDestroyed")))
<1> DEFINE t == Append(s, Functor("connectDestroyed"))
           n == Len(s) + 1
<1>1. n \in 1..Len(t) /\ t[n].fn = "connectDestroyed"
  BY DEF Functor
<1>2. ASSUME NEW j \in 1..Len(t), j # n PROVE t[j].fn # "connectDestroyed"
  <2>1. j \in 1..Len(s) /\ t[j] = s[j]
    BY <1>2
  <2>2. s[j] \in Stay
    BY <2>1
  <2> QED BY <2>1, <2>2 DEF Stay
<1> QED BY <1>1, <1>2 DEF OneDestroys

LEMMA OneStays ==
  ASSUME NEW s \in Seq(FunctorType), OneDestroys(s), NEW f \in Stay
  PROVE  OneDestroys(Append(s, f))
<1> DEFINE t == Append(s, f)
<1>0. f \in FunctorType /\ f.fn # "connectDestroyed"
  BY DEF Stay
<1>1. PICK i \in 1..Len(s) : s[i].fn = "connectDestroyed" /\ \A j \in 1..Len(s) : j # i => s[j].fn # "connectDestroyed"
  BY DEF OneDestroys
<1>2. i \in 1..Len(t) /\ t[i] = s[i]
  BY <1>0, <1>1
<1>3. ASSUME NEW j \in 1..Len(t), j # i PROVE t[j].fn # "connectDestroyed"
  <2>1. CASE j \in 1..Len(s)
    BY <1>0, <1>1, <1>3, <2>1
  <2>2. CASE j = Len(s) + 1
    BY <1>0, <2>2
  <2>3. j \in 1..Len(s) \/ j = Len(s) + 1
    BY <1>0
  <2> QED BY <2>1, <2>2, <2>3
<1> QED BY <1>1, <1>2, <1>3 DEF OneDestroys

LEMMA OneGoes ==
  ASSUME NEW s \in Seq(FunctorType), OneDestroys(s)
  PROVE  /\ s # <<>> /\ ~(s \in Seq(Stay)) /\ \E i \in DOMAIN s : s[i].fn \in SharedFns
         /\ Head(s).fn = "connectDestroyed" => Tail(s) \in Seq(Stay)
         /\ Head(s).fn # "connectDestroyed" => OneDestroys(Tail(s))
<1>1. PICK i \in 1..Len(s) : s[i].fn = "connectDestroyed" /\ \A j \in 1..Len(s) : j # i => s[j].fn # "connectDestroyed"
  BY DEF OneDestroys
<1>2. s # <<>> /\ Head(s) = s[1] /\ Len(Tail(s)) = Len(s) - 1 /\ Tail(s) \in Seq(FunctorType)
  BY <1>1
<1>3. ~(s \in Seq(Stay))
  <2>1. SUFFICES ASSUME s \in Seq(Stay) PROVE FALSE
    OBVIOUS
  <2>2. s[i] \in Stay
    BY <1>1, <2>1
  <2> QED BY <1>1, <2>2 DEF Stay
<1>4. \E k \in DOMAIN s : s[k].fn \in SharedFns
  BY <1>1 DEF SharedFns
<1>5. \A j \in 1..Len(Tail(s)) : j + 1 \in 1..Len(s) /\ Tail(s)[j] = s[j + 1]
  BY <1>2
<1>6. ASSUME Head(s).fn = "connectDestroyed" PROVE Tail(s) \in Seq(Stay)
  <2>1. i = 1
    BY <1>1, <1>2, <1>6
  <2>2. \A j \in 1..Len(Tail(s)) : Tail(s)[j] \in Stay
    <3>1. SUFFICES ASSUME NEW j \in 1..Len(Tail(s)) PROVE Tail(s)[j] \in Stay
      OBVIOUS
    <3>2. j + 1 # i /\ j + 1 \in 1..Len(s)
      BY <1>2, <2>1, <3>1
    <3>3. s[j + 1].fn # "connectDestroyed" /\ s[j + 1] \in FunctorType
      BY <1>1, <3>2
    <3>4. s[j + 1] \in Stay
      BY <3>3 DEF Stay
    <3> QED BY <1>5, <3>1, <3>4
  <2> QED BY <1>2, <2>2, SeqInto, Zenon
<1>7. ASSUME Head(s).fn # "connectDestroyed" PROVE OneDestroys(Tail(s))
  <2>1. i # 1 /\ i - 1 \in 1..Len(Tail(s)) /\ (i - 1) + 1 = i
    BY <1>1, <1>2, <1>7
  <2>2. Tail(s)[i - 1].fn = "connectDestroyed"
    BY <1>1, <1>5, <2>1
  <2>3. \A j \in 1..Len(Tail(s)) : j # i - 1 => Tail(s)[j].fn # "connectDestroyed"
    <3>1. TAKE j \in 1..Len(Tail(s))
    <3>2. j # i - 1 => j + 1 # i
      BY <3>1
    <3> QED BY <1>1, <1>5, <3>2
  <2> QED BY <2>1, <2>2, <2>3, Zenon DEF OneDestroys
<1> QED BY <1>2, <1>3, <1>4, <1>6, <1>7

(***************************************************************************)
(* What is left of a handler.                                              *)
(***************************************************************************)

\* The steps that end a handler.
LEMMA EndsAre ==
  /\ <<>> \in Releases /\ Releases \subseteq Ends /\ Ends \subseteq Errs /\ Errs \subseteq Seq(Steps)
  /\ \A s \in Releases : s # <<>> => Head(s) = "release" /\ Tail(s) \in Releases
  /\ \A s \in Ends : s # <<>> => Head(s) \in {"write", "endEvent", "release"} /\ Tail(s) \in Ends
  /\ \A s \in Errs : s # <<>> => Head(s) \in {"error", "write", "endEvent", "release"} /\ Tail(s) \in Ends
<1>1. <<>> \in Releases /\ Releases \subseteq Ends /\ Ends \subseteq Errs
  BY DEF Releases, Ends, Errs
<1>2. Errs \subseteq Seq(Steps)
  <2>1. {"error", "write", "endEvent", "release"} \subseteq Steps
    BY DEF Steps
  <2> QED BY <2>1 DEF Releases, Ends, Errs
<1>3. /\ <<"release">> # <<>> /\ Head(<<"release">>) = "release" /\ Tail(<<"release">>) = <<>>
      /\ Head(<<"endEvent", "release">>) = "endEvent" /\ Tail(<<"endEvent", "release">>) = <<"release">>
      /\ Head(<<"write", "endEvent", "release">>) = "write"
      /\ Tail(<<"write", "endEvent", "release">>) = <<"endEvent", "release">>
      /\ Head(<<"error", "endEvent", "release">>) = "error"
      /\ Tail(<<"error", "endEvent", "release">>) = <<"endEvent", "release">>
      /\ Head(<<"error", "write", "endEvent", "release">>) = "error"
      /\ Tail(<<"error", "write", "endEvent", "release">>) = <<"write", "endEvent", "release">>
  OBVIOUS
<1>4. \A s \in Releases : s # <<>> => Head(s) = "release" /\ Tail(s) \in Releases
  BY <1>3, Zenon DEF Releases
<1>5. \A s \in Ends : s # <<>> => Head(s) \in {"write", "endEvent", "release"} /\ Tail(s) \in Ends
  BY <1>3, Zenon DEF Releases, Ends
<1>6. \A s \in Errs : s # <<>> => Head(s) \in {"error", "write", "endEvent", "release"} /\ Tail(s) \in Ends
  BY <1>3, Zenon DEF Releases, Ends, Errs
<1> QED BY <1>1, <1>2, <1>4, <1>5, <1>6

\* How each kind of handler begins.
Second(s) == IF Tail(s) = <<>> THEN "none" ELSE Head(Tail(s))

LEMMA ShapesBegin ==
  ASSUME NEW s
  PROVE  /\ Quiet(s) => \/ s = <<>>
                        \/ Head(s) \in {"error", "write", "endEvent", "release"} /\ Second(s) # "read"
                        \/ Head(s) = "callback" /\ Second(s) \notin {"event", "closeCallback", "remove"}
         /\ Event(s) => /\ s # <<>>
                        /\ \/ Head(s) \in {"event", "close", "read"}
                           \/ Head(s) = "callback" /\ Second(s) = "event"
                           \/ Head(s) = "error" /\ Second(s) = "read"
         /\ Closes(s) => /\ s # <<>>
                         /\ Head(s) = "closeCallback" \/ (Head(s) = "callback" /\ Second(s) = "closeCallback")
         /\ Destroys(s) => /\ s # <<>>
                           /\ \/ Head(s) \in {"connectDestroyed", "remove"}
                              \/ Head(s) = "callback" /\ Second(s) = "remove"
         /\ Starts(s) => s # <<>> /\ Head(s) = "connectEstablished"
<1>1. ASSUME Quiet(s), s # <<>>
      PROVE  \/ Head(s) \in {"error", "write", "endEvent", "release"} /\ Second(s) # "read"
             \/ Head(s) = "callback" /\ Second(s) \notin {"event", "closeCallback", "remove"}
  <2>0. ASSUME s \notin Errs, Rest(s) PROVE Head(s) = "release" /\ Second(s) = "callback"
    BY <2>0, EndsAre DEF Rest, Begins, Second
  <2>1. ASSUME s \in Errs \/ ~Rest(s)
        PROVE  Tail(s) \in Ends /\ Head(s) \in {"callback", "error", "write", "endEvent", "release"}
    BY <1>1, <2>1, EndsAre DEF Quiet, Begins
  <2>2. ASSUME s \in Errs \/ ~Rest(s) PROVE Second(s) \in {"none", "write", "endEvent", "release"}
    BY <2>1, <2>2, EndsAre, Zenon DEF Second
  <2> QED BY <2>0, <2>1, <2>2
<1>2. /\ <<"event">> # <<>> /\ Head(<<"event">>) = "event"
      /\ <<"callback", "event">> # <<>> /\ Head(<<"callback", "event">>) = "callback"
      /\ Second(<<"callback", "event">>) = "event"
  BY DEF Second
<1>3. \A step : Begins(Tail(s), step) => Second(s) = step
  BY DEF Begins, Second
<1> QED BY <1>1, <1>2, <1>3 DEF Event, Closes, Destroys, Starts, Begins

LEMMA ShapesApart ==
  ASSUME NEW s
  PROVE  /\ Quiet(s) => ~Event(s) /\ ~Closes(s) /\ ~Destroys(s) /\ ~Starts(s)
         /\ Event(s) => ~Closes(s) /\ ~Destroys(s) /\ ~Starts(s)
         /\ Closes(s) => ~Destroys(s) /\ ~Starts(s)
         /\ Destroys(s) => ~Starts(s)
  BY ShapesBegin

LEMMA ContainsStep ==
  ASSUME NEW S, NEW s \in Seq(S), s # <<>>, NEW e
  PROVE  Contains(s, e) <=> Head(s) = e \/ Contains(Tail(s), e)
<1>1. /\ Head(s) = s[1] /\ Len(Tail(s)) = Len(s) - 1 /\ Len(s) \in Nat \ {0}
      /\ \A i \in 1..Len(Tail(s)) : Tail(s)[i] = s[i + 1]
  OBVIOUS
<1>2. ASSUME Contains(s, e), Head(s) # e PROVE Contains(Tail(s), e)
  <2>1. PICK i \in 1..Len(s) : s[i] = e
    BY <1>2 DEF Contains
  <2>2. i - 1 \in 1..Len(Tail(s)) /\ (i - 1) + 1 = i
    BY <1>1, <1>2, <2>1
  <2>3. Tail(s)[i - 1] = e
    BY <1>1, <2>1, <2>2
  <2> QED BY <2>2, <2>3 DEF Contains
<1>3. ASSUME Head(s) = e PROVE Contains(s, e)
  <2>1. 1 \in 1..Len(s) /\ s[1] = e
    BY <1>1, <1>3
  <2> QED BY <2>1 DEF Contains
<1>4. ASSUME Contains(Tail(s), e) PROVE Contains(s, e)
  <2>1. PICK i \in 1..Len(Tail(s)) : Tail(s)[i] = e
    BY <1>4 DEF Contains
  <2>2. i + 1 \in 1..Len(s) /\ s[i + 1] = e
    BY <1>1, <2>1
  <2> QED BY <2>2 DEF Contains
<1> QED BY <1>2, <1>3, <1>4

\* The guard of an event lies inside the scope of a local TcpConnectionPtr.
LEMMA GuardIsInScope ==
  ASSUME NEW s \in Seq(Steps), Shaped(s), Contains(s, "endEvent")
  PROVE  Contains(s, "release")
<1>1. ASSUME NEW r \in Errs, Contains(r, "endEvent") PROVE Contains(r, "release")
  <2>1. r # <<>> /\ r # <<"release">>
    BY <1>1 DEF Contains
  <2>2. /\ Contains(<<"endEvent", "release">>, "release")
        /\ Contains(<<"write", "endEvent", "release">>, "release")
        /\ Contains(<<"error", "endEvent", "release">>, "release")
        /\ Contains(<<"error", "write", "endEvent", "release">>, "release")
    BY DEF Contains
  <2> QED BY <2>1, <2>2, Zenon DEF Errs, Ends, Releases
<1>2. ~Contains(<<>>, "endEvent")
  BY DEF Contains
<1>3. s # <<>>
  BY <1>2
<1>4. CASE s \in Errs
  BY <1>1, <1>4
<1>5. CASE s = <<"event">> \/ s = <<"callback", "event">>
  BY <1>5 DEF Contains
<1>6. Tail(s) \in Seq(Steps) /\ (Tail(s) # <<>> => Tail(Tail(s)) \in Seq(Steps))
  BY <1>3
<1>7. ASSUME Head(s) # "endEvent", Tail(s) \in Errs PROVE Contains(s, "release")
  BY <1>1, <1>3, <1>7, ContainsStep
<1>8. ASSUME NEW step, step # "endEvent", Head(s) # "endEvent", Begins(Tail(s), step), Tail(Tail(s)) \in Errs
      PROVE  Contains(s, "release")
  <2>1. Tail(s) # <<>> /\ Head(Tail(s)) # "endEvent"
    BY <1>8 DEF Begins
  <2>2. Contains(Tail(Tail(s)), "endEvent")
    BY <1>3, <1>6, <1>8, <2>1, ContainsStep, Zenon
  <2>3. Contains(Tail(s), "release")
    BY <1>1, <1>6, <1>8, <2>1, <2>2, ContainsStep, Zenon
  <2> QED BY <1>3, <2>3, ContainsStep
<1>9. ASSUME NEW r \in Seq(Steps), Rest(r), Contains(r, "endEvent") PROVE Contains(r, "release")
  <2>1. CASE r \in Releases
    BY <1>1, <1>9, <2>1, EndsAre
  <2>2. CASE Begins(r, "release")
    BY <1>9, <2>2, ContainsStep DEF Begins
  <2> QED BY <1>9, <2>1, <2>2 DEF Rest
<1>10. CASE Rest(s)
  BY <1>9, <1>10
<1>11. ASSUME Head(s) # "endEvent", Rest(Tail(s)) PROVE Contains(s, "release")
  BY <1>3, <1>6, <1>9, <1>11, ContainsStep
<1>12. ASSUME Begins(s, "callback"), Begins(Tail(s), "remove"), Rest(Tail(Tail(s))) PROVE Contains(s, "release")
  <2>1. Tail(s) # <<>> /\ Head(Tail(s)) = "remove" /\ Head(s) = "callback"
    BY <1>12 DEF Begins
  <2>2. Contains(Tail(Tail(s)), "endEvent")
    BY <1>3, <1>6, <2>1, ContainsStep
  <2>3. Contains(Tail(s), "release")
    BY <1>6, <1>9, <1>12, <2>1, <2>2, ContainsStep, Zenon
  <2> QED BY <1>3, <2>3, ContainsStep
<1>13. CASE Destroys(s)
  BY <1>11, <1>12, <1>13 DEF Destroys, Begins
<1> QED BY <1>4, <1>5, <1>7, <1>8, <1>10, <1>13, EndsAre DEF Shaped, Quiet, Event, Closes, Starts, Begins

LEMMA Cons ==
  ASSUME NEW S, NEW x \in S, NEW t \in Seq(S)
  PROVE  /\ <<x>> \o t \in Seq(S) /\ <<x>> \o t # <<>> /\ Head(<<x>> \o t) = x /\ Tail(<<x>> \o t) = t
         /\ <<>> \o t = t
         /\ \A u \in Seq(S) : u # <<>> /\ Head(u) = x /\ Tail(u) = t => <<x>> \o t = u
<1>1. <<x>> \o t \in Seq(S) /\ Len(<<x>> \o t) = Len(t) + 1 /\ (<<x>> \o t)[1] = x
  OBVIOUS
<1>2. \A i \in 1..Len(t) : (<<x>> \o t)[i + 1] = t[i]
  OBVIOUS
<1>3. \A u \in Seq(S) : u # <<>> => Head(u) = u[1] /\ Len(Tail(u)) = Len(u) - 1 /\ Tail(u) \in Seq(S)
                                    /\ \A i \in 1..(Len(u) - 1) : Tail(u)[i] = u[i + 1]
  OBVIOUS
<1>4. <<x>> \o t # <<>> /\ Head(<<x>> \o t) = x
  BY <1>1
<1>5. Tail(<<x>> \o t) = t
  <2> DEFINE u == <<x>> \o t
  <2>1. u \in Seq(S) /\ u # <<>> /\ Len(u) = Len(t) + 1 /\ \A i \in 1..Len(t) : u[i + 1] = t[i]
    BY <1>1, <1>2, <1>4
  <2> HIDE DEF u
  <2>2. Tail(u) \in Seq(S) /\ Len(Tail(u)) = Len(t) /\ \A i \in 1..Len(t) : Tail(u)[i] = t[i]
    BY <1>3, <2>1
  <2>3. Tail(u) = t
    BY <2>2, SameElements
  <2> QED BY <2>3 DEF u
<1>6. <<>> \o t = t
  OBVIOUS
<1>7. ASSUME NEW u \in Seq(S), u # <<>>, Head(u) = x, Tail(u) = t PROVE <<x>> \o t = u
  <2> DEFINE v == <<x>> \o t
  <2>1. v \in Seq(S) /\ Len(v) = Len(t) + 1 /\ v[1] = x /\ \A i \in 1..Len(t) : v[i + 1] = t[i]
    BY <1>1, <1>2
  <2>2. u[1] = x /\ Len(u) = Len(t) + 1 /\ \A i \in 1..Len(t) : u[i + 1] = t[i]
    BY <1>3, <1>7
  <2> HIDE DEF v
  <2>3. ASSUME NEW i \in 1..Len(v) PROVE v[i] = u[i]
    <3>1. i = 1 \/ (i - 1 \in 1..Len(t) /\ (i - 1) + 1 = i)
      BY <2>1
    <3> QED BY <2>1, <2>2, <3>1, Zenon
  <2>4. v = u
    BY <2>1, <2>2, <2>3, SameElements
  <2> QED BY <2>4 DEF v
<1> QED BY <1>1, <1>4, <1>5, <1>6, <1>7

\* What handleEventWithGuard() has to do is one of a few things.
LEMMA DispatchedAre ==
  LET s == Dispatched \o <<"endEvent", "release">>
  IN  Quiet(s) \/ Event(s)
<1> DEFINE h == "HUP" \in revents_ /\ "IN" \notin revents_
           e == "ERR" \in revents_
           r == "IN" \in revents_
           w == "OUT" \in revents_
           E == <<"endEvent", "release">>
           F == <<"write", "endEvent", "release">>
           W == When(w, "write") \o E
           X == When(e, "error") \o W
           s == Dispatched \o E
<1>0. {"close", "error", "read", "write", "endEvent", "release"} \subseteq Steps
  BY DEF Steps
<1>1. /\ E \in Seq(Steps) /\ F \in Seq(Steps) /\ F # <<>> /\ Head(F) = "write" /\ Tail(F) = E
      /\ <<"error">> \o E = <<"error", "endEvent", "release">>
      /\ <<"error">> \o F = <<"error", "write", "endEvent", "release">>
  <2>1. E \in Seq(Steps) /\ F \in Seq(Steps) /\ F # <<>> /\ Head(F) = "write" /\ Tail(F) = E
    BY <1>0
  <2>2. /\ <<"error", "endEvent", "release">> \in Seq(Steps) /\ <<"error", "endEvent", "release">> # <<>>
        /\ Head(<<"error", "endEvent", "release">>) = "error" /\ Tail(<<"error", "endEvent", "release">>) = E
    BY <1>0
  <2>3. /\ <<"error", "write", "endEvent", "release">> \in Seq(Steps)
        /\ <<"error", "write", "endEvent", "release">> # <<>>
        /\ Head(<<"error", "write", "endEvent", "release">>) = "error"
        /\ Tail(<<"error", "write", "endEvent", "release">>) = F
    BY <1>0
  <2>4. "error" \in Steps
    BY <1>0
  <2>5. <<"error">> \o E = <<"error", "endEvent", "release">>
    <3> DEFINE G == <<"error", "endEvent", "release">>
    <3>1. G \in Seq(Steps) /\ G # <<>> /\ Head(G) = "error" /\ Tail(G) = E /\ E \in Seq(Steps)
      BY <2>1, <2>2
    <3> HIDE DEF E, G
    <3>2. <<"error">> \o E = G
      BY <2>4, <3>1, Cons
    <3> QED BY <3>2 DEF G
  <2>6. <<"error">> \o F = <<"error", "write", "endEvent", "release">>
    <3> DEFINE G == <<"error", "write", "endEvent", "release">>
    <3>1. G \in Seq(Steps) /\ G # <<>> /\ Head(G) = "error" /\ Tail(G) = F /\ F \in Seq(Steps)
      BY <2>1, <2>3
    <3> HIDE DEF F, G
    <3>2. <<"error">> \o F = G
      BY <2>4, <3>1, Cons
    <3> QED BY <3>2 DEF G
  <2> QED BY <2>1, <2>5, <2>6
<1>2. W \in {E, F}
  <2>1. "write" \in Steps
    BY <1>0
  <2>2. <<"write">> \o E = F /\ <<>> \o E = E
    <3> HIDE DEF E, F
    <3> QED BY <1>1, <2>1, Cons
  <2> QED BY <2>2, Zenon DEF When
<1>3. W \in Ends /\ W \in Seq(Steps)
  BY <1>1, <1>2, Zenon DEF Ends
<1>4. X \in Errs
  <2>1. X = <<"error">> \o W \/ X = W
    <3> HIDE DEF W
    <3>1. <<>> \o W = W
      BY <1>3
    <3> QED BY <3>1, Zenon DEF When
  <2> HIDE DEF X, W
  <2> QED BY <1>1, <1>2, <2>1, Zenon DEF Ends, Errs
<1>5. \A b, step : step \in Steps => When(b, step) \in Seq(Steps)
  BY DEF When
<1>6. s = When(h, "close") \o (When(e, "error") \o (When(r, "read") \o W))
  <2> DEFINE c1 == When(h, "close")
             c2 == When(e, "error")
             c3 == When(r, "read")
             c4 == When(w, "write")
             d == c1 \o c2
             f == d \o c3
  <2>2. c1 \in Seq(Steps) /\ c2 \in Seq(Steps) /\ c3 \in Seq(Steps) /\ c4 \in Seq(Steps) /\ E \in Seq(Steps)
    BY <1>0, <1>1, <1>5
  <2>3. s = (f \o c4) \o E /\ W = c4 \o E
    BY DEF Dispatched
  <2> HIDE DEF c1, c2, c3, c4, E, W, s
  <2>4. d \in Seq(Steps) /\ c3 \o W \in Seq(Steps)
    BY <1>3, <2>2
  <2> HIDE DEF d
  <2>5. f \in Seq(Steps)
    BY <2>2, <2>4
  <2> HIDE DEF f
  <2>6. (f \o c4) \o E = f \o (c4 \o E)
    BY <2>2, <2>5
  <2>7. (d \o c3) \o W = d \o (c3 \o W)
    BY <1>3, <2>2, <2>4
  <2>8. (c1 \o c2) \o (c3 \o W) = c1 \o (c2 \o (c3 \o W))
    <3> DEFINE g == c3 \o W
    <3>1. g \in Seq(Steps)
      BY <2>4
    <3> HIDE DEF g
    <3>2. (c1 \o c2) \o g = c1 \o (c2 \o g)
      BY <2>2, <3>1
    <3> QED BY <3>2 DEF g
  <2>9. s = (d \o c3) \o W
    BY <2>3, <2>6 DEF f
  <2>10. s = (c1 \o c2) \o (c3 \o W)
    BY <2>7, <2>9 DEF d
  <2>11. s = c1 \o (c2 \o (c3 \o W))
    BY <2>8, <2>10
  <2> QED BY <2>11 DEF c1, c2, c3
<1> HIDE DEF W, s
<1>7. CASE r
  <2>1. <<"read">> \o W \in Seq(Steps) /\ Begins(<<"read">> \o W, "read") /\ Tail(<<"read">> \o W) = W
    BY <1>0, <1>3, Cons DEF Begins
  <2> DEFINE R == <<"read">> \o W
  <2>2. /\ <<"error">> \o R \in Seq(Steps) /\ Begins(<<"error">> \o R, "error") /\ Tail(<<"error">> \o R) = R
        /\ <<>> \o R = R /\ <<>> \o (<<"error">> \o R) = <<"error">> \o R
    <3> HIDE DEF R
    <3>1. R \in Seq(Steps) /\ "error" \in Steps
      BY <1>0, <2>1 DEF R
    <3>2. <<"error">> \o R \in Seq(Steps) /\ Begins(<<"error">> \o R, "error") /\ Tail(<<"error">> \o R) = R
      BY <3>1, Cons DEF Begins
    <3> QED BY <3>1, <3>2, Cons
  <2>3. s = <<"error">> \o R \/ s = R
    <3> HIDE DEF R
    <3>1. s = <<>> \o (When(e, "error") \o R)
      BY <1>6, <1>7 DEF When, R
    <3> QED BY <2>2, <3>1, Zenon DEF When
  <2> HIDE DEF R
  <2>4. Begins(R, "read") /\ Tail(R) = W
    BY <2>1 DEF R
  <2>5. Event(s)
    BY <1>3, <2>2, <2>3, <2>4, Zenon DEF Event
  <2> QED BY <2>5 DEF s
<1>8. CASE ~r
  <2>1. X \in Seq(Steps)
    BY <1>4, EndsAre, Zenon
  <2>6. <<>> \o W = W
    BY <1>3
  <2>2. s = When(h, "close") \o X
    BY <1>6, <1>8, <2>6, Zenon DEF When
  <2> HIDE DEF X
  <2>3. <<>> \o X = X /\ Begins(<<"close">> \o X, "close") /\ Tail(<<"close">> \o X) = X
    BY <1>0, <2>1, Cons DEF Begins
  <2>4. s = <<"close">> \o X \/ s = X
    BY <2>2, <2>3, Zenon DEF When
  <2>5. Event(s) \/ Quiet(s)
    BY <1>4, <2>3, <2>4, Zenon DEF Event, Quiet
  <2> QED BY <2>5 DEF s
<1> QED BY <1>7, <1>8

LEMMA HeadSays ==
  ASSUME NEW s, Shaped(s), s # <<>>
  PROVE  /\ Head(s) = "callback" => /\ Shaped(Tail(s)) /\ ~Starts(s)
                                    /\ Quiet(s) => Quiet(Tail(s))
                                    /\ Event(s) => Event(Tail(s))
                                    /\ Closes(s) => Closes(Tail(s))
                                    /\ Destroys(s) => Destroys(Tail(s))
         /\ Head(s) = "event" => Event(s) /\ Tail(s) = <<>>
         /\ Head(s) = "close" => Event(s) /\ Tail(s) \in Errs
         /\ Head(s) = "read" => Event(s) /\ Tail(s) \in Ends
         /\ Head(s) = "error" => (Quiet(s) /\ Tail(s) \in Ends) \/ (Event(s) /\ Event(Tail(s)))
         /\ Head(s) \in {"write", "endEvent"} => Quiet(s) /\ Tail(s) \in Ends
         /\ Head(s) = "release" => Quiet(s) /\ Quiet(Tail(s))
         /\ Head(s) = "closeCallback" => Closes(s) /\ Tail(s) \in Errs
         /\ Head(s) \in {"connectDestroyed", "remove"} => Destroys(s) /\ Rest(Tail(s))
         /\ Head(s) = "connectEstablished" => Starts(s) /\ Tail(s) \in Releases
<1>0. /\ Head(<<"event">>) = "event" /\ Tail(<<"event">>) = <<>>
      /\ Head(<<"callback", "event">>) = "callback" /\ Tail(<<"callback", "event">>) = <<"event">>
  OBVIOUS
<1>1. Quiet(s) /\ Head(s) # "release" => Tail(s) \in Ends /\ Tail(s) \in Errs
  BY EndsAre DEF Quiet, Rest, Begins
<1>2. ASSUME Head(s) = "callback"
      PROVE  /\ ~Starts(s)
             /\ Quiet(s) => Quiet(Tail(s))
             /\ Event(s) => Event(Tail(s))
             /\ Closes(s) => Closes(Tail(s))
             /\ Destroys(s) => Destroys(Tail(s))
  <2>1. ~Starts(s) /\ (Quiet(s) => Quiet(Tail(s)))
    BY <1>1, <1>2 DEF Starts, Begins, Quiet
  <2>2. Event(s) => Event(Tail(s))
    BY <1>0, <1>2, Zenon DEF Event, Begins
  <2>3. Closes(s) => Closes(Tail(s))
    BY <1>2 DEF Closes, Begins
  <2>4. Destroys(s) => Destroys(Tail(s))
    BY <1>2 DEF Destroys, Begins
  <2> QED BY <2>1, <2>2, <2>3, <2>4
<1>3. Head(s) = "event" => Event(s) /\ Tail(s) = <<>>
  BY <1>0, ShapesBegin, Zenon DEF Shaped, Event, Begins
<1>4. Head(s) \in {"close", "read"} => Event(s)
  BY ShapesBegin DEF Shaped
<1>5. (Head(s) = "close" => Tail(s) \in Errs) /\ (Head(s) = "read" => Tail(s) \in Ends)
  BY <1>0, <1>4 DEF Event, Begins
<1>6. ASSUME Head(s) = "error" PROVE (Quiet(s) /\ Tail(s) \in Ends) \/ (Event(s) /\ Event(Tail(s)))
  <2>1. Quiet(s) \/ Event(s)
    BY <1>6, ShapesBegin DEF Shaped
  <2>2. Event(s) => Event(Tail(s))
    BY <1>0, <1>6 DEF Event, Begins
  <2> QED BY <1>1, <1>6, <2>1, <2>2
<1>7. /\ Head(s) \in {"write", "endEvent"} => Quiet(s) /\ Tail(s) \in Ends
      /\ Head(s) = "release" => Quiet(s) /\ Quiet(Tail(s))
  <2>1. Head(s) \in {"write", "endEvent", "release"} => Quiet(s)
    BY ShapesBegin DEF Shaped
  <2>2. Head(s) = "release" /\ Quiet(s) => Quiet(Tail(s))
    BY EndsAre DEF Quiet, Rest, Begins
  <2> QED BY <1>1, <2>1, <2>2
<1>8. Head(s) = "closeCallback" => Closes(s) /\ Tail(s) \in Errs
  BY ShapesBegin DEF Shaped, Closes, Begins
<1>9. Head(s) \in {"connectDestroyed", "remove"} => Destroys(s) /\ Rest(Tail(s))
  BY ShapesBegin DEF Shaped, Destroys, Begins
<1>10. Head(s) = "connectEstablished" => Starts(s) /\ Tail(s) \in Releases
  BY ShapesBegin DEF Shaped, Starts
<1> QED BY <1>2, <1>3, <1>4, <1>5, <1>6, <1>7, <1>8, <1>9, <1>10 DEF Shaped

LEMMA Pushed ==
  ASSUME NEW r \in Seq(Steps), NEW a \in Steps, NEW b \in Steps
  PROVE  /\ Begins(<<a>> \o r, a) /\ Tail(<<a>> \o r) = r /\ <<a>> \o r \in Seq(Steps)
         /\ Begins(<<a, b>> \o r, a) /\ Tail(<<a, b>> \o r) = <<b>> \o r /\ <<a, b>> \o r \in Seq(Steps)
<1> DEFINE t == <<b>> \o r
<1>1. t \in Seq(Steps) /\ Begins(<<a>> \o r, a) /\ Tail(<<a>> \o r) = r /\ <<a>> \o r \in Seq(Steps)
  BY Cons DEF Begins
<1>2. <<a, b>> \o r = <<a>> \o t
  <2>1. <<a, b>> = <<a>> \o <<b>> /\ <<a>> \in Seq(Steps) /\ <<b>> \in Seq(Steps)
    <3> DEFINE w == <<a, b>>
               v == <<b>>
    <3>1. <<a>> \in Seq(Steps) /\ v \in Seq(Steps)
      OBVIOUS
    <3>2. w \in Seq(Steps) /\ w # <<>> /\ Head(w) = a /\ Tail(w) = v
      OBVIOUS
    <3> HIDE DEF w, v
    <3>3. <<a>> \o v = w
      BY <3>1, <3>2, Cons
    <3> QED BY <3>1, <3>3, Zenon DEF w, v
  <2>2. (<<a>> \o <<b>>) \o r = <<a>> \o (<<b>> \o r)
    OBVIOUS
  <2> QED BY <2>1, <2>2
<1> HIDE DEF t
<1>3. Begins(<<a>> \o t, a) /\ Tail(<<a>> \o t) = t /\ <<a>> \o t \in Seq(Steps)
  BY <1>1, Cons DEF Begins
<1> QED BY <1>1, <1>2, <1>3, Zenon DEF t

\* What the handlers make of the rest of a handler.
LEMMA Built ==
  ASSUME NEW r \in Errs
  PROVE  /\ Quiet(r) /\ Closes(<<"callback", "closeCallback">> \o r)
         /\ r \in Ends => Quiet(<<"callback">> \o r)
<1>1. r \in Seq(Steps) /\ "callback" \in Steps /\ "closeCallback" \in Steps
  BY EndsAre DEF Steps
<1>2. /\ Begins(<<"callback", "closeCallback">> \o r, "callback")
      /\ Tail(<<"callback", "closeCallback">> \o r) = <<"closeCallback">> \o r
      /\ Begins(<<"closeCallback">> \o r, "closeCallback") /\ Tail(<<"closeCallback">> \o r) = r
      /\ Begins(<<"callback">> \o r, "callback") /\ Tail(<<"callback">> \o r) = r
  BY <1>1, Pushed
<1> QED BY <1>2, Zenon DEF Quiet, Closes

\* What connectDestroyed() and ~TcpServer make of it.
LEMMA BuiltRest ==
  ASSUME NEW r \in Seq(Steps)
  PROVE  /\ Rest(r) => Quiet(r) /\ Destroys(<<"callback", "remove">> \o r) /\ Destroys(<<"remove">> \o r)
         /\ Contains(r, "release") => /\ Contains(<<"callback", "remove">> \o r, "release")
                                      /\ Contains(<<"remove">> \o r, "release")
         /\ r = <<>> \/ (Quiet(r) /\ Begins(r, "callback")) =>
              /\ Destroys(<<"connectDestroyed", "release">> \o r)
              /\ Begins(<<"connectDestroyed", "release">> \o r, "connectDestroyed")
              /\ Contains(<<"connectDestroyed", "release">> \o r, "release")
<1>0. {"callback", "remove", "connectDestroyed", "release"} \subseteq Steps
  BY DEF Steps
<1>1. /\ Begins(<<"callback", "remove">> \o r, "callback")
      /\ Tail(<<"callback", "remove">> \o r) = <<"remove">> \o r
      /\ Begins(<<"remove">> \o r, "remove") /\ Tail(<<"remove">> \o r) = r
      /\ <<"remove">> \o r \in Seq(Steps) /\ <<"callback", "remove">> \o r \in Seq(Steps)
      /\ Begins(<<"connectDestroyed", "release">> \o r, "connectDestroyed")
      /\ Tail(<<"connectDestroyed", "release">> \o r) = <<"release">> \o r
      /\ Begins(<<"release">> \o r, "release") /\ Tail(<<"release">> \o r) = r
      /\ <<"release">> \o r \in Seq(Steps) /\ <<"connectDestroyed", "release">> \o r \in Seq(Steps)
  BY <1>0, Pushed
<1>2. Rest(r) => Quiet(r) /\ Destroys(<<"callback", "remove">> \o r) /\ Destroys(<<"remove">> \o r)
  BY <1>1, Zenon DEF Destroys, Quiet
<1>3. ASSUME NEW s \in Seq(Steps), NEW t \in Seq(Steps), NEW a, Begins(s, a), Tail(s) = t, Contains(t, "release")
      PROVE  Contains(s, "release")
  BY <1>3, ContainsStep, Zenon DEF Begins
<1>4. Contains(r, "release") => /\ Contains(<<"callback", "remove">> \o r, "release")
                               /\ Contains(<<"remove">> \o r, "release")
  BY <1>1, <1>3, Zenon
<1>5. Contains(<<"release">> \o r, "release")
  BY <1>1, ContainsStep, Zenon DEF Begins
<1>6. Contains(<<"connectDestroyed", "release">> \o r, "release")
  BY <1>1, <1>3, <1>5, Zenon
<1>7. ASSUME r = <<>> \/ (Quiet(r) /\ Begins(r, "callback")) PROVE Rest(<<"release">> \o r)
  <2>1. CASE r = <<>>
    <3>1. <<"release">> \o r = <<"release">>
      BY <2>1
    <3> QED BY <3>1, Zenon DEF Rest, Releases
  <2>2. CASE Quiet(r) /\ Begins(r, "callback")
    <3>1. Tail(r) \in Ends
      BY <2>2, EndsAre DEF Quiet, Rest, Begins
    <3> QED BY <1>1, <2>2, <3>1, Zenon DEF Rest
  <2> QED BY <1>7, <2>1, <2>2
<1>8. r = <<>> \/ (Quiet(r) /\ Begins(r, "callback")) => Destroys(<<"connectDestroyed", "release">> \o r)
  BY <1>1, <1>7, Zenon DEF Destroys
<1> QED BY <1>1, <1>2, <1>4, <1>6, <1>8, Zenon

LEMMA Single ==
  /\ Quiet(<<>>) /\ Quiet(<<"callback">>) /\ Event(<<"callback", "event">>) /\ Starts(<<"connectEstablished">>)
  /\ Starts(<<"connectEstablished", "release">>) /\ Destroys(<<"connectDestroyed">>)
<1>1. /\ \A a : Begins(<<a>>, a) /\ Tail(<<a>>) = <<>>
      /\ \A a, b : Begins(<<a, b>>, a) /\ Tail(<<a, b>>) = <<b>>
  BY DEF Begins
<1>2. <<>> \in Releases /\ <<"release">> \in Releases /\ <<>> \in Ends /\ <<>> \in Errs
  BY DEF Releases, Ends, Errs
<1> QED BY <1>1, <1>2 DEF Quiet, Event, Starts, Destroys, Rest

(***************************************************************************)
(* The Channel and the kernel's table.                                     *)
(***************************************************************************)

LEMMA UpdateRegisters ==
  ASSUME NEW c \in ChannelType, NEW ev \in SUBSET (kReadEvent \cup kWriteEvent), c.registered <=> c.index_ = kAdded
  PROVE  /\ update(c, ev) \in ChannelType /\ update(c, ev).events_ = ev
         /\ update(c, ev).registered <=> update(c, ev).index_ = kAdded
         /\ update(c, ev).index_ = IF c.index_ = kAdded /\ ev = {} THEN kDeleted ELSE kAdded
<1> DEFINE d == [c EXCEPT !.events_ = ev, !.addedToLoop_ = TRUE]
           a == [d EXCEPT !.index_ = kAdded]
<1>0. update(c, ev) \in ChannelType /\ update(c, ev).events_ = ev
  BY UpdateDoes
<1>1. d \in ChannelType /\ d.events_ = ev /\ d.index_ = c.index_ /\ d.registered = c.registered
  BY Zenon DEF ChannelType
<1>2. a \in ChannelType /\ a.index_ = kAdded /\ a.registered = c.registered
  BY <1>1, Zenon DEF ChannelType
<1>3. ASSUME NEW e \in ChannelType
      PROVE  /\ epoll_ctl("ADD", e).registered = TRUE /\ epoll_ctl("ADD", e).index_ = e.index_
             /\ epoll_ctl("MOD", e).registered = e.registered /\ epoll_ctl("MOD", e).index_ = e.index_
             /\ epoll_ctl("DEL", e) \in ChannelType /\ epoll_ctl("DEL", e).registered = FALSE
  BY Zenon DEF epoll_ctl, ChannelType
<1>4. c.index_ \in {kNew, kAdded, kDeleted}
  BY DEF ChannelType
<1>5. CASE c.index_ \in {kNew, kDeleted}
  <2>1. update(c, ev) = epoll_ctl("ADD", a)
    BY <1>1, <1>5 DEF update, updateChannel, kNew, kAdded, kDeleted
  <2> QED BY <1>0, <1>2, <1>3, <1>5, <2>1, Zenon DEF kNew, kAdded, kDeleted
<1>6. CASE c.index_ = kAdded /\ ev = {}
  <2>1. update(c, ev) = [epoll_ctl("DEL", d) EXCEPT !.index_ = kDeleted]
    BY <1>1, <1>6 DEF update, updateChannel, isNoneEvent, kNew, kAdded, kDeleted
  <2>2. \A z \in ChannelType : [z EXCEPT !.index_ = kDeleted].registered = z.registered
                              /\ [z EXCEPT !.index_ = kDeleted].index_ = kDeleted
    BY DEF ChannelType
  <2>3. epoll_ctl("DEL", d) \in ChannelType /\ epoll_ctl("DEL", d).registered = FALSE
    BY <1>1, <1>3, Zenon
  <2> QED BY <1>0, <1>6, <2>1, <2>2, <2>3, Zenon DEF kAdded, kDeleted
<1>7. CASE c.index_ = kAdded /\ ev # {}
  <2>1. update(c, ev) = epoll_ctl("MOD", d)
    BY <1>1, <1>7 DEF update, updateChannel, isNoneEvent, kNew, kAdded, kDeleted
  <2> QED BY <1>0, <1>1, <1>3, <1>7, <2>1, Zenon
<1> QED BY <1>4, <1>5, <1>6, <1>7, Zenon

LEMMA RemoveUnregisters ==
  ASSUME NEW c \in ChannelType, c.registered <=> c.index_ = kAdded
  PROVE  /\ remove(c).index_ = kNew /\ remove(c).addedToLoop_ = FALSE /\ remove(c).events_ = c.events_
         /\ remove(c).registered <=> remove(c).index_ = kAdded
<1>1. epoll_ctl("DEL", c) \in ChannelType /\ epoll_ctl("DEL", c).registered = FALSE
  BY Zenon DEF epoll_ctl, ChannelType
<1>2. remove(c).index_ = kNew /\ remove(c).addedToLoop_ = FALSE /\ remove(c).registered = FALSE
  BY <1>1 DEF remove, ChannelType
<1> QED BY <1>2, RemoveDoes DEF kNew, kAdded

(***************************************************************************)
(* The life of the connection, step by step.                               *)
(***************************************************************************)

\* What a careful usage rules out.
LEMMA CarefulSays ==
  ASSUME AllInv
  PROVE  /\ use \in Usage
         /\ NeverCloses(use) => state_ # "kDisconnected"
         /\ Forced(use) => ~NeverCloses(use) /\ use.serverDies = "never" /\ reading_
         /\ {"startRead", "stopRead"} \cap (use.loop \cup use.threads) # {} => NeverCloses(use)
         /\ use.threads \cap Closing # {} => NeverCloses(use)
         /\ (use.loop \cup use.threads) \cap Closing # {} => use.serverDies = "never"
         /\ use.serverDies # "never" => use.sameLoop /\ use.serverDies = "outside"
<1>1. use \in Usage
  BY ConnectionAssumption DEF AllInv, StreamInv, Typed
<1>2. NeverCloses(use) => state_ # "kDisconnected"
  BY DEF AllInv, EventsInv, OpenInv, StaysOpen
<1>3. Careful(use)
  BY DEF AllInv
<1>4. Forced(use) => ~NeverCloses(use)
  BY DEF Forced, NeverCloses
<1>5. Forced(use) => (use.loop \cup use.threads) \cap Closing # {}
  BY <1>1 DEF Forced, Closing
<1>6. (use.loop \cup use.threads) \cap Closing # {} => use.serverDies = "never"
  BY <1>1, <1>3 DEF Careful, Usage
<1>7. Forced(use) => reading_
  <2>1. SUFFICES ASSUME Forced(use) PROVE reading_
    OBVIOUS
  <2>2. {"startRead", "stopRead"} \cap (use.loop \cup use.threads) = {} /\ "pauseRead" \notin use.loop
    BY <1>3, <1>4, <2>1 DEF Careful
  <2>3. reading_ \/ {"stopRead", "pauseRead"} \cap use.loop # {} \/ "stopRead" \in use.threads
    BY DEF AllInv, LifeInv, AskInv
  <2> QED BY <2>2, <2>3
<1> QED BY <1>1, <1>2, <1>3, <1>4, <1>5, <1>6, <1>7, Zenon DEF Careful, Polite

LEMMA AskSame ==
  ASSUME AskInv, UNCHANGED <<use, state_, pending, batch, holds, reading_>>, timer' => timer,
         \A t \in Threads : pc'[t] # Idle => t \in holds,
         phase' # "functors" => batch = <<>>,
         state_ = "kConnecting" => /\ phase' = "functors" <=> phase = "functors"
                                   /\ Begins(todo', "connectEstablished") <=> Begins(todo, "connectEstablished")
  PROVE  AskInv'
<1>1. /\ (pending \in Seq(Asked(use)) /\ batch \in Seq(Asked(use)))'
      /\ (timer => Forced(use))'
      /\ (reading_ \/ {"stopRead", "pauseRead"} \cap use.loop # {} \/ "stopRead" \in use.threads)'
      /\ (holds \cap Threads = {} => pending \in Seq(Shared) /\ batch \in Seq(Shared))'
      /\ (state_ # "kConnecting" => pending \in Seq(Later) /\ batch \in Seq(Later))'
  BY DEF AskInv
<1>2. (state_ = "kConnecting" =>
         IF Begins(todo, "connectEstablished")
         THEN pending \in Seq(Later) /\ batch \in Seq(Later)
         ELSE IF phase = "functors"
              THEN pending \in Seq(Later) /\ batch # <<>> /\ Tail(batch) \in Seq(Later)
              ELSE pending # <<>> /\ Tail(pending) \in Seq(Later))'
  BY DEF AskInv, Begins
<1> QED BY <1>1, <1>2, Zenon DEF AskInv

LEMMA AskKept ==
  ASSUME AskInv, use' = use, state_ # "kConnecting", state_' # "kConnecting", holds' = holds,
         \/ pending' = pending
         \/ \E f \in Asked(use) \cap Later : pending' = Append(pending, f) /\ (f \in Shared \/ holds \cap Threads # {}),
         batch' = batch \/ (batch # <<>> /\ batch' = Tail(batch)),
         timer' => timer \/ Forced(use),
         reading_ => reading_' \/ {"stopRead", "pauseRead"} \cap use.loop # {} \/ "stopRead" \in use.threads,
         \A t \in Threads : pc'[t] # Idle => t \in holds,
         phase' = phase
  PROVE  AskInv'
<1>0. /\ pending \in Seq(Asked(use)) /\ batch \in Seq(Asked(use))
      /\ pending \in Seq(Later) /\ batch \in Seq(Later)
      /\ holds \cap Threads = {} => pending \in Seq(Shared) /\ batch \in Seq(Shared)
  BY Zenon DEF AskInv
<1>1. batch' \in Seq(Asked(use)) /\ batch' \in Seq(Later) /\ (holds \cap Threads = {} => batch' \in Seq(Shared))
  <2>1. CASE batch' = batch
    BY <1>0, <2>1
  <2>2. CASE batch # <<>> /\ batch' = Tail(batch)
    BY <1>0, <2>2, SeqOf
  <2> QED BY <2>1, <2>2, Zenon
<1>2. pending' \in Seq(Asked(use)) /\ pending' \in Seq(Later) /\ (holds \cap Threads = {} => pending' \in Seq(Shared))
  <2>1. CASE pending' = pending
    BY <1>0, <2>1
  <2>2. CASE \E f \in Asked(use) \cap Later : pending' = Append(pending, f) /\ (f \in Shared \/ holds \cap Threads # {})
    <3>1. PICK f \in Asked(use) \cap Later : pending' = Append(pending, f) /\ (f \in Shared \/ holds \cap Threads # {})
      BY <2>2
    <3> QED BY <1>0, <3>1, SeqOf
  <2> QED BY <2>1, <2>2
<1>3. (phase # "functors" => batch = <<>>)'
  BY DEF AskInv
<1>4. /\ (timer => Forced(use))'
      /\ (reading_ \/ {"stopRead", "pauseRead"} \cap use.loop # {} \/ "stopRead" \in use.threads)'
      /\ (\A t \in Threads : pc[t] # Idle => t \in holds)'
  BY DEF AskInv
<1>5. Asked(use)' = Asked(use) /\ state_' # "kConnecting"
  BY DEF Asked, Forced
<1> QED BY <1>1, <1>2, <1>3, <1>4, <1>5, Zenon DEF AskInv

LEMMA TableKept ==
  ASSUME TableInv, channel_' = channel_, state_' = state_ \/ (state_ \in Up /\ state_' \in Up)
  PROVE  TableInv'
  BY DEF TableInv, Up

LEMMA UpdateTable ==
  ASSUME StreamInv, TableInv, NEW ev \in SUBSET (kReadEvent \cup kWriteEvent), channel_' = update(channel_, ev),
         state_' \in Up, channel_.index_ = kAdded \/ ev # {}
  PROVE  TableInv' /\ (ev # {} => channel_'.index_ = kAdded)
<1>1. channel_ \in ChannelType
  BY Zenon DEF StreamInv, Typed
<1>2. /\ channel_'.events_ = ev
      /\ channel_'.registered <=> channel_'.index_ = kAdded
      /\ channel_'.index_ = IF channel_.index_ = kAdded /\ ev = {} THEN kDeleted ELSE kAdded
  BY <1>1, UpdateRegisters DEF TableInv
<1>3. kNew # kAdded /\ kNew # kDeleted /\ kAdded # kDeleted
  BY DEF kNew, kAdded, kDeleted
<1> QED BY <1>2, <1>3 DEF TableInv, Up

LEMMA QueueStays ==
  ASSUME NEW s \in Seq(FunctorType), NEW t,
         t = s \/ (\E f \in Stay : t = Append(s, f)) \/ (s # <<>> /\ t = Tail(s) /\ Head(s) \in Stay)
  PROVE  (s \in Seq(Stay) => t \in Seq(Stay)) /\ (OneDestroys(s) => OneDestroys(t))
<1>1. CASE t = s
  BY <1>1
<1>2. ASSUME NEW f \in Stay, t = Append(s, f) PROVE (s \in Seq(Stay) => t \in Seq(Stay)) /\ (OneDestroys(s) => OneDestroys(t))
  BY <1>2, SeqOf, OneStays
<1>3. CASE s # <<>> /\ t = Tail(s) /\ Head(s) \in Stay
  <2>1. Head(s).fn # "connectDestroyed"
    BY <1>3 DEF Stay
  <2> QED BY <1>3, <2>1, SeqOf, OneGoes
<1> QED BY <1>1, <1>2, <1>3

\* Steps that do not bring the connection nearer to its end.
LEMMA StageKept ==
  ASSUME StreamInv, StageInv, UNCHANGED <<use, inMap, server, baseQueue, failed>>,
         \/ state_' = state_
         \/ state_ \in Up /\ state_' \in Up /\ use.serverDies = "never",
         Shaped(todo'), Closes(todo') <=> Closes(todo), Destroys(todo') <=> Destroys(todo), Starts(todo') => Starts(todo),
         Event(todo') => Event(todo) /\ phase' = phase,
         Event(todo') /\ channel_.index_ = kAdded => channel_'.index_ = kAdded \/ NeverCloses(use),
         Begins(todo, "connectDestroyed") => todo' = todo,
         Closes(todo) \/ Destroys(todo) => phase' = phase,
         Destroys(todo') /\ Contains(todo, "release") => Contains(todo', "release"),
         pending' = pending \/ (\E f \in Stay : pending' = Append(pending, f)),
         batch' = batch \/ (batch # <<>> /\ batch' = Tail(batch) /\ Head(batch) \in Stay),
         state_ = "kDisconnected" => channel_' = channel_,
         held' = held \/ (todo' = <<>> /\ batch' = <<>>)
  PROVE  StageInv'
<1>0. pending \in Seq(FunctorType) /\ batch \in Seq(FunctorType)
  BY Zenon DEF StreamInv, Typed
<1>1. (pending \in Seq(Stay) => pending' \in Seq(Stay)) /\ (OneDestroys(pending) => OneDestroys(pending'))
  BY <1>0, QueueStays
<1>2. (batch \in Seq(Stay) => batch' \in Seq(Stay)) /\ (OneDestroys(batch) => OneDestroys(batch'))
  BY <1>0, QueueStays
<1>3. NoneDestroys => NoneDestroys'
  BY <1>1, <1>2 DEF NoneDestroys
<1>4. /\ (failed = "none")' /\ (state_ \in Up \cup {"kConnecting", "kDisconnected"})'
      /\ (use.sameLoop => baseQueue = 0)'
  BY DEF StageInv
<1>5. (use.serverDies # "never" => state_ # "kDisconnecting")'
  BY DEF StageInv
<1>6. (Starts(todo) => state_ = "kConnecting")'
  BY DEF StageInv, Up
<1>7. (Event(todo) => state_ \in Up /\ phase = "events" /\ (NeverCloses(use) \/ channel_.index_ = kAdded))'
  BY DEF StageInv
<1>8. (state_ = "kConnecting" => inMap /\ server /\ baseQueue = 0 /\ NoneDestroys)'
  BY <1>3 DEF StageInv, Up
<1>9. (state_ \in Up => UpInv)'
  <2>1. SUFFICES ASSUME state_' \in Up PROVE UpInv'
    OBVIOUS
  <2>2. UpInv /\ (state_' = state_ \/ use.serverDies = "never")
    BY <2>1 DEF StageInv
  <2> QED BY <1>3, <2>2 DEF UpInv
<1>10. (state_ = "kDisconnected" => DownInv)'
  <2>1. SUFFICES ASSUME state_' = "kDisconnected" PROVE DownInv'
    OBVIOUS
  <2>2. DownInv /\ channel_' = channel_
    BY <2>1 DEF StageInv, Up
  <2> QED BY <1>1, <1>2, <1>3, <2>2 DEF DownInv
<1>11. (~(batch \in Seq(Stay)) => held)'
  <2>1. <<>> \in Seq(Stay)
    OBVIOUS
  <2> QED BY <1>2, <2>1, Zenon DEF StageInv
<1>12. (Destroys(todo) => held \/ Contains(todo, "release"))'
  <2>1. ~Destroys(<<>>)
    BY ShapesBegin
  <2> QED BY <2>1 DEF StageInv
<1>13. (Destroys(todo) => phase # "events")' /\ (Closes(todo) => phase = "events" \/ Forced(use))'
  BY DEF StageInv, Forced
<1> QED BY <1>4, <1>5, <1>6, <1>7, <1>8, <1>9, <1>10, <1>11, <1>12, <1>13 DEF StageInv

\* Steps that leave the loop where it is.
LEMMA StageStays ==
  ASSUME StreamInv, StageInv, UNCHANGED <<use, inMap, server, baseQueue, failed, todo, phase, held>>,
         \/ state_' = state_
         \/ state_ \in Up /\ state_' \in Up /\ use.serverDies = "never",
         Event(todo) /\ channel_.index_ = kAdded => channel_'.index_ = kAdded \/ NeverCloses(use),
         pending' = pending \/ (\E f \in Stay : pending' = Append(pending, f)),
         batch' = batch \/ (batch # <<>> /\ batch' = Tail(batch) /\ Head(batch) \in Stay),
         state_ = "kDisconnected" => channel_' = channel_
  PROVE  StageInv'
<1>1. /\ Shaped(todo') /\ (Closes(todo') <=> Closes(todo)) /\ (Destroys(todo') <=> Destroys(todo))
      /\ (Starts(todo') => Starts(todo)) /\ (Event(todo') => Event(todo) /\ phase' = phase)
      /\ Event(todo') /\ channel_.index_ = kAdded => channel_'.index_ = kAdded \/ NeverCloses(use)
      /\ Destroys(todo') /\ Contains(todo, "release") => Contains(todo', "release")
  BY DEF StageInv
<1> QED BY <1>1, StageKept, Zenon

LEMMA LifeStillInv ==
  ASSUME AllInv, UNCHANGED <<use, connVars, loopVars, pc, holds, server, inMap, baseQueue, timer, failed>>
  PROVE  LifeInv'
<1> USE DEF connVars, loopVars
<1>1. AskInv'
  BY DEF AllInv, LifeInv, AskInv, Begins
<1>2. TableInv'
  BY TableKept DEF AllInv, LifeInv
<1>3. StageInv'
  BY StageStays DEF AllInv, LifeInv
<1> QED BY <1>1, <1>2, <1>3 DEF LifeInv

LEMMA PeerLife ==
  ASSUME AllInv, Peer
  PROVE  LifeInv'
<1>1. UNCHANGED <<use, connVars, loopVars, pc, holds, server, inMap, baseQueue, timer, failed>>
  BY DEF Peer, PeerSends, PeerCloses, PeerResets, PeerReads, userVars, serverVars, lifeVars
<1> QED BY <1>1, LifeStillInv

LEMMA PollLife ==
  ASSUME AllInv, Poll
  PROVE  LifeInv'
<1>0. /\ UNCHANGED <<use, state_, channel_, reading_, holds, pc, pending, batch, held, timer>>
      /\ UNCHANGED <<inMap, server, baseQueue, failed>>
      /\ phase = "poll" /\ todo = <<>> /\ phase' = "events"
      /\ revents_' = Reported(channel_, Ready)
      /\ todo' = IF revents_' = {} THEN <<"callback">> ELSE <<"callback", "event">>
  BY DEF Poll, connVars, userVars, serverVars, lifeVars
<1>1. StreamInv /\ EventsInv /\ AskInv /\ TableInv /\ StageInv
  BY DEF AllInv, LifeInv
<1>2. ~Begins(todo, "connectEstablished") /\ ~Begins(todo', "connectEstablished")
  BY <1>0 DEF Begins
<1>3. AskInv'
  <2>1. batch = <<>> /\ \A t \in Threads : pc'[t] # Idle => t \in holds
    BY <1>0, <1>1, Zenon DEF AskInv
  <2> QED BY <1>0, <1>1, <1>2, <2>1, AskSame
<1>4. TableInv'
  BY <1>0, <1>1, TableKept
<1>5. Quiet(todo) /\ ~Event(todo) /\ ~Closes(todo) /\ ~Destroys(todo) /\ ~Starts(todo)
  BY <1>0, Single, ShapesApart
<1>6. CASE revents_' = {}
  <2>1. Quiet(todo') /\ ~Event(todo') /\ ~Closes(todo') /\ ~Destroys(todo') /\ ~Starts(todo')
    BY <1>0, <1>6, Single, ShapesApart
  <2>2. ~Begins(todo, "connectDestroyed")
    BY <1>0 DEF Begins
  <2>3. StageInv'
    BY <1>0, <1>1, <1>5, <2>1, <2>2, StageKept, Zenon DEF Shaped
  <2> QED BY <1>3, <1>4, <2>3 DEF LifeInv
<1>7. CASE revents_' # {}
  <2>1. Event(todo') /\ ~Closes(todo') /\ ~Destroys(todo') /\ ~Starts(todo')
    BY <1>0, <1>7, Single, ShapesApart
  <2>2. channel_.index_ = kAdded
    BY <1>0, <1>1, <1>7 DEF Reported, TableInv
  <2>3. state_ # "kConnecting"
    BY <1>1, <2>2 DEF EventsInv, StartInv, Starting, NewChannel, kNew, kAdded
  <2>4. state_ # "kDisconnected"
    BY <1>1, <1>5, <2>2 DEF StageInv, DownInv, kNew, kAdded, kDeleted
  <2>5. state_ \in Up /\ UpInv
    BY <1>1, <2>3, <2>4 DEF StageInv, Up
  <2>6. UpInv'
    <3>1. ~Begins(todo, "connectDestroyed")
      BY <1>0 DEF Begins
    <3> QED BY <1>0, <2>1, <2>5, <3>1, Zenon DEF UpInv, NoneDestroys
  <2>7. StageInv'
    BY <1>0, <1>1, <2>1, <2>2, <2>5, <2>6 DEF StageInv, Shaped, Up
  <2> QED BY <1>3, <1>4, <2>7 DEF LifeInv
<1> QED BY <1>6, <1>7

\* Handlers that touch neither the connection nor a queue.
LEMMA PlainLife ==
  ASSUME AllInv, CallbackReturns \/ HandleEvent \/ HandleError \/ HandleReadMessage \/ EndScope
  PROVE  LifeInv'
<1>0. /\ UNCHANGED <<use, state_, channel_, reading_, holds, pc, pending, batch, held, timer, phase>>
      /\ UNCHANGED <<inMap, server, baseQueue, failed>>
      /\ todo # <<>>
  BY Zenon DEF CallbackReturns, HandleEvent, HandleError, HandleReadMessage, EndScope, At, connVars, userVars,
     serverVars, lifeVars
<1>1. StreamInv /\ EventsInv /\ AskInv /\ TableInv /\ StageInv /\ todo \in Seq(Steps) /\ Shaped(todo)
  BY DEF AllInv, LifeInv, EventsInv, StageInv
<1>2. TableInv'
  BY <1>0, <1>1, TableKept
<1>3. AskInv'
  <2>1. ASSUME state_ = "kConnecting"
        PROVE  Begins(todo', "connectEstablished") <=> Begins(todo, "connectEstablished")
    <3>1. CallbackReturns
      <4>1. ~At("event") /\ ~At("error") /\ ~At("read") /\ ~At("endEvent") /\ ~At("release")
        <5>1. \A step : At(step) => step \in {"callback", "connectEstablished"}
          BY <1>1, <2>1, NotWhileStarting, Zenon
        <5> HIDE DEF At
        <5> QED BY <5>1
      <4> QED BY <4>1, Zenon DEF HandleEvent, HandleError, HandleReadMessage, EndScope
    <3>2. Head(todo) = "callback" /\ todo' = Tail(todo)
      BY <1>0, <1>1, <3>1, PopKeeps DEF CallbackReturns, At
    <3>3. todo = <<"callback">>
      BY <1>0, <1>1, <2>1, <3>2 DEF EventsInv, StartInv, Starting
    <3>4. todo' = <<>>
      BY <3>2, <3>3
    <3> QED BY <3>2, <3>4 DEF Begins
  <2>2. \A t \in Threads : pc'[t] # Idle => t \in holds
    BY <1>0, <1>1, Zenon DEF AskInv
  <2>3. phase' # "functors" => batch = <<>>
    BY <1>0, <1>1, Zenon DEF AskInv
  <2> QED BY <1>0, <1>1, <2>1, <2>2, <2>3, AskSame
<1> DEFINE Alike ==
             /\ Shaped(todo') /\ (Closes(todo') <=> Closes(todo)) /\ (Destroys(todo') <=> Destroys(todo))
             /\ (Starts(todo') => Starts(todo)) /\ (Event(todo') => Event(todo))
             /\ Head(todo) \notin {"connectDestroyed", "remove"}
             /\ Destroys(todo) => todo' = Tail(todo) /\ Head(todo) = "callback"
<1>4. Alike
  <2>1. ASSUME CallbackReturns PROVE Alike
    <3>1. Head(todo) = "callback" /\ todo' = Tail(todo)
      BY <1>0, <1>1, <2>1, PopKeeps DEF CallbackReturns, At
    <3>2. /\ Shaped(todo') /\ ~Starts(todo)
          /\ Quiet(todo) => Quiet(todo')
          /\ Event(todo) => Event(todo')
          /\ Closes(todo) => Closes(todo')
          /\ Destroys(todo) => Destroys(todo')
      BY <1>0, <1>1, <3>1, HeadSays
    <3> QED BY <1>1, <3>1, <3>2, ShapesApart DEF Shaped
  <2>2. ASSUME HandleEvent PROVE Alike
    <3>1. Head(todo) = "event" /\ Push(IF Strong THEN Dispatched \o <<"endEvent", "release">> ELSE <<>>)
      BY <2>2 DEF HandleEvent, At
    <3>2. Event(todo) /\ Tail(todo) = <<>>
      BY <1>0, <1>1, <3>1, HeadSays
    <3>3. Quiet(todo') \/ Event(todo')
      <4>1. CASE Strong
        <5> DEFINE s == Dispatched \o <<"endEvent", "release">>
        <5>1. s \in Seq(Steps)
          <6>1. <<"endEvent", "release">> \in Seq(Steps)
            BY DEF Steps
          <6> QED BY <6>1, DispatchedSteps
        <5>2. Quiet(s) \/ Event(s)
          BY DispatchedAre
        <5>3. todo' = s \o <<>>
          BY <3>1, <3>2, <4>1, Zenon DEF Push
        <5> HIDE DEF s
        <5>4. s \o <<>> = s
          BY <5>1
        <5> QED BY <5>2, <5>3, <5>4
      <4>2. CASE ~Strong
        <5>1. todo' = <<>> \o <<>>
          BY <3>1, <3>2, <4>2 DEF Push
        <5>2. todo' = <<>>
          BY <5>1
        <5> QED BY <5>2, Single
      <4> QED BY <4>1, <4>2
    <3> QED BY <3>1, <3>2, <3>3, ShapesApart DEF Shaped
  <2>3. ASSUME HandleError PROVE Alike
    <3>1. Head(todo) \in {"error", "read"} /\ todo' = Tail(todo)
      BY <1>0, <1>1, <2>3, PopKeeps DEF HandleError, At
    <3>2. (Quiet(todo) \/ Event(todo)) /\ (Quiet(todo') \/ (Event(todo) /\ Event(todo')))
      BY <1>0, <1>1, <3>1, HeadSays, EndsAre, Built, Zenon
    <3> QED BY <3>1, <3>2, ShapesApart DEF Shaped
  <2>4. ASSUME HandleReadMessage PROVE Alike
    <3>1. Head(todo) = "read" /\ todo' = <<"callback">> \o Tail(todo)
      BY <2>4 DEF HandleReadMessage, At, Push
    <3>2. Event(todo) /\ Tail(todo) \in Ends
      BY <1>0, <1>1, <3>1, HeadSays
    <3>3. Quiet(todo')
      BY <3>1, <3>2, EndsAre, Built
    <3> QED BY <3>1, <3>2, <3>3, ShapesApart DEF Shaped
  <2>5. ASSUME EndScope PROVE Alike
    <3>1. Head(todo) \in {"endEvent", "release"} /\ todo' = Tail(todo)
      BY <1>0, <1>1, <2>5, PopKeeps DEF EndScope, At
    <3>2. Quiet(todo) /\ Quiet(todo')
      BY <1>0, <1>1, <3>1, HeadSays, EndsAre, Built
    <3> QED BY <3>1, <3>2, ShapesApart DEF Shaped
  <2> QED BY <2>1, <2>2, <2>3, <2>4, <2>5, Zenon
<1>5. Destroys(todo') /\ Contains(todo, "release") => Contains(todo', "release")
  BY <1>0, <1>1, <1>4, ContainsStep, Zenon
<1>6. ~Begins(todo, "connectDestroyed")
  BY <1>4 DEF Begins
<1>7. StageInv'
  BY <1>0, <1>1, <1>4, <1>5, <1>6, StageKept
<1> QED BY <1>2, <1>3, <1>7 DEF LifeInv

\* handleClose() takes a connection that is up to the first stage of its end.
LEMMA CloseLife ==
  ASSUME AllInv, NEW rest \in Errs, CallHandleClose(rest), state_ \in Up, channel_.index_ = kAdded,
         ~Begins(todo, "connectDestroyed"), phase = "events" \/ Forced(use),
         batch' = batch \/ (batch # <<>> /\ batch' = Tail(batch))
  PROVE  LifeInv'
<1>0. /\ UNCHANGED <<use, reading_, holds, pc, pending, held, timer, phase, inMap, server, baseQueue, failed>>
      /\ state_' = "kDisconnected" /\ channel_' = update(channel_, {})
      /\ todo' = <<"callback", "closeCallback">> \o rest
  BY DEF CallHandleClose, handleClose, disableAll, userVars, serverVars
<1>1. /\ StreamInv /\ AskInv /\ TableInv /\ StageInv /\ UpInv
      /\ channel_ \in ChannelType /\ pending \in Seq(FunctorType) /\ batch \in Seq(FunctorType)
  BY Zenon DEF AllInv, LifeInv, StageInv, StreamInv, Typed
<1>2. state_ # "kConnecting" /\ state_' # "kConnecting" /\ \A t \in Threads : pc'[t] # Idle => t \in holds
  BY <1>0, <1>1, Zenon DEF Up, AskInv
<1>3. AskInv'
  BY <1>0, <1>1, <1>2, AskKept, Zenon
<1>4. channel_'.events_ = {} /\ channel_'.index_ = kDeleted /\ (channel_'.registered <=> channel_'.index_ = kAdded)
  BY <1>0, <1>1, UpdateRegisters, Zenon DEF TableInv
<1>5. TableInv'
  BY <1>0, <1>4, Zenon DEF TableInv, Up
<1>6. Closes(todo') /\ ~Quiet(todo') /\ ~Event(todo') /\ ~Destroys(todo') /\ ~Starts(todo')
  BY <1>0, Built, ShapesApart
<1>7. inMap /\ server /\ baseQueue = 0 /\ NoneDestroys
  BY <1>1 DEF UpInv
<1>8. NoneDestroys' /\ batch' \in Seq(Stay)
  <2>1. batch # <<>> => Tail(batch) \in Seq(Stay)
    BY <1>7, SeqOf DEF NoneDestroys
  <2> QED BY <1>0, <1>7, <2>1, Zenon DEF NoneDestroys
<1>9. DownInv'
  BY <1>0, <1>4, <1>6, <1>7, <1>8, Zenon DEF DownInv
<1>10. StageInv'
  BY <1>0, <1>1, <1>6, <1>8, <1>9, Zenon DEF StageInv, Shaped, Up, Forced
<1> QED BY <1>3, <1>5, <1>10 DEF LifeInv

\* An event of the connection closes it only while it is up.
LEMMA HandleHupLife ==
  ASSUME AllInv, HandleHup \/ HandleReadEnd
  PROVE  LifeInv'
<1>0. /\ EventsInv /\ StageInv /\ Shaped(todo) /\ todo # <<>> /\ Head(todo) \in {"close", "read"}
      /\ At("close") \/ peer # "open"
  BY DEF AllInv, LifeInv, StageInv, HandleHup, HandleReadEnd, At
<1>1. ~NeverCloses(use)
  <2>1. SUFFICES ASSUME NeverCloses(use) PROVE FALSE
    OBVIOUS
  <2>2. ~At("close")
    BY <1>0, <2>1, OpenHead DEF OpenSteps
  <2>3. peer = "open"
    BY <1>0, <2>1 DEF EventsInv, OpenInv, StaysOpen
  <2> QED BY <1>0, <2>2, <2>3
<1>2. Event(todo) /\ Tail(todo) \in Errs
  BY <1>0, HeadSays, EndsAre
<1>3. state_ \in Up /\ channel_.index_ = kAdded /\ ~Begins(todo, "connectDestroyed") /\ phase = "events"
  BY <1>0, <1>1, <1>2 DEF StageInv, Begins
<1>4. CallHandleClose(Tail(todo)) /\ batch' = batch
  BY <1>3 DEF HandleHup, HandleReadEnd, Up
<1> QED BY <1>2, <1>3, <1>4, CloseLife

LEMMA RunForceCloseLife ==
  ASSUME AllInv, RunForceClose
  PROVE  LifeInv'
<1>0. /\ StreamInv /\ EventsInv /\ AskInv /\ TableInv /\ StageInv /\ Polite(use)
      /\ batch # <<>> /\ batch' = Tail(batch) /\ Head(batch).fn = "forceCloseInLoop" /\ todo = <<>> /\ phase = "functors"
  BY Zenon DEF AllInv, LifeInv, RunForceClose, NextFunctor, Careful
<1>1. Head(batch) \in Asked(use) /\ Head(batch) \in Stay
  <2>1. Head(batch) \in Asked(use)
    BY <1>0, SeqOf DEF AskInv
  <2> QED BY <1>0, <2>1, Zenon DEF Asked, Stay
<1>2. Forced(use)
  BY <1>0, <1>1 DEF Asked
<1>3. state_ # "kConnecting"
  BY <1>0, NotWhileStarting DEF RunForceClose
<1>4. CASE state_ \in Up
  <2>1. CallHandleClose(<<>>)
    BY <1>4 DEF RunForceClose, Up
  <2>2. isReading(channel_)
    BY <1>0, <1>2, <1>3, <1>4, CarefulSays, Zenon DEF EventsInv, Agrees, Up
  <2>3. channel_.index_ = kAdded
    <3>1. channel_.events_ # {}
      BY <2>2 DEF isReading, kReadEvent
    <3> QED BY <1>0, <1>4, <3>1 DEF TableInv
  <2>4. <<>> \in Errs /\ ~Begins(todo, "connectDestroyed")
    BY <1>0, EndsAre DEF Begins
  <2> QED BY <1>0, <1>2, <1>4, <2>1, <2>3, <2>4, CloseLife
<1>5. CASE state_ \notin Up
  <2>1. /\ UNCHANGED <<use, state_, channel_, reading_, holds, pc, pending, held, timer, phase, todo>>
        /\ UNCHANGED <<inMap, server, baseQueue, failed>>
    BY <1>5 DEF RunForceClose, Up, connVars, userVars, serverVars, lifeVars
  <2>2. AskInv'
    <3>1. \A t \in Threads : pc'[t] # Idle => t \in holds
      BY <1>0, <2>1, Zenon DEF AskInv
    <3> QED BY <1>0, <1>3, <2>1, <3>1, AskKept
  <2>3. TableInv'
    BY <1>0, <2>1, TableKept
  <2>4. StageInv'
    BY <1>0, <1>1, <2>1, StageStays
  <2> QED BY <2>2, <2>3, <2>4 DEF LifeInv
<1> QED BY <1>4, <1>5

\* The server lets go of the connection: a functor that destroys it is queued.
LEMMA ReleasedByServer ==
  ASSUME AllInv, state_ = "kDisconnected", inMap, removeConnectionInLoop,
         UNCHANGED <<use, state_, channel_, reading_, holds, pc, batch, held, timer, phase, failed>>,
         baseQueue' = 0, Shaped(todo'), ~Closes(todo'), ~Destroys(todo'), ~Starts(todo'), ~Event(todo')
  PROVE  LifeInv'
<1>0. /\ StreamInv /\ AskInv /\ TableInv /\ StageInv /\ DownInv
      /\ pending \in Seq(FunctorType) /\ inMap' = FALSE /\ pending' = Append(pending, Functor("connectDestroyed"))
  BY Zenon DEF AllInv, LifeInv, StageInv, StreamInv, Typed, removeConnectionInLoop
<1>1. NoneDestroys /\ channel_.index_ = kDeleted
  BY <1>0 DEF DownInv
<1>2. AskInv'
  <2>1. Functor("connectDestroyed") \in Asked(use) \cap Later /\ Functor("connectDestroyed") \in Shared
    BY FunctorsAre
  <2>2. \A t \in Threads : pc'[t] # Idle => t \in holds
    BY <1>0, Zenon DEF AskInv
  <2> QED BY <1>0, <2>1, <2>2, AskKept, Zenon
<1>3. TableInv'
  BY <1>0, TableKept
<1>4. OneDestroys(pending') /\ batch' \in Seq(Stay)
  BY <1>0, <1>1, OneComes DEF NoneDestroys
<1>5. DownInv'
  BY <1>0, <1>1, <1>4, Zenon DEF DownInv
<1>6. StageInv'
  BY <1>0, <1>4, <1>5, Zenon DEF StageInv, Up
<1> QED BY <1>2, <1>3, <1>6 DEF LifeInv

LEMMA CloseCallbackLife ==
  ASSUME AllInv, CloseCallback
  PROVE  LifeInv'
<1>0. /\ StreamInv /\ EventsInv /\ AskInv /\ TableInv /\ StageInv /\ Shaped(todo)
      /\ todo # <<>> /\ Head(todo) = "closeCallback" /\ todo \in Seq(Steps)
  BY DEF AllInv, LifeInv, StageInv, EventsInv, CloseCallback, At
<1>1. Closes(todo) /\ Tail(todo) \in Errs
  BY <1>0, HeadSays
<1>2. state_ # "kConnecting"
  BY <1>0, NotWhileStarting DEF CloseCallback
<1>3. state_ = "kDisconnected" /\ DownInv
  BY <1>0, <1>1, <1>2 DEF StageInv, UpInv
<1>4. inMap /\ server /\ baseQueue = 0 /\ NoneDestroys /\ channel_.index_ = kDeleted
  BY <1>1, <1>3 DEF DownInv
<1>5. /\ UNCHANGED <<use, state_, channel_, reading_, holds, pc, batch, held, timer, phase, server, failed>>
      /\ Push(<<>>)
      /\ IF use.sameLoop
         THEN removeConnectionInLoop /\ UNCHANGED baseQueue
         ELSE baseQueue' = baseQueue + 1 /\ UNCHANGED <<inMap, pending>>
  BY <1>4, Zenon DEF CloseCallback, connVars, userVars, lifeVars
<1>6. todo' = Tail(todo)
  BY <1>0, <1>5, PopKeeps
<1>7. Quiet(todo') /\ Shaped(todo') /\ ~Event(todo') /\ ~Closes(todo') /\ ~Destroys(todo') /\ ~Starts(todo')
  BY <1>1, <1>6, Built, ShapesApart DEF Shaped
<1>8. CASE use.sameLoop
  BY <1>3, <1>4, <1>5, <1>7, <1>8, ReleasedByServer, Zenon
<1>9. CASE ~use.sameLoop
  <2>1. UNCHANGED <<inMap, pending>> /\ baseQueue' = 1
    BY <1>4, <1>5, <1>9
  <2>2. AskInv'
    <3>1. \A t \in Threads : pc'[t] # Idle => t \in holds
      BY <1>0, <1>5, Zenon DEF AskInv
    <3> QED BY <1>0, <1>2, <1>5, <2>1, <3>1, AskKept, Zenon
  <2>3. TableInv'
    BY <1>0, <1>5, TableKept
  <2>4. DownInv'
    BY <1>4, <1>5, <1>7, <2>1 DEF DownInv, NoneDestroys
  <2>5. StageInv'
    BY <1>0, <1>3, <1>5, <1>7, <1>9, <2>1, <2>4, Zenon DEF StageInv, Up
  <2> QED BY <2>2, <2>3, <2>5 DEF LifeInv
<1> QED BY <1>8, <1>9

LEMMA BaseRemoveLife ==
  ASSUME AllInv, BaseRemove
  PROVE  LifeInv'
<1>0. StageInv /\ Shaped(todo) /\ EventsInv /\ baseQueue > 0
  BY DEF AllInv, LifeInv, StageInv, BaseRemove
<1>1. state_ = "kDisconnected" /\ DownInv
  BY <1>0 DEF StageInv, UpInv, Up
<1>2. inMap /\ server /\ baseQueue = 1 /\ ~Closes(todo) /\ ~Destroys(todo)
  BY <1>0, <1>1 DEF DownInv
<1>3. ~Event(todo) /\ ~Starts(todo)
  BY <1>0, <1>1 DEF StageInv, Up
<1>4. /\ UNCHANGED <<use, state_, channel_, reading_, holds, pc, batch, held, timer, phase, todo, failed>>
      /\ removeConnectionInLoop /\ baseQueue' = 0
  BY <1>2 DEF BaseRemove, connVars, userVars, lifeVars
<1>5. Shaped(todo') /\ ~Event(todo') /\ ~Closes(todo') /\ ~Destroys(todo') /\ ~Starts(todo')
  BY <1>0, <1>2, <1>3, <1>4
<1> QED BY <1>1, <1>2, <1>4, <1>5, ReleasedByServer

LEMMA ServerDtorLife ==
  ASSUME AllInv, ServerDtor
  PROVE  LifeInv'
<1>0. /\ StreamInv /\ EventsInv /\ AskInv /\ TableInv /\ StageInv /\ Shaped(todo) /\ todo \in Seq(Steps)
      /\ use.serverDies # "never"
  BY DEF AllInv, LifeInv, StageInv, EventsInv, ServerDtor
<1>1. use.sameLoop /\ use.serverDies = "outside" /\ ~Forced(use)
  BY <1>0, CarefulSays, Zenon
<1>2. phase # "events" /\ (todo = <<>> \/ Begins(todo, "callback"))
  BY <1>1, Zenon DEF ServerDtor, MayDestruct, At, Begins
<1>3. /\ UNCHANGED <<use, state_, channel_, reading_, holds, pc, batch, held, timer, phase, baseQueue, failed>>
      /\ inMap' = FALSE /\ pending' = pending
      /\ todo' = IF inMap THEN <<"connectDestroyed", "release">> \o todo ELSE todo
  BY <1>1, <1>2 DEF ServerDtor, InAccept, connVars, userVars, lifeVars
<1>4. ~Closes(todo) /\ ~Event(todo) /\ ~Starts(todo)
  BY <1>0, <1>1, <1>2, ShapesBegin DEF StageInv, Begins
<1>5. state_ # "kConnecting"
  <2>1. <<"connectEstablished", "release">> # <<>> /\ ~Begins(<<"connectEstablished", "release">>, "callback")
    BY DEF Begins
  <2>2. todo # <<"connectEstablished", "release">>
    BY <1>2, <2>1
  <2> QED BY <1>0, <1>1, <2>2 DEF EventsInv, StartInv, Starting
<1>6. AskInv'
  <2>1. \A t \in Threads : pc'[t] # Idle => t \in holds
    BY <1>0, <1>3, Zenon DEF AskInv
  <2> QED BY <1>0, <1>3, <1>5, <2>1, AskKept, Zenon
<1>7. TableInv'
  BY <1>0, <1>3, TableKept, Zenon
<1>8. CASE inMap
  <2>1. state_ # "kDisconnected"
    BY <1>0, <1>1, <1>4, <1>8 DEF StageInv, DownInv
  <2>2. state_ = "kConnected" /\ UpInv
    BY <1>0, <1>5, <2>1 DEF StageInv, Up
  <2>3. todo' = <<"connectDestroyed", "release">> \o todo
    BY <1>3, <1>8
  <2>4. todo = <<>> \/ (Quiet(todo) /\ Begins(todo, "callback"))
    BY <1>0, <1>2, <1>4, <1>8, <2>2 DEF UpInv, Shaped
  <2>5. /\ Destroys(todo') /\ ~Quiet(todo') /\ ~Event(todo') /\ ~Closes(todo') /\ ~Starts(todo')
        /\ Contains(todo', "release") /\ Begins(todo', "connectDestroyed")
    BY <1>0, <2>3, <2>4, BuiltRest, ShapesApart, Zenon
  <2>6. UpInv'
    BY <1>0, <1>3, <2>2, <2>5, Zenon DEF UpInv, NoneDestroys
  <2>7. StageInv'
    BY <1>0, <1>2, <1>3, <2>2, <2>5, <2>6, Zenon DEF StageInv, Shaped, Up
  <2> QED BY <1>6, <1>7, <2>7 DEF LifeInv
<1>9. CASE ~inMap
  <2>1. state_ \notin Up
    BY <1>0, <1>2, <1>9 DEF StageInv, UpInv, Begins
  <2>2. state_ = "kDisconnected" /\ DownInv
    BY <1>0, <1>5, <2>1 DEF StageInv
  <2>3. todo' = todo
    BY <1>3, <1>9
  <2>4. DownInv'
    BY <1>3, <1>9, <2>2, <2>3, Zenon DEF DownInv, NoneDestroys
  <2>5. StageInv'
    BY <1>0, <1>2, <1>3, <1>4, <2>2, <2>3, <2>4, Zenon DEF StageInv, Up
  <2> QED BY <1>6, <1>7, <2>5 DEF LifeInv
<1> QED BY <1>8, <1>9

\* sendInLoop() and handleWrite() do not touch the Channel of a connection that is down.
LEMMA SendTable ==
  ASSUME StreamInv, TableInv, StageInv, state_ # "kConnecting", state_' = state_,
         NEW data, sendInLoop(data, pending)
  PROVE  /\ TableInv' /\ (state_ = "kDisconnected" => channel_' = channel_)
         /\ channel_.index_ = kAdded => channel_'.index_ = kAdded
         /\ pending' \in {pending, Append(pending, Functor("callback"))}
<1>1. /\ pending' \in {pending, Append(pending, Functor("callback"))}
      /\ channel_' \in {channel_, enableWriting(channel_)}
      /\ state_ = "kDisconnected" => channel_' = channel_
  BY Zenon DEF sendInLoop
<1>2. CASE channel_' = channel_
  BY <1>1, <1>2, TableKept
<1>3. CASE channel_' = enableWriting(channel_) /\ state_ # "kDisconnected"
  <2>1. state_' \in Up
    BY <1>3 DEF StageInv
  <2>2. channel_.events_ \cup kWriteEvent \in SUBSET (kReadEvent \cup kWriteEvent) /\ channel_.events_ \cup kWriteEvent # {}
    BY DEF StreamInv, Typed, ChannelType, kWriteEvent
  <2>3. TableInv' /\ channel_'.index_ = kAdded
    BY <1>3, <2>1, <2>2, UpdateTable, Zenon DEF enableWriting
  <2> QED BY <1>1, <1>3, <2>3
<1> QED BY <1>1, <1>2, <1>3

LEMMA HandleWriteLife ==
  ASSUME AllInv, HandleWrite
  PROVE  LifeInv'
<1>0. /\ StreamInv /\ EventsInv /\ AskInv /\ TableInv /\ StageInv /\ Shaped(todo)
      /\ todo # <<>> /\ Head(todo) = "write" /\ At("write") /\ Push(<<>>)
      /\ UNCHANGED <<use, state_, reading_, holds, pc, batch, held, timer, phase, inMap, server, baseQueue, failed>>
      /\ pending' \in {pending, Append(pending, Functor("callback"))}
      /\ channel_' = channel_ \/ (isWriting(channel_) /\ channel_' = disableWriting(channel_))
  BY Zenon DEF AllInv, LifeInv, StageInv, HandleWrite, Written, At, userVars, serverVars, lifeVars
<1>1. state_ # "kConnecting"
  BY <1>0, NotWhileStarting, Zenon
<1>2. TableInv' /\ (state_ = "kDisconnected" => channel_' = channel_)
  <2>1. CASE channel_' = channel_
    BY <1>0, <2>1, TableKept
  <2>2. CASE isWriting(channel_) /\ channel_' = disableWriting(channel_)
    <3>1. channel_.events_ # {}
      BY <2>2 DEF isWriting, kWriteEvent
    <3>2. state_ \in Up
      BY <1>0, <1>1, <3>1, Zenon DEF TableInv, StageInv
    <3>3. channel_.index_ = kAdded
      BY <1>0, <3>1, <3>2, Zenon DEF TableInv
    <3>4. channel_.events_ \ kWriteEvent \in SUBSET (kReadEvent \cup kWriteEvent)
      BY <1>0, Zenon DEF StreamInv, Typed, ChannelType
    <3> QED BY <1>0, <2>2, <3>2, <3>3, <3>4, UpdateTable, Zenon DEF disableWriting, Up
  <2> QED BY <1>0, <2>1, <2>2
<1>3. /\ Functor("callback") \in Asked(use) \cap Later /\ Functor("callback") \in Shared /\ Functor("callback") \in Stay
      /\ \A t \in Threads : pc'[t] # Idle => t \in holds
  BY <1>0, FunctorsAre, Zenon DEF AskInv
<1>4. AskInv'
  BY <1>0, <1>1, <1>3, AskKept, Zenon
<1>5. Quiet(todo) /\ Quiet(todo')
  BY <1>0, HeadSays, PopKeeps, EndsAre, Built, Zenon
<1>6. /\ Shaped(todo') /\ ~Event(todo') /\ ~Closes(todo') /\ ~Destroys(todo') /\ ~Starts(todo')
      /\ ~Closes(todo) /\ ~Destroys(todo) /\ ~Begins(todo, "connectDestroyed")
  <2>1. ~Event(todo') /\ ~Closes(todo') /\ ~Destroys(todo') /\ ~Starts(todo') /\ ~Closes(todo) /\ ~Destroys(todo)
    BY <1>5, ShapesApart, Zenon
  <2>2. ~Begins(todo, "connectDestroyed")
    BY <1>0 DEF Begins
  <2> QED BY <1>5, <2>1, <2>2, Zenon DEF Shaped
<1>7. StageInv'
  BY <1>0, <1>2, <1>3, <1>6, StageKept, Zenon
<1> QED BY <1>2, <1>4, <1>7 DEF LifeInv

LEMMA ConnectEstablishedLife ==
  ASSUME AllInv, ConnectEstablished
  PROVE  LifeInv'
<1>0. /\ StreamInv /\ EventsInv /\ AskInv /\ TableInv /\ StageInv /\ Shaped(todo)
      /\ todo # <<>> /\ Head(todo) = "connectEstablished"
  BY Zenon DEF AllInv, LifeInv, StageInv, ConnectEstablished, At
<1>1. Starts(todo) /\ Tail(todo) \in Releases /\ state_ = "kConnecting" /\ Begins(todo, "connectEstablished")
  BY <1>0, HeadSays, Zenon DEF StageInv, Begins
<1>2. /\ UNCHANGED <<use, reading_, pc, pending, batch, held, timer, phase, inMap, server, baseQueue, failed>>
      /\ state_' = "kConnected" /\ channel_' = enableReading(channel_) /\ holds' = Users
      /\ todo' = <<"callback">> \o Tail(todo)
  BY <1>1 DEF ConnectEstablished, Push, serverVars
<1>3. /\ pending \in Seq(Later) /\ batch \in Seq(Later)
      /\ pending \in Seq(Asked(use)) /\ batch \in Seq(Asked(use))
  BY <1>0, <1>1, Zenon DEF AskInv
<1>4. Starting
  BY <1>0, <1>1 DEF EventsInv, StartInv
<1>5. AskInv'
  <2>1. /\ (pending \in Seq(Asked(use)) /\ batch \in Seq(Asked(use)))'
        /\ (timer => Forced(use))'
        /\ (reading_ \/ {"stopRead", "pauseRead"} \cap use.loop # {} \/ "stopRead" \in use.threads)'
        /\ (phase # "functors" => batch = <<>>)'
    BY <1>0, <1>2, Zenon DEF AskInv
  <2>2. (holds \cap Threads = {} => pending \in Seq(Shared) /\ batch \in Seq(Shared))'
    <3>1. SUFFICES ASSUME Users \cap Threads = {} PROVE pending \in Seq(Shared) /\ batch \in Seq(Shared)
      BY <1>2
    <3>2. holds \cap Threads = {}
      BY <1>4 DEF Starting
    <3> QED BY <1>0, <3>2, Zenon DEF AskInv
  <2>3. (\A t \in Threads : pc[t] # Idle => t \in holds)'
    BY <1>2 DEF Users
  <2>4. state_' # "kConnecting" /\ (pending \in Seq(Later) /\ batch \in Seq(Later))'
    BY <1>2, <1>3
  <2> QED BY <2>1, <2>2, <2>3, <2>4, Zenon DEF AskInv
<1>6. TableInv' /\ channel_'.index_ = kAdded
  <2>1. channel_.events_ \cup kReadEvent \in SUBSET (kReadEvent \cup kWriteEvent) /\ channel_.events_ \cup kReadEvent # {}
    BY <1>0 DEF StreamInv, Typed, ChannelType, kReadEvent
  <2> QED BY <1>0, <1>2, <2>1, UpdateTable, Zenon DEF enableReading, Up
<1>7. Quiet(todo') /\ ~Event(todo') /\ ~Closes(todo') /\ ~Destroys(todo') /\ ~Starts(todo')
  BY <1>1, <1>2, Built, EndsAre, ShapesApart
<1>8. UpInv'
  BY <1>0, <1>1, <1>2, <1>7, Zenon DEF StageInv, UpInv, NoneDestroys
<1>9. StageInv'
  BY <1>0, <1>2, <1>7, <1>8, Zenon DEF StageInv, Shaped, Up
<1> QED BY <1>5, <1>6, <1>9 DEF LifeInv

LEMMA ConnectDestroyedLife ==
  ASSUME AllInv, ConnectDestroyed
  PROVE  LifeInv'
<1>0. /\ StreamInv /\ EventsInv /\ AskInv /\ TableInv /\ StageInv /\ Shaped(todo)
      /\ todo # <<>> /\ Head(todo) = "connectDestroyed" /\ todo \in Seq(Steps) /\ channel_ \in ChannelType
      /\ UNCHANGED <<use, reading_, holds, pc, pending, batch, held, timer, phase, inMap, server, baseQueue, failed>>
  BY Zenon DEF AllInv, LifeInv, StageInv, EventsInv, StreamInv, Typed, ConnectDestroyed, At, userVars, serverVars
<1>1. Destroys(todo) /\ Rest(Tail(todo)) /\ Tail(todo) \in Seq(Steps) /\ phase # "events"
  BY <1>0, HeadSays DEF StageInv
<1>2. state_ # "kConnecting"
  BY <1>0, NotWhileStarting, Zenon DEF ConnectDestroyed
<1>3. held \/ Contains(Tail(todo), "release")
  <2>1. held \/ Contains(todo, "release")
    BY <1>0, <1>1 DEF StageInv
  <2> QED BY <1>0, <2>1, ContainsStep
<1>4. ASSUME todo' \in {<<"callback", "remove">> \o Tail(todo), <<"remove">> \o Tail(todo)}
      PROVE  /\ Destroys(todo') /\ ~Quiet(todo') /\ ~Event(todo') /\ ~Closes(todo') /\ ~Starts(todo')
             /\ held' \/ Contains(todo', "release")
  BY <1>0, <1>1, <1>3, <1>4, BuiltRest, ShapesApart, Zenon
<1>5. ASSUME state_' # "kConnecting" PROVE AskInv'
  <2>1. \A t \in Threads : pc'[t] # Idle => t \in holds
    BY <1>0, Zenon DEF AskInv
  <2> QED BY <1>0, <1>2, <1>5, <2>1, AskKept, Zenon
<1>6. CASE state_ = "kConnected"
  <2>1. /\ state_' = "kDisconnected" /\ channel_' = update(channel_, {})
        /\ todo' = <<"callback", "remove">> \o Tail(todo)
    BY <1>6 DEF ConnectDestroyed, disableAll, Push
  <2>2. UpInv
    BY <1>0, <1>6 DEF StageInv, Up
  <2>3. ~inMap /\ baseQueue = 0 /\ NoneDestroys
    BY <1>1, <2>2 DEF UpInv
  <2>4. channel_'.events_ = {} /\ channel_'.index_ # kNew /\ (channel_'.registered <=> channel_'.index_ = kAdded)
    BY <1>0, <2>1, UpdateRegisters, Zenon DEF TableInv, kNew, kAdded, kDeleted
  <2>5. TableInv'
    BY <2>1, <2>4, Zenon DEF TableInv, Up
  <2>6. DownInv'
    BY <1>0, <1>4, <2>1, <2>3, <2>4, Zenon DEF DownInv, NoneDestroys
  <2>7. StageInv'
    BY <1>0, <1>1, <1>4, <2>1, <2>6, Zenon DEF StageInv, Shaped, Up
  <2> QED BY <1>5, <2>1, <2>5, <2>7 DEF LifeInv
<1>7. CASE state_ # "kConnected"
  <2>1. UNCHANGED <<state_, channel_>> /\ todo' = <<"remove">> \o Tail(todo)
    BY <1>7 DEF ConnectDestroyed, Push
  <2>2. state_ = "kDisconnected" /\ DownInv
    BY <1>0, <1>1, <1>2, <1>7 DEF StageInv, UpInv
  <2>3. ~inMap /\ baseQueue = 0 /\ NoneDestroys /\ channel_.index_ # kNew
    BY <1>1, <2>2 DEF DownInv
  <2>4. TableInv'
    BY <1>0, <2>1, TableKept
  <2>5. DownInv'
    BY <1>0, <1>4, <2>1, <2>3, Zenon DEF DownInv, NoneDestroys
  <2>6. StageInv'
    BY <1>0, <1>1, <1>4, <2>1, <2>2, <2>5, Zenon DEF StageInv, Shaped, Up
  <2> QED BY <1>2, <1>5, <2>1, <2>4, <2>6 DEF LifeInv
<1> QED BY <1>6, <1>7

LEMMA RemoveChannelLife ==
  ASSUME AllInv, RemoveChannel
  PROVE  LifeInv'
<1>0. /\ StreamInv /\ EventsInv /\ AskInv /\ TableInv /\ StageInv /\ Shaped(todo)
      /\ todo # <<>> /\ Head(todo) = "remove" /\ todo \in Seq(Steps) /\ channel_ \in ChannelType
  BY Zenon DEF AllInv, LifeInv, StageInv, EventsInv, StreamInv, Typed, RemoveChannel, At
<1>1. /\ Destroys(todo) /\ Rest(Tail(todo)) /\ Tail(todo) \in Seq(Steps) /\ ~Begins(todo, "connectDestroyed")
      /\ phase # "events"
  BY <1>0, HeadSays DEF Begins, StageInv
<1>2. state_ # "kConnecting"
  BY <1>0, NotWhileStarting, Zenon DEF RemoveChannel
<1>3. state_ = "kDisconnected" /\ DownInv
  BY <1>0, <1>1, <1>2 DEF StageInv, UpInv
<1>4. ~inMap /\ baseQueue = 0 /\ NoneDestroys /\ channel_.index_ # kNew /\ channel_.events_ = {}
  BY <1>0, <1>1, <1>3, Zenon DEF DownInv, TableInv
<1>5. MayRemove(channel_) /\ NotListed
  BY <1>0, <1>1, <1>4 DEF MayRemove, NotListed, isNoneEvent, ChannelType
<1>6. /\ UNCHANGED <<use, state_, reading_, holds, pc, pending, batch, held, timer, phase, inMap, server,
                     baseQueue, failed>>
      /\ channel_' = remove(channel_) /\ Push(<<>>)
  BY <1>5 DEF RemoveChannel, userVars, serverVars, lifeVars
<1>7. AskInv'
  <2>1. \A t \in Threads : pc'[t] # Idle => t \in holds
    BY <1>0, <1>6, Zenon DEF AskInv
  <2> QED BY <1>0, <1>2, <1>6, <2>1, AskKept, Zenon
<1>8. /\ channel_'.index_ = kNew /\ channel_'.addedToLoop_ = FALSE /\ channel_'.events_ = {}
      /\ channel_'.registered <=> channel_'.index_ = kAdded
  BY <1>0, <1>4, <1>6, RemoveUnregisters, Zenon DEF TableInv
<1>9. TableInv'
  BY <1>3, <1>6, <1>8 DEF TableInv, Up
<1>10. Quiet(todo') /\ ~Event(todo') /\ ~Closes(todo') /\ ~Destroys(todo') /\ ~Starts(todo')
  BY <1>0, <1>1, <1>6, PopKeeps, BuiltRest, ShapesApart, Zenon
<1>11. DownInv'
  BY <1>4, <1>6, <1>8, <1>10, Zenon DEF DownInv, NoneDestroys
<1>12. StageInv'
  BY <1>0, <1>3, <1>6, <1>10, <1>11, Zenon DEF StageInv, Shaped, Up
<1> QED BY <1>7, <1>9, <1>12 DEF LifeInv

LEMMA SwapLife ==
  ASSUME AllInv, Swap \/ FunctorsDone
  PROVE  LifeInv'
<1>0. /\ StreamInv /\ AskInv /\ TableInv /\ StageInv /\ Shaped(todo) /\ todo = <<>> /\ batch = <<>>
      /\ UNCHANGED <<use, state_, channel_, reading_, holds, pc, timer, todo, inMap, server, baseQueue, failed>>
      /\ pending \in Seq(FunctorType)
  BY Zenon DEF AllInv, LifeInv, AskInv, StageInv, StreamInv, Typed, Swap, FunctorsDone, connVars, userVars,
     serverVars, lifeVars
<1>1. TableInv'
  BY <1>0, TableKept
<1>2. /\ \A t \in Threads : pc'[t] # Idle => t \in holds
      /\ \A S : <<>> \in Seq(S)
      /\ ~Event(todo) /\ ~Event(todo') /\ ~Destroys(todo') /\ ~Closes(todo') /\ ~Closes(todo) /\ ~Destroys(todo)
      /\ ~Begins(todo, "connectEstablished") /\ ~Begins(todo', "connectEstablished")
  <2>1. todo = <<>> /\ todo' = <<>>
    BY <1>0, Zenon
  <2>2. ~Event(todo) /\ ~Event(todo') /\ ~Destroys(todo') /\ ~Closes(todo') /\ ~Closes(todo) /\ ~Destroys(todo)
    BY <2>1, ShapesBegin, Zenon
  <2>3. ~Begins(todo, "connectEstablished") /\ ~Begins(todo', "connectEstablished")
    BY <2>1, Zenon DEF Begins
  <2>4. \A t \in Threads : pc'[t] # Idle => t \in holds
    BY <1>0, Zenon DEF AskInv
  <2>5. \A S : <<>> \in Seq(S)
    OBVIOUS
  <2> QED BY <2>2, <2>3, <2>4, <2>5, Zenon
<1>3. CASE FunctorsDone
  <2>1. UNCHANGED <<pending, batch>> /\ phase = "functors" /\ held' = FALSE
    BY <1>3 DEF FunctorsDone
  <2>2. state_ # "kConnecting"
    BY <1>0, <1>2, <2>1, Zenon DEF AskInv
  <2>3. AskInv'
    BY <1>0, <1>2, <2>1, <2>2, AskSame
  <2>4. StageInv'
    BY <1>0, <1>2, <2>1, StageKept, Zenon
  <2> QED BY <1>1, <2>3, <2>4 DEF LifeInv
<1>4. CASE Swap
  <2>1. /\ batch' = pending /\ pending' = <<>> /\ phase = "events" /\ phase' = "functors"
        /\ held' = (held \/ \E i \in DOMAIN pending : pending[i].fn \in SharedFns)
    BY <1>4 DEF Swap
  <2>2. AskInv'
    <3>1. /\ (pending \in Seq(Asked(use)) /\ batch \in Seq(Asked(use)))'
          /\ (timer => Forced(use))'
          /\ (reading_ \/ {"stopRead", "pauseRead"} \cap use.loop # {} \/ "stopRead" \in use.threads)'
          /\ (holds \cap Threads = {} => pending \in Seq(Shared) /\ batch \in Seq(Shared))'
          /\ (state_ # "kConnecting" => pending \in Seq(Later) /\ batch \in Seq(Later))'
          /\ (phase # "functors" => batch = <<>>)'
      BY <1>0, <1>2, <2>1, Zenon DEF AskInv
    <3>2. state_ = "kConnecting" => pending # <<>> /\ Tail(pending) \in Seq(Later)
      BY <1>0, <1>2, <2>1, Zenon DEF AskInv
    <3>3. (state_ = "kConnecting" => pending \in Seq(Later) /\ batch # <<>> /\ Tail(batch) \in Seq(Later))'
      BY <1>0, <1>2, <2>1, <3>2
    <3>4. (\A t \in Threads : pc[t] # Idle => t \in holds)'
      BY <1>0, <1>2
    <3> QED BY <1>2, <2>1, <3>1, <3>3, <3>4, Zenon DEF AskInv
  <2>3. ~OneDestroys(batch)
    BY <1>0 DEF OneDestroys
  <2>4. NoneDestroys => NoneDestroys'
    BY <1>2, <2>1 DEF NoneDestroys
  <2>5. /\ state_ = "kConnecting" => NoneDestroys
        /\ state_ \in Up => NoneDestroys
        /\ state_ = "kDisconnected" => NoneDestroys \/ OneDestroys(pending)
    BY <1>0, <2>3, Zenon DEF StageInv, UpInv, DownInv
  <2>6. (~(batch \in Seq(Stay)) => held)'
    <3>1. SUFFICES ASSUME ~(pending \in Seq(Stay)) PROVE held'
      BY <2>1
    <3>2. OneDestroys(pending)
      BY <1>0, <2>5, <3>1 DEF NoneDestroys, StageInv
    <3> QED BY <1>0, <2>1, <3>2, OneGoes, Zenon
  <2>7. (state_ = "kDisconnected" => DownInv)'
    <3>1. SUFFICES ASSUME state_ = "kDisconnected" PROVE DownInv'
      BY <1>0
    <3>2. DownInv
      BY <1>0, <3>1 DEF StageInv
    <3> QED BY <1>0, <1>2, <2>1, <2>3, <2>4, <3>2, Zenon DEF DownInv
  <2>8. (state_ \in Up => UpInv)'
    <3>1. SUFFICES ASSUME state_ \in Up PROVE UpInv'
      BY <1>0
    <3>2. UpInv
      BY <1>0, <3>1 DEF StageInv
    <3> QED BY <1>0, <2>4, <3>2 DEF UpInv
  <2>9. StageInv'
    BY <1>0, <1>2, <2>4, <2>6, <2>7, <2>8, Zenon DEF StageInv
  <2> QED BY <1>1, <2>2, <2>9 DEF LifeInv
<1> QED BY <1>3, <1>4

\* startReadInLoop() and stopReadInLoop() of a connection that is up.
LEMMA ReadTable ==
  ASSUME AllInv, state_ \in Up, state_' = state_, startReadInLoop \/ stopReadInLoop
  PROVE  TableInv' /\ (startReadInLoop /\ reading_ => reading_')
<1>0. StreamInv /\ TableInv /\ channel_.events_ \in SUBSET (kReadEvent \cup kWriteEvent)
  BY Zenon DEF AllInv, LifeInv, StreamInv, Typed, ChannelType
<1>1. startReadInLoop /\ reading_ => reading_'
  BY Zenon DEF startReadInLoop
<1>2. reading_ <=> isReading(channel_)
  BY Zenon DEF AllInv, Careful, EventsInv, Agrees, Up
<1>3. CASE channel_' = channel_
  BY <1>0, <1>1, <1>3, TableKept, Zenon
<1>4. CASE channel_' = enableReading(channel_)
  <2>1. channel_.events_ \cup kReadEvent \in SUBSET (kReadEvent \cup kWriteEvent) /\ channel_.events_ \cup kReadEvent # {}
    BY <1>0 DEF kReadEvent
  <2> QED BY <1>0, <1>1, <1>4, <2>1, UpdateTable, Zenon DEF enableReading
<1>5. CASE channel_' = disableReading(channel_) /\ isReading(channel_)
  <2>1. channel_.events_ \ kReadEvent \in SUBSET (kReadEvent \cup kWriteEvent) /\ channel_.events_ # {}
    BY <1>0, <1>5 DEF isReading, kReadEvent
  <2>2. channel_.index_ = kAdded
    BY <1>0, <2>1 DEF TableInv
  <2> QED BY <1>0, <1>1, <1>5, <2>1, <2>2, UpdateTable, Zenon DEF disableReading
<1> QED BY <1>2, <1>3, <1>4, <1>5, Zenon DEF startReadInLoop, stopReadInLoop

LEMMA RunRawLife ==
  ASSUME AllInv, RunRaw
  PROVE  LifeInv'
<1>0. /\ StreamInv /\ EventsInv /\ AskInv /\ TableInv /\ StageInv
      /\ NextFunctor(RawFns) /\ batch # <<>> /\ Head(batch).fn \in RawFns /\ todo = <<>>
  BY DEF AllInv, LifeInv, RunRaw, NextFunctor
<1>1. Strong
  <2>1. Head(batch).fn \notin SharedFns
    BY <1>0 DEF RawFns, SharedFns
  <2>2. ~(batch \in Seq(Shared))
    BY <1>0, <2>1, SeqOf DEF Shared
  <2>3. holds # {}
    BY <1>0, <2>2 DEF AskInv
  <2> QED BY <2>3 DEF Strong
<1>2. /\ UNCHANGED <<use, state_, holds, pc, held, timer, phase, todo, inMap, server, baseQueue, failed>>
      /\ batch' = Tail(batch)
      /\ \/ sendInLoop(Head(batch).data, pending) /\ UNCHANGED reading_
         \/ UNCHANGED <<reading_, channel_, pending>>
         \/ Head(batch).fn = "startReadInLoop" /\ startReadInLoop /\ UNCHANGED pending
         \/ Head(batch).fn = "stopReadInLoop" /\ stopReadInLoop /\ UNCHANGED pending
  BY <1>0, <1>1, Zenon DEF RunRaw, RawFns, userVars, serverVars
<1>3. Head(batch) \in Asked(use) /\ Head(batch) \in Stay
  <2>1. Head(batch) \in Asked(use)
    BY <1>0, SeqOf, Zenon DEF AskInv
  <2> QED BY <1>0, <2>1 DEF Asked, Stay, RawFns
<1>4. state_ # "kConnecting"
  BY <1>0, NotWhileStarting DEF RawFns
<1>5. ASSUME Head(batch).fn \in {"startReadInLoop", "stopReadInLoop"} PROVE state_ \in Up
  <2>1. {"startRead", "stopRead"} \cap (use.loop \cup use.threads) # {}
    BY <1>3, <1>5 DEF Asked
  <2> QED BY <1>0, <1>4, <2>1, CarefulSays, Zenon DEF StageInv
<1>6. /\ TableInv' /\ (state_ = "kDisconnected" => channel_' = channel_)
      /\ pending' \in {pending, Append(pending, Functor("callback"))}
      /\ reading_ => reading_' \/ "stopRead" \in use.threads
  <2>1. CASE sendInLoop(Head(batch).data, pending) /\ UNCHANGED reading_
    BY <1>0, <1>2, <1>4, <2>1, SendTable, Zenon
  <2>2. CASE UNCHANGED <<reading_, channel_, pending>>
    BY <1>0, <1>2, <2>2, TableKept, Zenon
  <2>3. CASE Head(batch).fn = "startReadInLoop" /\ startReadInLoop /\ UNCHANGED pending
    BY <1>2, <1>5, <2>3, ReadTable, Zenon DEF Up
  <2>4. CASE Head(batch).fn = "stopReadInLoop" /\ stopReadInLoop /\ UNCHANGED pending
    BY <1>2, <1>3, <1>5, <2>4, ReadTable, Zenon DEF Up, Asked
  <2> QED BY <1>2, <2>1, <2>2, <2>3, <2>4, Zenon
<1>7. /\ Functor("callback") \in Asked(use) \cap Later /\ Functor("callback") \in Shared /\ Functor("callback") \in Stay
      /\ \A t \in Threads : pc'[t] # Idle => t \in holds
  BY <1>0, <1>2, FunctorsAre, Zenon DEF AskInv
<1>8. AskInv'
  BY <1>0, <1>2, <1>4, <1>6, <1>7, AskKept, Zenon
<1>9. StageInv'
  <2>1. ~Event(todo)
    BY <1>0, ShapesBegin
  <2> QED BY <1>0, <1>2, <1>3, <1>6, <1>7, <2>1, StageStays, Zenon
<1> QED BY <1>6, <1>8, <1>9 DEF LifeInv

LEMMA RunStepsLife ==
  ASSUME AllInv, RunSteps
  PROVE  LifeInv'
<1>0. /\ StreamInv /\ EventsInv /\ AskInv /\ TableInv /\ StageInv
      /\ batch # <<>> /\ batch' = Tail(batch) /\ todo = <<>> /\ todo' = <<Head(batch).fn>> /\ phase = "functors"
      /\ Head(batch).fn \in {"connectEstablished", "connectDestroyed", "callback"}
      /\ UNCHANGED <<use, state_, channel_, reading_, holds, pc, pending, held, timer, phase>>
      /\ UNCHANGED <<inMap, server, baseQueue, failed>>
      /\ batch \in Seq(FunctorType) /\ Head(batch) \in FunctorType
  BY SeqOf, Zenon DEF AllInv, LifeInv, StreamInv, Typed, RunSteps, NextFunctor, SharedFns, connVars, userVars,
     serverVars, lifeVars
<1>1. TableInv'
  BY <1>0, TableKept
<1>2. ~Event(todo) /\ ~Closes(todo) /\ ~Destroys(todo) /\ ~Starts(todo) /\ ~Begins(todo, "connectEstablished")
  BY <1>0, ShapesBegin DEF Begins
<1>3. state_ = "kConnecting" <=> Head(batch).fn = "connectEstablished"
  <2>1. ASSUME state_ = "kConnecting" PROVE Head(batch).fn = "connectEstablished"
    BY <1>0, <2>1 DEF EventsInv, StartInv, Starting
  <2>2. ASSUME state_ # "kConnecting" PROVE Head(batch).fn # "connectEstablished"
    <3>1. Head(batch) \in Later
      BY <1>0, <2>2, SeqOf, Zenon DEF AskInv
    <3> QED BY <3>1 DEF Later
  <2> QED BY <2>1, <2>2
<1>4. \A t \in Threads : pc'[t] # Idle => t \in holds
  BY <1>0, Zenon DEF AskInv
<1>5. CASE Head(batch).fn = "connectEstablished"
  <2>0. todo' = <<"connectEstablished">> /\ state_ = "kConnecting" /\ Begins(todo', "connectEstablished")
    BY <1>0, <1>3, <1>5 DEF Begins
  <2>1. Starts(todo') /\ ~Quiet(todo') /\ ~Event(todo') /\ ~Closes(todo') /\ ~Destroys(todo')
    BY <2>0, Single, ShapesApart
  <2>2. pending \in Seq(Later) /\ batch' \in Seq(Later) /\ batch' \in Seq(Asked(use))
    BY <1>0, <1>2, <2>0, SeqOf, Zenon DEF AskInv
  <2>3. AskInv'
    <3>1. holds \cap Threads = {} => pending \in Seq(Shared) /\ batch' \in Seq(Shared)
      BY <1>0, SeqOf, Zenon DEF AskInv
    <3>2. /\ (pending \in Seq(Asked(use)) /\ batch \in Seq(Asked(use)))'
          /\ (timer => Forced(use))'
          /\ (reading_ \/ {"stopRead", "pauseRead"} \cap use.loop # {} \/ "stopRead" \in use.threads)'
          /\ (phase # "functors" => batch = <<>>)'
      BY <1>0, <2>2 DEF AskInv
    <3> QED BY <1>0, <1>4, <2>0, <2>2, <3>1, <3>2, Zenon DEF AskInv
  <2>4. NoneDestroys'
    BY <1>0, <2>0, SeqOf, Zenon DEF StageInv, NoneDestroys
  <2>5. StageInv'
    BY <1>0, <2>0, <2>1, <2>4 DEF StageInv, Shaped, Up, NoneDestroys
  <2> QED BY <1>1, <2>3, <2>5 DEF LifeInv
<1>6. ASSUME Head(batch).fn # "connectEstablished" PROVE AskInv'
  BY <1>0, <1>3, <1>4, <1>6, AskKept, Zenon
<1>7. CASE Head(batch).fn = "callback"
  <2>1. Quiet(todo') /\ ~Event(todo') /\ ~Closes(todo') /\ ~Destroys(todo') /\ ~Starts(todo')
    BY <1>0, <1>7, Single, ShapesApart
  <2>2. Head(batch) \in Stay /\ ~Begins(todo, "connectDestroyed")
    BY <1>0, <1>7, Zenon DEF Stay, Begins
  <2>3. StageInv'
    BY <1>0, <1>2, <2>1, <2>2, StageKept DEF Shaped
  <2> QED BY <1>1, <1>6, <1>7, <2>3 DEF LifeInv
<1>8. CASE Head(batch).fn = "connectDestroyed"
  <2>0. todo' = <<"connectDestroyed">>
    BY <1>0, <1>8
  <2>1. Destroys(todo') /\ ~Quiet(todo') /\ ~Event(todo') /\ ~Closes(todo') /\ ~Starts(todo')
    BY <2>0, Single, ShapesApart
  <2>2. ~(batch \in Seq(Stay))
    BY <1>0, <1>8, SeqOf DEF Stay
  <2>3. held /\ state_ = "kDisconnected" /\ DownInv
    BY <1>0, <2>2 DEF StageInv, UpInv, NoneDestroys
  <2>4. ~inMap /\ baseQueue = 0 /\ OneDestroys(batch) /\ pending \in Seq(Stay) /\ channel_.index_ = kDeleted
    BY <2>2, <2>3 DEF DownInv, NoneDestroys
  <2>5. NoneDestroys'
    BY <1>0, <1>8, <2>4, OneGoes DEF NoneDestroys
  <2>6. DownInv'
    BY <1>0, <2>1, <2>4, <2>5, Zenon DEF DownInv, kNew, kDeleted
  <2>7. StageInv'
    BY <1>0, <2>1, <2>3, <2>5, <2>6 DEF StageInv, Shaped, Up, NoneDestroys
  <2> QED BY <1>1, <1>6, <1>8, <2>7 DEF LifeInv
<1> QED BY <1>0, <1>5, <1>7, <1>8

LEMMA LoopCallsLife ==
  ASSUME AllInv, LoopSend \/ LoopShutdown \/ LoopForceClose \/ LoopForceCloseWithDelay \/ TimerFires
  PROVE  LifeInv'
<1>0. /\ StreamInv /\ EventsInv /\ AskInv /\ TableInv /\ StageInv
      /\ UNCHANGED <<use, reading_, holds, pc, batch, held, phase, todo, inMap, server, baseQueue, failed>>
  BY Zenon DEF AllInv, LifeInv, LoopSend, LoopShutdown, LoopForceClose, LoopForceCloseWithDelay, TimerFires,
         loopVars, userVars, serverVars, lifeVars
<1> DEFINE cb == Functor("callback")
           fc == Functor("forceCloseInLoop")
<1>1. /\ cb \in Asked(use) \cap Later /\ cb \in Shared /\ cb \in Stay
      /\ fc \in Later /\ fc \in Shared /\ fc \in Stay /\ (Forced(use) => fc \in Asked(use))
      /\ \A t \in Threads : pc'[t] # Idle => t \in holds
  BY <1>0, FunctorsAre, Zenon DEF AskInv
<1> HIDE DEF cb, fc
<1>2. CASE LoopSend
  <2>1. /\ state_ = "kConnected" /\ state_' = state_ /\ timer' = timer
        /\ sendInLoop(Message(LoopUser), pending)
    BY <1>2 DEF LoopSend
  <2>2. /\ TableInv' /\ (channel_.index_ = kAdded => channel_'.index_ = kAdded)
        /\ pending' \in {pending, Append(pending, cb)}
    BY <1>0, <2>1, SendTable DEF cb
  <2>3. AskInv'
    BY <1>0, <1>1, <2>1, <2>2, AskKept, Zenon
  <2>4. StageInv'
    BY <1>0, <1>1, <2>1, <2>2, StageStays
  <2> QED BY <2>2, <2>3, <2>4 DEF LifeInv
<1>3. CASE ~LoopSend
  <2>1. /\ channel_' = channel_
        /\ \/ pending' = pending
           \/ Forced(use) /\ pending' = Append(pending, fc)
        /\ timer' => timer \/ Forced(use)
        /\ \/ state_' = state_
           \/ state_ \in Up /\ state_' \in Up /\ (use.loop \cup use.threads) \cap Closing # {}
    <3>1. CASE LoopShutdown
      BY <3>1, Zenon DEF LoopShutdown, UserCode, Up, Closing, loopVars, lifeVars
    <3>2. CASE LoopForceClose
      BY <3>2, Zenon DEF LoopForceClose, forceClose, UserCode, Forced, Up, Closing, lifeVars, fc
    <3>3. CASE LoopForceCloseWithDelay
      BY <3>3, Zenon DEF LoopForceCloseWithDelay, UserCode, Forced, Up, Closing, loopVars
    <3>4. CASE TimerFires
      <4>1. Forced(use)
        BY <1>0, <3>4, Zenon DEF TimerFires, AskInv
      <4>2. (use.loop \cup use.threads) \cap Closing # {}
        BY <4>1 DEF Forced, Closing
      <4> QED BY <3>4, <4>1, <4>2, Zenon DEF TimerFires, forceClose, Up, fc
    <3> QED BY <1>3, <3>1, <3>2, <3>3, <3>4, Zenon
  <2>2. (use.loop \cup use.threads) \cap Closing # {} => use.serverDies = "never"
    BY CarefulSays, Zenon
  <2>3. TableInv'
    BY <1>0, <2>1, TableKept, Zenon
  <2>4. StageInv'
    BY <1>0, <1>1, <2>1, <2>2, StageStays, Zenon
  <2>5. CASE state_ # "kConnecting"
    <3>1. state_' # "kConnecting"
      BY <2>1, <2>5 DEF Up
    <3>2. AskInv'
      BY <1>0, <1>1, <2>1, <2>5, <3>1, AskKept, Zenon
    <3> QED BY <2>3, <2>4, <3>2 DEF LifeInv
  <2>6. CASE state_ = "kConnecting"
    <3>1. TimerFires
      BY <1>0, <1>3, <2>6, NotWhileStarting, Zenon DEF LoopShutdown, LoopForceClose, LoopForceCloseWithDelay
    <3>2. timer' = FALSE /\ state_' = state_ /\ pending' = pending
      BY <2>6, <3>1 DEF TimerFires
    <3>3. phase' # "functors" => batch = <<>>
      BY <1>0, Zenon DEF AskInv
    <3>4. AskInv'
      BY <1>0, <1>1, <3>2, <3>3, AskSame
    <3> QED BY <2>3, <2>4, <3>4 DEF LifeInv
  <2> QED BY <2>5, <2>6
<1> QED BY <1>2, <1>3

LEMMA LoopReadLife ==
  ASSUME AllInv, LoopRead
  PROVE  LifeInv'
<1>0. /\ StreamInv /\ EventsInv /\ AskInv /\ TableInv /\ StageInv
      /\ UNCHANGED <<use, state_, holds, pc, pending, batch, held, timer, phase, todo, inMap, server,
                     baseQueue, failed>>
      /\ \/ UserCode("startRead") /\ startReadInLoop
         \/ UserCode("stopRead") /\ stopReadInLoop
         \/ UserCode("pauseRead") /\ phase = "functors" /\ state_ = "kConnected" /\ stopReadInLoop
  BY DEF AllInv, LifeInv, LoopRead, loopVars, userVars, serverVars, lifeVars
<1>1. state_ # "kConnecting"
  BY <1>0, NotWhileStarting
<1>2. state_ \in Up /\ (NeverCloses(use) \/ phase = "functors")
  <2>1. CASE UserCode("startRead") \/ UserCode("stopRead")
    <3>1. {"startRead", "stopRead"} \cap (use.loop \cup use.threads) # {}
      BY <2>1 DEF UserCode
    <3> QED BY <1>0, <1>1, <3>1, CarefulSays, Zenon DEF StageInv
  <2>2. CASE phase = "functors" /\ state_ = "kConnected"
    BY <2>2 DEF Up
  <2> QED BY <1>0, <2>1, <2>2
<1>3. TableInv' /\ (startReadInLoop /\ reading_ => reading_')
  BY <1>0, <1>2, ReadTable
<1>4. reading_ => reading_' \/ {"stopRead", "pauseRead"} \cap use.loop # {}
  BY <1>0, <1>3, Zenon DEF UserCode
<1>5. AskInv'
  <2>1. \A t \in Threads : pc'[t] # Idle => t \in holds
    BY <1>0, Zenon DEF AskInv
  <2> QED BY <1>0, <1>1, <1>4, <2>1, AskKept
<1>6. StageInv'
  <2>1. Event(todo) => NeverCloses(use)
    BY <1>0, <1>2 DEF StageInv
  <2>2. state_ # "kDisconnected"
    BY <1>2 DEF Up
  <2> QED BY <1>0, <2>1, <2>2, StageStays
<1> QED BY <1>3, <1>5, <1>6 DEF LifeInv

LEMMA ThreadLife ==
  ASSUME AllInv, ThreadCalls
  PROVE  LifeInv'
<1>0. StreamInv /\ EventsInv /\ AskInv /\ TableInv /\ StageInv
  BY DEF AllInv, LifeInv
<1>1. PICK t \in Threads : SetDisconnecting(t) \/ QueueFunctor(t) \/ \E op \in use.threads : Call(t, op)
  BY Zenon DEF ThreadCalls
<1>2. /\ UNCHANGED <<use, channel_, reading_, holds, batch, held, timer, phase, todo, inMap, server, baseQueue, failed>>
      /\ state_' = state_ \/ SetDisconnecting(t)
      /\ pending' = pending \/ QueueFunctor(t)
  BY <1>1, Zenon DEF SetDisconnecting, QueueFunctor, Call, connVars, loopVars, serverVars, lifeVars
<1>3. /\ pc \in [Threads -> [op : Ops \cup {"none"}, at : {"idle", "set", "queue"}]]
      /\ pc[t].op \in use.threads \cup {"none"}
      /\ pc[t].at = "set" => pc[t].op \in Closing
      /\ pc[t].at = "queue" => pc[t].op \in use.threads
  BY <1>0 DEF StreamInv, Typed
<1>4. t \in holds /\ state_ # "kConnecting"
  <2>1. pc[t].at \in {"set", "queue"} \/ t \in holds
    BY <1>1, Zenon DEF SetDisconnecting, QueueFunctor, Call
  <2>2. pc[t].at \in {"set", "queue"} => pc[t] # Idle
    BY DEF Idle
  <2>3. state_ # "kConnecting"
    BY <1>0, <2>1, NotWhileStarting, Zenon
  <2> QED BY <1>0, <2>1, <2>2, <2>3, Zenon DEF AskInv
<1>5. \A v \in Threads : pc'[v] # Idle => v \in holds
  <2>1. \A v \in Threads : v # t => pc'[v] = pc[v]
    BY <1>1, <1>3 DEF SetDisconnecting, QueueFunctor, Call
  <2> QED BY <1>0, <1>4, <2>1 DEF AskInv
<1>6. TableInv' /\ StageInv' /\ AskInv'
  <2>1. CASE SetDisconnecting(t)
    <3>1. pc[t].op \in Closing /\ pc[t].op \in use.threads /\ state_' = "kDisconnecting"
      BY <1>3, <2>1 DEF SetDisconnecting, Closing
    <3>2. NeverCloses(use)
      BY <3>1, CarefulSays, Zenon
    <3>3. state_ \in Up /\ state_' \in Up /\ use.serverDies = "never"
      BY <1>0, <1>4, <3>1, <3>2, CarefulSays, Zenon DEF StageInv, NeverCloses, Up
    <3>4. pending' = pending
      BY <2>1 DEF SetDisconnecting, loopVars
    <3>5. state_ # "kDisconnected" /\ state_' # "kConnecting"
      BY <3>3 DEF Up
    <3> QED BY <1>0, <1>2, <1>4, <1>5, <3>3, <3>4, <3>5, TableKept, StageStays, AskKept, Zenon
  <2>2. CASE QueueFunctor(t)
    <3>1. pending' = Append(pending, FunctorOf(t)) /\ pc[t].op \in use.threads
      BY <1>3, <2>2 DEF QueueFunctor
    <3>2. pc[t].op \in {"send", "shutdown", "forceClose", "startRead", "stopRead"}
      BY <3>1, CarefulSays, Zenon DEF Usage, Ops, Closing
    <3>3. FunctorOf(t) \in FunctorType
      <4>1. pending \in Seq(FunctorType) /\ pending' \in Seq(FunctorType)
        BY <1>0, <1>1, ThreadStream, Zenon DEF StreamInv, Typed
      <4> DEFINE p == Append(pending, FunctorOf(t))
      <4>2. Len(pending) + 1 \in 1..Len(p) /\ p[Len(pending) + 1] = FunctorOf(t)
        BY <4>1
      <4>3. p \in Seq(FunctorType)
        BY <3>1, <4>1
      <4> HIDE DEF p
      <4> QED BY <4>2, <4>3
    <3>4. FunctorOf(t) \in Asked(use) \cap Later /\ FunctorOf(t) \in Stay
      <4>1. /\ FunctorOf(t).fn \in {"sendInLoop", "shutdownInLoop", "forceCloseInLoop", "startReadInLoop", "stopReadInLoop"}
            /\ FunctorOf(t).fn = "forceCloseInLoop" => pc[t].op = "forceClose"
            /\ FunctorOf(t).fn = "startReadInLoop" => pc[t].op = "startRead"
            /\ FunctorOf(t).fn = "stopReadInLoop" => pc[t].op = "stopRead"
        BY <3>2, Zenon DEF FunctorOf, Functor
      <4>2. FunctorOf(t).fn = "forceCloseInLoop" => Forced(use)
        BY <3>1, <4>1 DEF Forced
      <4> QED BY <3>1, <3>3, <4>1, <4>2, Zenon DEF Asked, Later, Stay
    <3>5. holds \cap Threads # {} /\ state_' = state_
      BY <1>4, <2>2 DEF QueueFunctor, connVars
    <3> QED BY <1>0, <1>2, <1>4, <1>5, <3>1, <3>4, <3>5, TableKept, StageStays, AskKept, Zenon
  <2>3. CASE state_' = state_ /\ pending' = pending
    BY <1>0, <1>2, <1>4, <1>5, <2>3, TableKept, StageStays, AskKept, Zenon
  <2> QED BY <1>2, <2>1, <2>2, <2>3
<1> QED BY <1>6 DEF LifeInv

\* A thread lets go of the connection only when no functor of a raw this is left.
LEMMA DropRefLife ==
  ASSUME AllInv, NEW u \in Users, DropRef(u)
  PROVE  LifeInv'
<1>0. /\ StreamInv /\ AskInv /\ TableInv /\ StageInv /\ ~DropsEarly
      /\ UNCHANGED <<use, state_, channel_, reading_, pc, pending, batch, held, timer, phase, todo>>
      /\ UNCHANGED <<inMap, server, baseQueue, failed>>
      /\ holds' = holds \ {u}
      /\ pending \in Seq(FunctorType) /\ batch \in Seq(FunctorType)
  BY Zenon DEF AllInv, LifeInv, StreamInv, Typed, DropRef, connVars, loopVars, serverVars, lifeVars
<1>1. TableInv' /\ StageInv'
  BY <1>0, TableKept, StageStays
<1>2. \A t \in Threads : pc'[t] # Idle => t \in holds'
  <2>1. u \in Threads => pc[u] = Idle
    BY ConnectionAssumption DEF DropRef
  <2> QED BY <1>0, <2>1, Zenon DEF AskInv
<1>3. holds' \cap Threads = {} => pending \in Seq(Shared) /\ batch \in Seq(Shared)
  <2>1. CASE u \notin Threads
    BY <1>0, <2>1, Zenon DEF AskInv
  <2>2. CASE u \in Threads
    <3>1. \A i \in DOMAIN (pending \o batch) : (pending \o batch)[i].fn \notin RawFns
      BY <1>0, <2>2, ConnectionAssumption, Zenon DEF DropRef
    <3>2. ASSUME NEW i \in 1..Len(pending) PROVE pending[i] \in Shared
      <4>1. i \in DOMAIN (pending \o batch) /\ (pending \o batch)[i] = pending[i] /\ pending[i] \in FunctorType
        BY <1>0, JoinedQueues, Zenon
      <4>2. pending[i].fn \notin RawFns
        BY <3>1, <4>1, Zenon
      <4> QED BY <4>1, <4>2, Zenon DEF Shared, FunctorType
    <3>3. ASSUME NEW i \in 1..Len(batch) PROVE batch[i] \in Shared
      <4>1. /\ Len(pending) + i \in DOMAIN (pending \o batch) /\ (pending \o batch)[Len(pending) + i] = batch[i]
            /\ batch[i] \in FunctorType
        BY <1>0, JoinedQueues, Zenon
      <4>2. batch[i].fn \notin RawFns
        BY <3>1, <4>1
      <4> QED BY <4>1, <4>2 DEF Shared, FunctorType
    <3> QED BY <1>0, <3>2, <3>3, SeqInto, Zenon
  <2> QED BY <2>1, <2>2
<1>4. AskInv'
  <2>1. /\ (pending \in Seq(Asked(use)) /\ batch \in Seq(Asked(use)))'
        /\ (timer => Forced(use))'
        /\ (reading_ \/ {"stopRead", "pauseRead"} \cap use.loop # {} \/ "stopRead" \in use.threads)'
        /\ (state_ # "kConnecting" => pending \in Seq(Later) /\ batch \in Seq(Later))'
        /\ (phase # "functors" => batch = <<>>)'
    BY <1>0, Zenon DEF AskInv
  <2>2. (state_ = "kConnecting" =>
           IF Begins(todo, "connectEstablished")
           THEN pending \in Seq(Later) /\ batch \in Seq(Later)
           ELSE IF phase = "functors"
                THEN pending \in Seq(Later) /\ batch # <<>> /\ Tail(batch) \in Seq(Later)
                ELSE pending # <<>> /\ Tail(pending) \in Seq(Later))'
    BY <1>0, Zenon DEF AskInv, Begins
  <2> QED BY <1>0, <1>2, <1>3, <2>1, <2>2, Zenon DEF AskInv
<1> QED BY <1>1, <1>4 DEF LifeInv

\* The last TcpConnectionPtr goes only when the connection is down and its Channel
\* removed, and never under the Channel's own handleEvent().
LEMMA DestructLife ==
  ASSUME AllInv, Destruct
  PROVE  LifeInv'
<1>0. StreamInv /\ EventsInv /\ StageInv /\ Shaped(todo) /\ todo \in Seq(Steps) /\ ~Strong
      /\ pending \in Seq(FunctorType)
  BY DEF AllInv, LifeInv, StageInv, EventsInv, StreamInv, Typed, Destruct
<1>1. /\ ~inMap /\ ~(baseQueue > 0) /\ ~held /\ ~Contains(todo, "release")
      /\ ~\E i \in DOMAIN pending : pending[i].fn \in SharedFns
  BY <1>0 DEF Strong
<1>2. ~Begins(todo, "connectDestroyed") /\ ~Destroys(todo)
  <2>1. ~Destroys(todo)
    BY <1>0, <1>1 DEF StageInv
  <2> QED BY <1>0, <2>1, HeadSays DEF Begins
<1>3. state_ = "kDisconnected" /\ DownInv
  BY <1>0, <1>1, <1>2 DEF StageInv, UpInv
<1>4. ~OneDestroys(pending)
  BY <1>0, <1>1, OneGoes
<1>5. ~OneDestroys(batch)
  <2>1. batch \in Seq(Stay) /\ batch \in Seq(FunctorType)
    BY <1>0, <1>1, Zenon DEF StageInv, StreamInv, Typed
  <2> QED BY <2>1, OneGoes
<1>7. ~channel_.addedToLoop_
  BY <1>1, <1>2, <1>3, <1>4, <1>5 DEF DownInv
<1>8. ~Contains(todo, "endEvent")
  BY <1>0, <1>1, GuardIsInScope
<1>9. UNCHANGED <<use, connVars, loopVars, pc, holds, server, inMap, baseQueue, timer, failed>>
  BY <1>3, <1>7, <1>8 DEF Destruct, userVars, serverVars
<1> QED BY <1>9, LifeStillInv

LEMMA LifeInitially ==
  ASSUME Init, Careful(use)
  PROVE  LifeInv
<1>0. use \in Usage /\ use.sameLoop \in BOOLEAN /\ use.serverDies \in {"never", "outside", "anywhere"}
  BY ConnectionAssumption DEF Init, Usage
<1>1. /\ state_ = "kConnecting" /\ reading_ /\ channel_ = NewChannel /\ timer = FALSE /\ batch = <<>>
      /\ \A t \in Threads : pc[t] = Idle
      /\ inMap /\ server /\ baseQueue = 0 /\ failed = "none"
      /\ \/ use.sameLoop /\ todo = <<"connectEstablished", "release">> /\ pending = <<>>
         \/ phase = "poll" /\ todo = <<>> /\ pending = <<Functor("connectEstablished")>>
  BY <1>0 DEF Init
<1>2. /\ Functor("connectEstablished") \in Asked(use)
      /\ Functor("connectEstablished") \in Shared /\ Functor("connectEstablished") \in Stay
  BY EmptyData DEF Asked, Shared, Stay, Functor, SharedFns
<1> DEFINE f == Functor("connectEstablished")
<1> HIDE DEF f
<1>3. \A S : <<>> \in Seq(S) /\ (f \in S => <<f>> \in Seq(S))
  OBVIOUS
<1>4. <<f>> # <<>> /\ Tail(<<f>>) = <<>>
  OBVIOUS
<1>5. AskInv
  <2>1. /\ pending \in Seq(Asked(use)) /\ batch \in Seq(Asked(use))
        /\ pending \in Seq(Shared) /\ batch \in Seq(Shared)
    BY <1>1, <1>2, <1>3, Zenon DEF f
  <2>2. IF Begins(todo, "connectEstablished")
        THEN pending \in Seq(Later) /\ batch \in Seq(Later)
        ELSE IF phase = "functors"
             THEN pending \in Seq(Later) /\ batch # <<>> /\ Tail(batch) \in Seq(Later)
             ELSE pending # <<>> /\ Tail(pending) \in Seq(Later)
    <3>1. CASE todo = <<"connectEstablished", "release">> /\ pending = <<>>
      <4>1. Begins(todo, "connectEstablished")
        BY <3>1 DEF Begins
      <4> QED BY <1>1, <1>3, <3>1, <4>1
    <3>2. CASE phase = "poll" /\ todo = <<>> /\ pending = <<f>>
      <4>1. ~Begins(todo, "connectEstablished")
        BY <3>2 DEF Begins
      <4> QED BY <1>3, <1>4, <3>2, <4>1
    <3> QED BY <1>1, <3>1, <3>2 DEF f
  <2> QED BY <1>1, <2>1, <2>2, Zenon DEF AskInv
<1>6. TableInv
  BY <1>1 DEF TableInv, NewChannel, kNew, kAdded, Up
<1>7. NoneDestroys
  BY <1>1, <1>2, <1>3, Zenon DEF NoneDestroys, f
<1>8. /\ Shaped(todo) /\ ~Event(todo) /\ ~Destroys(todo) /\ ~Closes(todo)
  BY <1>1, Single, ShapesApart DEF Shaped
<1>9. StageInv
  BY <1>1, <1>3, <1>7, <1>8 DEF StageInv, NoneDestroys, Up
<1> QED BY <1>5, <1>6, <1>9 DEF LifeInv

LEMMA LifeInductive ==
  ASSUME \A u \in Usages : Careful(u), DropsEarly = FALSE
  PROVE  AllInv /\ [Next]_vars => AllInv'
<1> SUFFICES ASSUME AllInv, [Next]_vars PROVE AllInv'
  OBVIOUS
<1>1. StreamInv' /\ EventsInv'
  BY StreamInductive, EventsInductive DEF AllInv
<1>2. LifeInv'
  <2>1. CASE UNCHANGED vars
    <3>1. UNCHANGED <<use, connVars, loopVars, pc, holds, server, inMap, baseQueue, timer, failed>>
      BY <2>1 DEF vars, userVars, serverVars, lifeVars
    <3> QED BY <3>1, LifeStillInv
  <2>2. CASE LoopThread
    BY <2>2, PollLife, PlainLife, HandleHupLife, HandleWriteLife, CloseCallbackLife, ConnectEstablishedLife,
       ConnectDestroyedLife, RemoveChannelLife, SwapLife, RunRawLife, RunForceCloseLife, RunStepsLife
       DEF LoopThread, Handlers, Functors
  <2>3. CASE LoopCalls \/ TimerFires \/ ThreadCalls
    BY <2>3, LoopCallsLife, LoopReadLife, ThreadLife DEF LoopCalls
  <2>4. CASE (\E u \in Users : DropRef(u)) \/ Destruct \/ BaseRemove \/ ServerDtor \/ Peer
    BY <2>4, DropRefLife, DestructLife, BaseRemoveLife, ServerDtorLife, PeerLife
  <2> QED BY <2>1, <2>2, <2>3, <2>4 DEF Next
<1>3. Careful(use)' /\ ~DropsEarly
  <2>1. use' \in Usages
    BY <1>1 DEF StreamInv, Typed
  <2>2. \A u \in Usages : Careful(u)
    OBVIOUS
  <2> QED BY <2>1, <2>2
<1> QED BY <1>1, <1>2, <1>3 DEF AllInv

\* Where every usage is careful, and no thread lets go of the connection before the
\* functor that it queued has run, no assert() of TcpConnection, TcpServer or Channel
\* fails, and nothing runs on a connection or a server that is gone: whatever the
\* order in which the peer, the threads and the timer act, and whenever the server
\* is destructed in its loop's thread, between two steps of the loop or in the
\* message or write callback of a functor, but not while the loop handles an event
\* (event_loop.cc:233 fails there: RemovedUnlisted).
THEOREM NothingIsAsserted ==
  ASSUME \A u \in Usages : Careful(u), DropsEarly = FALSE
  PROVE  Spec => []NoAssertFails
<1>1. Init => AllInv
  BY StreamInitially, EventsInitially, LifeInitially, Zenon DEF Init, AllInv
<1>2. AllInv => NoAssertFails
  BY DEF AllInv, LifeInv, StageInv, NoAssertFails
<1> QED BY <1>1, <1>2, LifeInductive, PTL DEF Spec
==============================================================================
