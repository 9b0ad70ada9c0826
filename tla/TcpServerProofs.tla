--------------------------- MODULE TcpServerProofs ---------------------------
(***************************************************************************)
(* Proofs about TcpServer, for any number of io loops, peers and           *)
(* descriptors: every functor finds its connection in the right state and  *)
(* no connection is forgotten, as long as the server lives or has no io    *)
(* threads; the idle descriptor comes back; and a destructed server leaves *)
(* nothing in the loops of its threads.                                    *)
(***************************************************************************)
EXTENDS ServerAcceptProofs

\* The time that the provers may take for a step.
USE SMTT(20), ZenonT(20)

(***************************************************************************)
(* The steps that close connections, those of the loops and the            *)
(* destructor's.                                                           *)
(***************************************************************************)

LEMMA HandleCloseInv ==
  ASSUME ServerInv, NEW d \in Conns, HandleClose(d)
  PROVE  ServerInv'
<1>1. /\ conn[d] = "up" /\ phase[ioLoop[d]] # "exited" /\ conn' = [conn EXCEPT ![d] = "down"]
      /\ UNCHANGED <<started_, listenning_, acceptor, idleFd_, others, opened, backlog, arrived, numThreads_,
                     ioLoop, nextConnId_, next_, batch, held, phase, quit_, dtor, current>>
  BY Zenon DEF HandleClose, acceptVars
<1>2. TypeOK /\ BatchInv /\ RouteInv /\ AcceptInv /\ DtorInv /\ OrderInv /\ IdleInv
  BY DEF ServerInv
<1>3. Loops' = Loops /\ Base \in Loops /\ ioLoop[d] \in Loops
  BY <1>1, <1>2, QueueTypes, Zenon DEF Loops, TypeOK
<1>4. /\ conn'[d] = "down" /\ \A c \in Conns \ {d} : conn'[c] = conn[c]
      /\ conn' \in [Conns -> {"none", "made", "up", "down", "gone"}]
  BY <1>1, <1>2 DEF TypeOK
<1>5. BatchInv'
  BY <1>1, <1>2, <1>3, Zenon DEF BatchInv
<1>6. \A c \in Conns : conn'[c] = "none" <=> conn[c] = "none"
  BY <1>1, <1>4, Zenon
<1>7. Orderly => Life(d) /\ d \in connections_ /\ dtor # "gone"
  BY <1>1, <1>2, Zenon DEF OrderInv, Life, DtorInv
<1>8. CASE UNCHANGED <<connections_, pending>> /\ failed' = RemoveFails(d) /\ RemoveFails(d) # "none"
  <2>1. ~Orderly'
    BY <1>1, <1>7, <1>8 DEF RemoveFails, Orderly
  <2>2. \A m \in Loops : Todo(m)' = Todo(m)
    BY <1>1, <1>8, Zenon DEF Todo
  <2>3. TypeOK'
    <3>1. failed' \in {"server", "erase"}
      BY <1>8 DEF RemoveFails
    <3> QED
      BY <1>1, <1>2, <1>3, <1>4, <1>8, <3>1 DEF TypeOK
  <2>4. RouteInv'
    BY <1>1, <1>2, <1>3, <2>2 DEF RouteInv, Due
  <2>5. AcceptInv'
    BY <1>1, <1>2, <1>6, <1>8, Zenon DEF AcceptInv
  <2>6. DtorInv'
    BY <1>1, <1>2, <1>3, <1>8, Zenon DEF DtorInv
  <2>7. OrderInv'
    BY <2>1 DEF OrderInv
  <2>8. IdleInv'
    <3>1. \A c \in Conns : Referenced(c)' <=> Referenced(c)
      BY <1>1, <1>3, <1>8, Zenon DEF Referenced
    <3> QED
      BY <1>1, <1>6, <3>1, NoMoreOpen, Zenon
  <2> QED
    BY <1>5, <2>3, <2>4, <2>5, <2>6, <2>7, <2>8 DEF ServerInv
<1>9. ASSUME NEW gn \in {"connectDestroyed", "remove"}, Queue(Base, Functor(gn, d)), UNCHANGED failed,
             gn = "connectDestroyed" =>
               ioLoop[d] = Base /\ d \in connections_ /\ connections_' = connections_ \ {d},
             gn = "remove" => ioLoop[d] # Base /\ connections_' = connections_
      PROVE  ServerInv'
  <2>1. gn \in Names /\ Functor(gn, d) \in Jobs
    BY <1>9, FunctorNames DEF Names
  <2>2. /\ \A m \in Loops : \A fn, c : Due(m, fn, c)' <=> Due(m, fn, c) \/ (m = Base /\ fn = gn /\ c = d)
        /\ \A m \in Loops : (Listen \in Todo(m))' <=> Listen \in Todo(m)
        /\ \A m \in Loops : QueuedOnce(m) /\ (m = Base => ~Due(m, gn, d)) => QueuedOnce(m)'
        /\ \A m \in Loops, c \in Conns :
             c \in ConnsOf(pending'[m]) <=> c \in ConnsOf(pending[m]) \/ (m = Base /\ c = d)
    BY <1>1, <1>2, <1>3, <1>9, <2>1, QueueDue, Zenon
  <2>3. pending' \in [Loops -> Seq(Jobs)] /\ \A m \in Loops : m # Base => pending'[m] = pending[m]
    BY <1>2, <1>3, <1>9, <2>1, QueueDoes, Zenon
  <2>4. connections_' \subseteq connections_ /\ \A c \in Conns \ {d} : c \in connections_' <=> c \in connections_
    BY <1>9
  <2>5. TypeOK'
    BY <1>1, <1>2, <1>3, <1>4, <1>9, <2>3, <2>4, Zenon DEF TypeOK, Jobs
  <2>6. RouteInv'
    <3>1. ~(d >= nextConnId_) /\ d < nextConnId_
      <4>1. d \in Nat /\ nextConnId_ \in Nat
        BY <1>2, ServerAssumption DEF TypeOK, Conns
      <4>2. ~(d >= nextConnId_)
        BY <1>1, <1>2 DEF AcceptInv
      <4> QED
        BY <4>1, <4>2
    <3> QED
      BY <1>1, <1>2, <1>3, <1>9, <2>2, <3>1 DEF RouteInv
  <2>7. AcceptInv'
    BY <1>1, <1>2, <1>6, <2>4 DEF AcceptInv
  <2>8. DtorInv'
    BY <1>1, <1>2, <1>3, <2>3, <2>4 DEF DtorInv
  <2>9. OrderInv'
    <3> SUFFICES ASSUME Orderly'
                 PROVE  /\ failed' \in {"none", "listen"}
                        /\ \A m \in Loops : QueuedOnce(m)'
                        /\ \A c \in Conns : Life(c)'
      BY <1>3 DEF OrderInv
    <3>1. Orderly
      BY <1>1 DEF Orderly
    <3>2. ~Due(ioLoop[d], "connectEstablished", d) /\ ~Due(ioLoop[d], "connectDestroyed", d) /\ ~Due(Base, "remove", d)
      BY <1>1, <1>7, <3>1 DEF Life
    <3>3. ~Due(Base, gn, d)
      BY <1>9, <3>2
    <3>4. Life(d)'
      <4>1. /\ ~Due(ioLoop[d], "connectEstablished", d)'
            /\ Due(ioLoop[d], "connectDestroyed", d)' <=> gn = "connectDestroyed"
            /\ Due(Base, "remove", d)' <=> gn = "remove"
        <5>1. \A fn : Due(ioLoop[d], fn, d)' <=> Due(ioLoop[d], fn, d) \/ (ioLoop[d] = Base /\ fn = gn)
          BY <1>1, <1>3, <2>2, Zenon DEF Due
        <5> QED
          BY <1>3, <1>9, <2>2, <3>2, <5>1
      <4> QED
        BY <1>4, <1>7, <1>9, <3>1, <4>1, Zenon DEF Life
    <3>5. ASSUME NEW c \in Conns \ {d}
          PROVE  Life(c)'
      <4>1. Life(c)
        BY <1>2, <3>1 DEF OrderInv
      <4>2. \A m \in Loops, fn \in Names : Due(m, fn, c)' <=> Due(m, fn, c)
        BY <2>2
      <4> QED
        BY <1>1, <1>2, <1>4, <2>4, <4>1, <4>2, LifeFrame, Zenon
    <3> QED
      BY <1>2, <1>9, <2>2, <3>1, <3>3, <3>4, <3>5, Zenon DEF OrderInv
  <2>10. IdleInv'
    <3> SUFFICES ASSUME dtor = "none"
                 PROVE  \A c \in Conns : Referenced(c)' => Referenced(c)
      BY <1>1, <1>6, NoMoreOpen, Zenon
    <3>1. Referenced(d)
      BY <1>7 DEF Orderly, Referenced
    <3> QED
      BY <1>1, <1>3, <2>2, <2>4, <3>1 DEF Referenced
  <2> QED
    BY <1>5, <2>5, <2>6, <2>7, <2>8, <2>9, <2>10 DEF ServerInv
<1>10. CASE ioLoop[d] = Base /\ RemoveFails(d) # "none"
  BY <1>8, <1>10 DEF HandleClose
<1>11. CASE ioLoop[d] = Base /\ RemoveFails(d) = "none"
  <2>1. Queue(Base, Functor("connectDestroyed", d)) /\ UNCHANGED failed /\ connections_' = connections_ \ {d}
    BY <1>11, Zenon DEF HandleClose, removeConnectionInLoop
  <2>2. d \in connections_
    BY <1>11 DEF RemoveFails
  <2> QED
    BY <1>9, <1>11, <2>1, <2>2
<1>12. CASE ioLoop[d] # Base
  <2>1. Queue(Base, Functor("remove", d)) /\ UNCHANGED failed /\ connections_' = connections_
    BY <1>12 DEF HandleClose
  <2> QED
    BY <1>9, <1>12, <2>1
<1> QED
  BY <1>10, <1>11, <1>12

\* A functor that is due for a connection is for one that was made.
LEMMA QueuedConns ==
  ASSUME ServerInv, NEW l \in Loops, NEW q \in Seq(Jobs), Elems(q) \subseteq Todo(l)
  PROVE  ConnsOf(q) \subseteq {c \in Conns : c < nextConnId_} /\ ConnsOf(q) \subseteq 1..nextConnId_ - 1
<1>1. RouteInv /\ nextConnId_ \in Nat /\ MaxConns \in Nat
  BY ServerAssumption DEF ServerInv, TypeOK
<1>2. ASSUME NEW c \in ConnsOf(q)
      PROVE  c \in Conns /\ c < nextConnId_
  <2>1. PICK i \in DOMAIN q : c = q[i].of /\ c # 0
    BY <1>2 DEF ConnsOf
  <2>2. q[i] \in Jobs /\ q[i] \in Elems(q)
    BY DEF Elems
  <2>3. q[i] # Listen
    BY <2>1, FunctorNames
  <2>4. q[i].fn \in Names /\ c \in Conns /\ q[i] = Functor(q[i].fn, c)
    BY <2>1, <2>2, <2>3, FunctorNames
  <2>5. Due(l, q[i].fn, c)
    BY <2>2, <2>4 DEF Due
  <2> QED
    BY <1>1, <2>4, <2>5, Zenon DEF RouteInv, Names
<1> QED
  BY <1>1, <1>2 DEF Conns

LEMMA SwapInv ==
  ASSUME ServerInv, NEW l \in Loops, Swap(l)
  PROVE  ServerInv'
<1>1. /\ phase[l] = "poll" /\ batch' = [batch EXCEPT ![l] = pending[l]]
      /\ held' = [held EXCEPT ![l] = ConnsOf(pending[l])] /\ pending' = [pending EXCEPT ![l] = <<>>]
      /\ phase' = [phase EXCEPT ![l] = "functors"]
      /\ UNCHANGED <<started_, listenning_, acceptor, idleFd_, others, opened, backlog, arrived, numThreads_, conn,
                     ioLoop, nextConnId_, next_, connections_, quit_, dtor, current, failed>>
  BY DEF Swap, acceptVars, connVars
<1>2. TypeOK /\ BatchInv /\ RouteInv /\ AcceptInv /\ DtorInv /\ OrderInv /\ IdleInv
  BY DEF ServerInv
<1>3. /\ pending \in [Loops -> Seq(Jobs)] /\ batch \in [Loops -> Seq(Jobs)] /\ held \in [Loops -> SUBSET Conns]
      /\ phase \in [Loops -> {"enter", "poll", "functors", "exited"}] /\ Loops' = Loops
  BY <1>1, <1>2 DEF TypeOK, Jobs, Loops
<1>4. batch[l] = <<>> /\ pending[l] \in Seq(Jobs)
  BY <1>1, <1>2, <1>3 DEF BatchInv
<1>5. /\ batch'[l] = pending[l] /\ pending'[l] = <<>> /\ held'[l] = ConnsOf(pending[l]) /\ phase'[l] = "functors"
      /\ \A m \in Loops : m # l =>
           /\ batch'[m] = batch[m] /\ pending'[m] = pending[m] /\ held'[m] = held[m] /\ phase'[m] = phase[m]
  BY <1>1, <1>3
<1>6. Elems(pending[l]) \subseteq Todo(l)
  BY DEF Todo
<1>7. ConnsOf(pending[l]) \subseteq Conns /\ ConnsOf(pending[l]) \subseteq 1..nextConnId_ - 1
  BY <1>4, <1>6, QueuedConns
<1>8. \A m \in Loops : Todo(m)' = Todo(m)
  <2>1. Todo(l)' = Todo(l)
    BY <1>4, <1>5, EmptyQueue DEF Todo
  <2> QED
    BY <1>5, <2>1, Zenon DEF Todo
<1>9. \A m \in Loops : QueuedOnce(m) => QueuedOnce(m)'
  <2>1. QueuedOnce(l) => QueuedOnce(l)'
    BY <1>5, EmptyQueue DEF QueuedOnce
  <2> QED
    BY <1>5, <2>1 DEF QueuedOnce
<1>10. TypeOK'
  <2>1. /\ pending' \in [Loops -> Seq(Jobs)] /\ batch' \in [Loops -> Seq(Jobs)] /\ held' \in [Loops -> SUBSET Conns]
        /\ phase' \in [Loops -> {"enter", "poll", "functors", "exited"}]
    BY <1>1, <1>3, <1>4, <1>7
  <2> QED
    BY <1>1, <1>2, <1>3, <2>1 DEF TypeOK, Jobs
<1>11. BatchInv'
  BY <1>1, <1>2, <1>3, <1>5, <1>7 DEF BatchInv
<1>12. RouteInv'
  BY <1>1, <1>2, <1>3, <1>8 DEF RouteInv, Due
<1>13. AcceptInv'
  BY <1>1, <1>2 DEF AcceptInv
<1>14. DtorInv'
  <2>1. \A m \in Loops : phase'[m] = "exited" => m # l
    BY <1>5, Zenon
  <2>2. ~(l \in 1..current - 1)
    BY <1>1, <1>2 DEF DtorInv
  <2> QED
    BY <1>1, <1>2, <1>3, <1>5, <2>1, <2>2, Zenon DEF DtorInv
<1>15. OrderInv'
  <2>1. \A c \in Conns : Life(c) => Life(c)'
    BY <1>1, <1>2, <1>8, LifeFrame, Zenon DEF Due
  <2> QED
    BY <1>1, <1>2, <1>3, <1>9, <2>1 DEF OrderInv, Orderly
<1>16. IdleInv'
  <2>1. \A c \in Conns : Referenced(c)' => Referenced(c)
    BY <1>1, <1>3, <1>5, EmptyQueue, Zenon DEF Referenced
  <2> QED
    BY <1>1, <2>1, NoMoreOpen
<1> QED
  BY <1>10, <1>11, <1>12, <1>13, <1>14, <1>15, <1>16 DEF ServerInv

LEMMA EnterLoopInv ==
  ASSUME ServerInv, NEW l \in Loops, EnterLoop(l)
  PROVE  ServerInv'
<1>1. /\ phase[l] = "enter" /\ quit_' = [quit_ EXCEPT ![l] = FALSE] /\ phase' = [phase EXCEPT ![l] = "functors"]
      /\ UNCHANGED <<started_, listenning_, acceptor, idleFd_, others, opened, backlog, arrived, numThreads_, conn,
                     ioLoop, nextConnId_, next_, connections_, pending, batch, held, dtor, current, failed>>
  BY DEF EnterLoop, acceptVars, connVars
<1>2. TypeOK /\ BatchInv /\ RouteInv /\ AcceptInv /\ DtorInv /\ OrderInv /\ IdleInv
  BY DEF ServerInv
<1>3. /\ phase \in [Loops -> {"enter", "poll", "functors", "exited"}] /\ quit_ \in [Loops -> BOOLEAN]
      /\ Loops' = Loops
  BY <1>1, <1>2 DEF TypeOK, Loops
<1>4. /\ phase'[l] = "functors" /\ quit_'[l] = FALSE
      /\ \A m \in Loops : m # l => phase'[m] = phase[m] /\ quit_'[m] = quit_[m]
  BY <1>1, <1>3
<1>5. \A m \in Loops : Todo(m)' = Todo(m) /\ (QueuedOnce(m) => QueuedOnce(m)')
  BY <1>1 DEF Todo, QueuedOnce
<1>6. TypeOK'
  <2>1. phase' \in [Loops -> {"enter", "poll", "functors", "exited"}] /\ quit_' \in [Loops -> BOOLEAN]
    BY <1>1, <1>3
  <2> QED
    BY <1>1, <1>2, <1>3, <2>1, Zenon DEF TypeOK
<1>7. BatchInv'
  <2>1. \A m \in Loops : phase[m] = "functors" => phase'[m] = "functors"
    BY <1>4, Zenon
  <2>2. \A m \in Loops : ConnsOf(batch[m])' = ConnsOf(batch[m])
    BY <1>1 DEF ConnsOf
  <2> QED
    BY <1>1, <1>2, <1>3, <2>1, <2>2, Zenon DEF BatchInv
<1>8. RouteInv'
  BY <1>1, <1>2, <1>3, <1>5 DEF RouteInv, Due
<1>9. AcceptInv'
  BY <1>1, <1>2 DEF AcceptInv
<1>10. DtorInv'
  <2>1. ~(l \in 1..current - 1)
    BY <1>1, <1>2, Zenon DEF DtorInv
  <2> QED
    BY <1>1, <1>2, <1>3, <1>4, <2>1, Zenon DEF DtorInv
<1>11. OrderInv'
  <2>1. \A c \in Conns : Life(c) => Life(c)'
    BY <1>1, <1>2, <1>5, LifeFrame, Zenon DEF Due
  <2> QED
    BY <1>1, <1>2, <1>3, <1>5, <2>1 DEF OrderInv, Orderly
<1>12. IdleInv'
  <2>1. \A c \in Conns : Referenced(c)' => Referenced(c)
    BY <1>1, <1>3, Zenon DEF Referenced
  <2> QED
    BY <1>1, <2>1, NoMoreOpen
<1> QED
  BY <1>6, <1>7, <1>8, <1>9, <1>10, <1>11, <1>12 DEF ServerInv

LEMMA FunctorsDoneInv ==
  ASSUME ServerInv, NEW l \in Loops, FunctorsDone(l)
  PROVE  ServerInv'
<1>1. /\ phase[l] = "functors" /\ batch[l] = <<>> /\ held' = [held EXCEPT ![l] = {}]
      /\ phase' = [phase EXCEPT ![l] = IF quit_[l] THEN "exited" ELSE "poll"]
      /\ pending' = [pending EXCEPT ![l] = IF quit_[l] THEN <<>> ELSE @]
      /\ UNCHANGED <<started_, listenning_, acceptor, idleFd_, others, opened, backlog, arrived, numThreads_, conn,
                     ioLoop, nextConnId_, next_, connections_, batch, quit_, dtor, current, failed>>
  BY DEF FunctorsDone, acceptVars, connVars
<1>2. TypeOK /\ BatchInv /\ RouteInv /\ AcceptInv /\ DtorInv /\ OrderInv /\ IdleInv
  BY DEF ServerInv
<1>3. /\ pending \in [Loops -> Seq(Jobs)] /\ batch \in [Loops -> Seq(Jobs)] /\ held \in [Loops -> SUBSET Conns]
      /\ phase \in [Loops -> {"enter", "poll", "functors", "exited"}] /\ Loops' = Loops
  BY <1>1, <1>2 DEF TypeOK, Jobs, Loops
<1>4. /\ held'[l] = {} /\ phase'[l] = (IF quit_[l] THEN "exited" ELSE "poll")
      /\ pending'[l] = (IF quit_[l] THEN <<>> ELSE pending[l])
      /\ \A m \in Loops : m # l =>
           pending'[m] = pending[m] /\ held'[m] = held[m] /\ phase'[m] = phase[m]
  BY <1>1, <1>3
<1>5. \A m \in Loops : Todo(m)' \subseteq Todo(m)
  <2>1. Todo(l)' \subseteq Todo(l)
    BY <1>1, <1>4, EmptyQueue DEF Todo
  <2> QED
    BY <1>1, <1>4, <2>1 DEF Todo
<1>6. Orderly => ~quit_[l]
  <2>1. quit_[l] => l # Base /\ dtor # "none"
    BY <1>2 DEF DtorInv
  <2>2. numThreads_ = 0 => l = Base
    BY DEF Loops, Base
  <2> QED
    BY <2>1, <2>2 DEF Orderly
<1>7. TypeOK'
  <2>1. /\ pending' \in [Loops -> Seq(Jobs)] /\ held' \in [Loops -> SUBSET Conns]
        /\ phase' \in [Loops -> {"enter", "poll", "functors", "exited"}]
    BY <1>1, <1>3
  <2> QED
    BY <1>1, <1>2, <1>3, <2>1 DEF TypeOK, Jobs
<1>8. BatchInv'
  <2>1. ConnsOf(batch[l]) = {}
    BY <1>1, EmptyQueue
  <2> QED
    BY <1>1, <1>2, <1>3, <1>4, <2>1 DEF BatchInv
<1>9. RouteInv'
  BY <1>1, <1>2, <1>3, <1>5, Zenon DEF RouteInv, Due
<1>10. AcceptInv'
  BY <1>1, <1>2 DEF AcceptInv
<1>11. DtorInv'
  <2>1. phase'[l] = "exited" => quit_[l] /\ pending'[l] = <<>> /\ held'[l] = {}
    BY <1>4, Zenon
  <2>2. ~(l \in 1..current - 1)
    BY <1>1, <1>2, Zenon DEF DtorInv
  <2> QED
    BY <1>1, <1>2, <1>3, <1>4, <2>1, <2>2 DEF DtorInv
<1>12. OrderInv'
  <2> SUFFICES ASSUME Orderly'
               PROVE  /\ failed' \in {"none", "listen"}
                      /\ \A m \in Loops : QueuedOnce(m)'
                      /\ \A c \in Conns : Life(c)'
    BY <1>3 DEF OrderInv
  <2>1. Orderly
    BY <1>1, Zenon DEF Orderly
  <2>2. \A m \in Loops : pending'[m] = pending[m]
    BY <1>4, <1>6, <2>1
  <2>3. \A m \in Loops : Todo(m)' = Todo(m)
    BY <1>1, <2>2 DEF Todo
  <2>4. \A m \in Loops : QueuedOnce(m) => QueuedOnce(m)'
    BY <1>1, <2>2 DEF QueuedOnce
  <2>5. \A c \in Conns : Life(c) => Life(c)'
    BY <1>1, <1>2, <2>3, LifeFrame, Zenon DEF Due
  <2> QED
    BY <1>1, <1>2, <2>1, <2>4, <2>5 DEF OrderInv
<1>13. IdleInv'
  <2>1. \A c \in Conns : Referenced(c)' => Referenced(c)
    BY <1>1, <1>3, <1>4, EmptyQueue DEF Referenced
  <2> QED
    BY <1>1, <2>1, NoMoreOpen
<1> QED
  BY <1>7, <1>8, <1>9, <1>10, <1>11, <1>12, <1>13 DEF ServerInv

\* The functor that a loop runs is the first of its batch, which was due.
LEMMA RunFunctor ==
  ASSUME ServerInv, NEW l \in Loops, NEW fn, NextFunctor(l, fn)
  PROVE  /\ batch[l] # <<>> /\ batch' = [batch EXCEPT ![l] = Tail(@)] /\ batch' \in [Loops -> Seq(Jobs)]
         /\ UNCHANGED <<held, phase, quit_, numThreads_, ioLoop, nextConnId_, next_, dtor, current, Loops>>
         /\ BatchInv' /\ phase[l] = "functors" /\ (l = Base => acceptor = "idle" /\ dtor \in {"none", "gone"})
         /\ Head(batch[l]) \in Todo(l) /\ Head(batch[l]).fn = fn
         /\ fn \in Names => /\ Head(batch[l]).of \in Conns
                            /\ Head(batch[l]) = Functor(fn, Head(batch[l]).of)
                            /\ Head(batch[l]).of \in held[l] /\ Head(batch[l]).of < nextConnId_
         /\ fn = "listen" => Head(batch[l]) = Listen
<1>1. /\ batch[l] # <<>> /\ batch' = [batch EXCEPT ![l] = Tail(@)] /\ Head(batch[l]).fn = fn
      /\ phase[l] = "functors" /\ (l = Base => acceptor = "idle" /\ dtor \in {"none", "gone"})
      /\ UNCHANGED <<held, phase, quit_, numThreads_, ioLoop, nextConnId_, next_, dtor, current>>
  BY Zenon DEF NextFunctor, Free, BaseFree
<1>2. TypeOK /\ BatchInv /\ RouteInv
  BY DEF ServerInv
<1>3. /\ batch' \in [Loops -> Seq(Jobs)] /\ Head(batch[l]) \in Jobs
      /\ Elems(batch[l]) = Elems(batch'[l]) \cup {Head(batch[l])}
      /\ \A m \in Loops : m # l => batch'[m] = batch[m]
      /\ \A m \in Loops : batch'[m] # <<>> => batch[m] # <<>>
      /\ \A m \in Loops, c \in Conns : c \in ConnsOf(batch'[m]) => c \in ConnsOf(batch[m])
  BY <1>1, <1>2, PopDoes, Zenon
<1>4. Loops' = Loops
  BY <1>1 DEF Loops
<1>5. \A m \in Loops : ConnsOf(batch'[m]) \subseteq ConnsOf(batch[m])
  <2> SUFFICES ASSUME NEW m \in Loops
               PROVE  ConnsOf(batch'[m]) \subseteq Conns
    BY <1>3
  <2>1. Elems(batch'[m]) \subseteq Todo(m) /\ batch'[m] \in Seq(Jobs)
    BY <1>3 DEF Todo
  <2> QED
    BY <2>1, QueuedConns
<1>6. BatchInv'
  BY <1>1, <1>2, <1>3, <1>4, <1>5 DEF BatchInv
<1>7. Head(batch[l]) \in Elems(batch[l]) /\ Head(batch[l]) \in Todo(l)
  BY <1>3, Zenon DEF Todo
<1>8. ASSUME fn \in Names
      PROVE  /\ Head(batch[l]).of \in Conns
             /\ Head(batch[l]) = Functor(fn, Head(batch[l]).of)
             /\ Head(batch[l]).of \in held[l] /\ Head(batch[l]).of < nextConnId_
  <2>1. Head(batch[l]) # Listen
    BY <1>1, <1>8, FunctorNames DEF Names
  <2>2. Head(batch[l]).of \in Conns /\ Head(batch[l]) = Functor(fn, Head(batch[l]).of)
    BY <1>1, <1>3, <2>1, FunctorNames
  <2>3. Head(batch[l]).of \in ConnsOf(batch[l])
    BY <1>2, <1>7, <2>2, QueueConns, QueueTypes, Zenon
  <2>4. Due(l, fn, Head(batch[l]).of)
    BY <1>7, <2>2 DEF Due
  <2> QED
    BY <1>2, <1>8, <2>2, <2>3, <2>4, Zenon DEF BatchInv, RouteInv, Names
<1>9. ASSUME fn = "listen"
      PROVE  Head(batch[l]) = Listen
  BY <1>1, <1>3, <1>9, FunctorNames DEF Names
<1> QED
  BY <1>1, <1>3, <1>4, <1>6, <1>7, <1>8, <1>9, Zenon

LEMMA RunListenInv ==
  ASSUME ServerInv, RunListen
  PROVE  ServerInv'
<1>1. /\ NextFunctor(Base, "listen")
      /\ IF dtor = "gone"
         THEN failed' = "listen" /\ UNCHANGED listenning_
         ELSE listenning_' = TRUE /\ UNCHANGED failed
      /\ UNCHANGED <<started_, acceptor, idleFd_, others, opened, backlog, arrived, conn, connections_, pending>>
  BY DEF RunListen
<1>2. TypeOK /\ BatchInv /\ RouteInv /\ AcceptInv /\ DtorInv /\ OrderInv /\ IdleInv /\ Base \in Loops
  BY QueueTypes DEF ServerInv
<1>3. /\ batch[Base] # <<>> /\ batch' = [batch EXCEPT ![Base] = Tail(@)] /\ batch' \in [Loops -> Seq(Jobs)]
      /\ UNCHANGED <<held, phase, quit_, numThreads_, ioLoop, nextConnId_, next_, dtor, current, Loops>>
      /\ BatchInv' /\ Head(batch[Base]) = Listen /\ Listen \in Todo(Base)
  BY <1>1, <1>2, RunFunctor
<1>4. /\ \A m \in Loops : \A fn, c : Due(m, fn, c)' => Due(m, fn, c)
      /\ \A m \in Loops : (Listen \in Todo(m))' => Listen \in Todo(m)
      /\ \A m \in Loops : \A fn, c : Due(m, fn, c) /\ ~(m = Base /\ Listen = Functor(fn, c)) => Due(m, fn, c)'
      /\ \A m \in Loops : QueuedOnce(m) => QueuedOnce(m)'
  BY <1>1, <1>2, <1>3, PopDue, Zenon
<1>5. listenning_' \in BOOLEAN /\ (listenning_' => started_)
  <2>1. listenning_ \in BOOLEAN
    BY <1>2 DEF TypeOK
  <2>2. started_
    BY <1>2, <1>3 DEF RouteInv
  <2> QED
    BY <1>1, <2>1, <2>2, Zenon
<1>6. failed' \in {failed, "listen"}
  BY <1>1
<1>7. TypeOK'
  BY <1>1, <1>2, <1>3, <1>5, <1>6 DEF TypeOK, Jobs
<1>8. RouteInv'
  BY <1>1, <1>2, <1>3, <1>4 DEF RouteInv
<1>9. AcceptInv'
  BY <1>1, <1>2, <1>3, <1>5 DEF AcceptInv
<1>10. DtorInv'
  BY <1>1, <1>2, <1>3, Zenon DEF DtorInv
<1>11. OrderInv'
  <2>1. ASSUME NEW c \in Conns, Life(c)
        PROVE  Life(c)'
    <3>1. \A m \in Loops, fn \in Names : Due(m, fn, c)' <=> Due(m, fn, c)
      BY <1>4, FunctorNames
    <3> QED
      BY <1>1, <1>2, <1>3, <2>1, <3>1, LifeFrame, Zenon
  <2> QED
    BY <1>2, <1>3, <1>4, <1>6, <2>1 DEF OrderInv, Orderly
<1>12. IdleInv'
  <2>1. \A c \in Conns : Referenced(c)' <=> Referenced(c)
    BY <1>1, <1>3 DEF Referenced
  <2> QED
    BY <1>1, <1>3, <2>1, NoMoreOpen
<1> QED
  BY <1>3, <1>7, <1>8, <1>9, <1>10, <1>11, <1>12 DEF ServerInv

\* connectEstablished() and connectDestroyed(): the functor of one connection is run
\* and takes it on.
LEMMA RunConnection ==
  ASSUME ServerInv, NEW l \in Loops, NEW gn \in {"connectEstablished", "connectDestroyed"},
         NextFunctor(l, gn), UNCHANGED <<acceptVars, connections_, pending>>,
         LET d == Head(batch[l]).of
         IN  \/ /\ conn' = [conn EXCEPT ![d] = IF gn = "connectDestroyed" THEN "gone" ELSE "up"] /\ UNCHANGED failed
                /\ gn = "connectEstablished" => conn[d] = "made"
             \/ gn = "connectEstablished" /\ conn[d] # "made" /\ failed' = "established" /\ UNCHANGED conn
  PROVE  ServerInv'
<1>1. UNCHANGED <<started_, listenning_, acceptor, idleFd_, others, opened, backlog, arrived, connections_, pending>>
  BY DEF acceptVars
<1>2. TypeOK /\ BatchInv /\ RouteInv /\ AcceptInv /\ DtorInv /\ OrderInv /\ IdleInv /\ gn \in Names
  BY DEF ServerInv, Names
<1>3. /\ batch[l] # <<>> /\ batch' = [batch EXCEPT ![l] = Tail(@)] /\ batch' \in [Loops -> Seq(Jobs)]
      /\ UNCHANGED <<held, phase, quit_, numThreads_, ioLoop, nextConnId_, next_, dtor, current, Loops>>
      /\ BatchInv' /\ Head(batch[l]) \in Todo(l)
  BY RunFunctor
<1>4. PICK d \in Conns : d = Head(batch[l]).of /\ Head(batch[l]) = Functor(gn, d) /\ d < nextConnId_
  BY <1>2, RunFunctor
<1>5. /\ \A m \in Loops : \A fn, c : Due(m, fn, c)' => Due(m, fn, c)
      /\ \A m \in Loops : (Listen \in Todo(m))' => Listen \in Todo(m)
      /\ \A m \in Loops : \A fn, c : Due(m, fn, c) /\ ~(m = l /\ Functor(gn, d) = Functor(fn, c)) => Due(m, fn, c)'
      /\ QueuedOnce(l) => Functor(gn, d) \notin Todo(l)'
      /\ \A m \in Loops : QueuedOnce(m) => QueuedOnce(m)'
  BY <1>1, <1>2, <1>3, <1>4, PopDue, Zenon
<1>6. Due(l, gn, d) /\ l = ioLoop[d] /\ (QueuedOnce(l) => ~Due(l, gn, d)')
  BY <1>2, <1>3, <1>4, <1>5 DEF Due, RouteInv
<1>7. /\ conn' \in [Conns -> {"none", "made", "up", "down", "gone"}]
      /\ \A c \in Conns \ {d} : conn'[c] = conn[c]
      /\ failed' \in {failed, "established"}
  BY <1>2, <1>4, Zenon DEF TypeOK
<1>8. \A c \in Conns : conn'[c] = "none" <=> conn[c] = "none"
  <2>1. conn[d] # "none"
    <3>1. d \in Nat /\ nextConnId_ \in Nat
      BY <1>2, ServerAssumption DEF TypeOK, Conns
    <3> QED
      BY <1>2, <1>4, <3>1 DEF AcceptInv
  <2>2. conn'[d] # "none"
    BY <1>2, <1>4, <2>1, Zenon DEF TypeOK
  <2> QED
    BY <1>7, <2>1, <2>2, Zenon
<1>9. TypeOK'
  <2>1. failed' \in {"none", "listen", "established", "erase", "server"}
    BY <1>2, <1>7, Zenon DEF TypeOK
  <2>2. pending' \in [Loops -> Seq(Functors \cup {Listen})] /\ batch' \in [Loops -> Seq(Functors \cup {Listen})]
    BY <1>1, <1>2, <1>3, Zenon DEF TypeOK, Jobs
  <2>3. {pending', batch'} \subseteq [Loops -> Seq(Functors \cup {Listen})]
    BY <2>2, Zenon
  <2> QED
    BY <1>1, <1>2, <1>3, <1>7, <2>1, <2>3, Zenon DEF TypeOK
<1>10. RouteInv'
  BY <1>1, <1>2, <1>3, <1>5 DEF RouteInv
<1>11. AcceptInv'
  BY <1>1, <1>2, <1>3, <1>8 DEF AcceptInv
<1>12. DtorInv'
  BY <1>1, <1>2, <1>3, Zenon DEF DtorInv
<1>13. OrderInv'
  <2> SUFFICES ASSUME Orderly'
               PROVE  /\ failed' \in {"none", "listen"}
                      /\ \A m \in Loops : QueuedOnce(m)'
                      /\ \A c \in Conns : Life(c)'
    BY <1>3, Zenon DEF OrderInv
  <2>1. Orderly /\ Life(d) /\ QueuedOnce(l)
    BY <1>2, <1>3, Zenon DEF Orderly, OrderInv
  <2>2. gn = "connectEstablished" => conn[d] = "made"
    BY <1>6, <2>1 DEF Life
  <2>3. /\ conn'[d] = IF gn = "connectDestroyed" THEN "gone" ELSE "up"
        /\ failed' = failed
    BY <1>2, <1>4, <2>2 DEF TypeOK
  <2>4. Life(d)'
    <3>1. /\ ~Due(ioLoop[d], "connectEstablished", d)' /\ ~Due(ioLoop[d], "connectDestroyed", d)'
      <4>1. \A fn : Due(ioLoop[d], fn, d)' => Due(ioLoop[d], fn, d) /\ fn # gn
        BY <1>3, <1>5, <1>6, <2>1, Zenon DEF Due
      <4>2. Due(ioLoop[d], gn, d)
        BY <1>6, Zenon
      <4> QED
        BY <2>1, <4>1, <4>2, Zenon DEF Life
    <3>2. ~Due(Base, "remove", d)'
      <4>1. ~Due(Base, "remove", d)
        BY <1>6, <2>1, Zenon DEF Life
      <4> QED
        BY <1>2, <1>5, <4>1, QueueTypes, Zenon
    <3>3. d \in connections_ <=> gn = "connectEstablished"
      BY <1>6, <2>1, <2>2, Zenon DEF Life
    <3> QED
      BY <1>1, <2>3, <3>1, <3>2, <3>3, Zenon DEF Life
  <2>5. ASSUME NEW c \in Conns \ {d}
        PROVE  Life(c)'
    <3>1. \A m \in Loops, fn \in Names : Due(m, fn, c)' <=> Due(m, fn, c)
      <4>1. \A fn : Functor(gn, d) # Functor(fn, c)
        BY FunctorsApart, Zenon
      <4> QED
        BY <1>5, <4>1, Zenon
    <3>2. Life(c)
      BY <1>2, <2>1, Zenon DEF OrderInv
    <3> QED
      BY <1>1, <1>2, <1>3, <1>7, <3>1, <3>2, LifeFrame, Zenon
  <2> QED
    BY <1>2, <1>5, <2>1, <2>3, <2>4, <2>5, Zenon DEF OrderInv
<1>14. IdleInv'
  <2>1. \A c \in Conns : Referenced(c)' <=> Referenced(c)
    BY <1>1, <1>3, Zenon DEF Referenced
  <2> QED
    BY <1>1, <1>3, <1>8, <2>1, NoMoreOpen, Zenon
<1> QED
  BY <1>3, <1>9, <1>10, <1>11, <1>12, <1>13, <1>14 DEF ServerInv

LEMMA RunEstablishedInv ==
  ASSUME ServerInv, NEW l \in Loops, RunEstablished(l)
  PROVE  ServerInv'
BY RunConnection, Zenon DEF RunEstablished

LEMMA RunDestroyedInv ==
  ASSUME ServerInv, NEW l \in Loops, RunDestroyed(l)
  PROVE  ServerInv'
BY RunConnection, Zenon DEF RunDestroyed

LEMMA RunRemoveInv ==
  ASSUME ServerInv, RunRemove
  PROVE  ServerInv'
<1>1. /\ NextFunctor(Base, "remove")
      /\ UNCHANGED <<started_, listenning_, acceptor, idleFd_, others, opened, backlog, arrived, conn>>
  BY DEF RunRemove, acceptVars
<1>2. TypeOK /\ BatchInv /\ RouteInv /\ AcceptInv /\ DtorInv /\ OrderInv /\ IdleInv /\ Base \in Loops
  BY QueueTypes DEF ServerInv
<1>3. /\ batch[Base] # <<>> /\ batch' = [batch EXCEPT ![Base] = Tail(@)] /\ batch' \in [Loops -> Seq(Jobs)]
      /\ UNCHANGED <<held, phase, quit_, numThreads_, ioLoop, nextConnId_, next_, dtor, current, Loops>>
      /\ BatchInv' /\ Head(batch[Base]) \in Todo(Base)
  BY <1>1, <1>2, RunFunctor, Zenon
<1>4. PICK d \in Conns : /\ d = Head(batch[Base]).of /\ Head(batch[Base]) = Functor("remove", d)
                         /\ d \in held[Base] /\ d < nextConnId_
  BY <1>1, <1>2, RunFunctor, Zenon DEF Names
<1>5. Due(Base, "remove", d) /\ ioLoop[d] # Base /\ ioLoop[d] \in Loops
  BY <1>2, <1>3, <1>4 DEF Due, RouteInv, TypeOK
<1>6. /\ \A m \in Loops : m # Base => batch'[m] = batch[m]
      /\ Elems(batch[Base]) = Elems(batch'[Base]) \cup {Functor("remove", d)}
      /\ Distinct(batch[Base]) => Distinct(batch'[Base]) /\ Functor("remove", d) \notin Elems(batch'[Base])
  BY <1>2, <1>3, <1>4, PopDoes, Zenon
<1>7. CASE RemoveFails(d) # "none"
  <2>1. failed' = RemoveFails(d) /\ UNCHANGED <<connections_, pending>>
    BY <1>4, <1>7 DEF RunRemove
  <2>2. ~Orderly'
    <3>1. ASSUME Orderly
          PROVE  dtor # "gone" /\ d \in connections_
      <4>1. Life(d)
        BY <1>2, <3>1 DEF OrderInv
      <4>2. d \in connections_
        BY <1>5, <4>1 DEF Life
      <4> QED
        BY <1>2, <4>2 DEF DtorInv
    <3> QED
      BY <1>3, <1>7, <3>1 DEF Orderly, RemoveFails
  <2>3. /\ \A m \in Loops : \A fn, c : Due(m, fn, c)' => Due(m, fn, c)
        /\ \A m \in Loops : (Listen \in Todo(m))' => Listen \in Todo(m)
    BY <1>2, <1>3, <2>1, PopDue, Zenon
  <2>4. TypeOK'
    <3>1. failed' \in {"server", "erase"}
      BY <1>7, <2>1 DEF RemoveFails
    <3> QED
      BY <1>1, <1>2, <1>3, <2>1, <3>1, Zenon DEF TypeOK, Jobs
  <2>5. RouteInv'
    BY <1>1, <1>2, <1>3, <2>3 DEF RouteInv
  <2>6. AcceptInv'
    BY <1>1, <1>2, <1>3, <2>1, Zenon DEF AcceptInv
  <2>7. DtorInv'
    BY <1>1, <1>2, <1>3, <2>1 DEF DtorInv
  <2>8. OrderInv'
    BY <2>2 DEF OrderInv
  <2>9. IdleInv'
    <3>1. \A c \in Conns : Referenced(c)' <=> Referenced(c)
      BY <1>1, <1>3, <2>1, Zenon DEF Referenced
    <3> QED
      BY <1>1, <1>3, <3>1, NoMoreOpen
  <2> QED
    BY <1>3, <2>4, <2>5, <2>6, <2>7, <2>8, <2>9 DEF ServerInv
<1>8. CASE RemoveFails(d) = "none"
  <2> DEFINE f == Functor("connectDestroyed", d)
             k == ioLoop[d]
  <2>1. Queue(k, f) /\ UNCHANGED failed /\ connections_' = connections_ \ {d}
    BY <1>4, <1>8 DEF RunRemove, removeConnectionInLoop
  <2>2. f \in Jobs /\ f # Listen /\ f.of = d
    BY FunctorNames DEF Names
  <2>3. d \in connections_
    BY <1>8 DEF RemoveFails
  <2>4. /\ pending' \in [Loops -> Seq(Jobs)]
        /\ \A m \in Loops : Elems(pending'[m]) = Elems(pending[m]) \cup (IF m = k THEN {f} ELSE {})
        /\ \A m \in Loops : m # k => pending'[m] = pending[m]
        /\ \A m \in Loops : Distinct(pending[m]) /\ (m = k => f \notin Elems(pending[m])) => Distinct(pending'[m])
    BY <1>2, <1>5, <2>1, <2>2, QueueDoes, Zenon
  <2>5. /\ \A m \in Loops : m \notin {Base, k} => Todo(m)' = Todo(m)
        /\ Todo(Base)' \subseteq Todo(Base) /\ Todo(Base) \subseteq Todo(Base)' \cup {Functor("remove", d)}
    BY <1>2, <1>3, <1>5, <1>6, <2>4, Zenon DEF Todo
  <2>6. \A m \in Loops : m = k => Todo(m)' = Todo(m) \cup {f}
    BY <1>5, <1>6, <2>4, Zenon DEF Todo
  <2>7. \A m \in Loops : \A fn, c : Due(m, fn, c)' => Due(m, fn, c) \/ (m = k /\ fn = "connectDestroyed" /\ c = d)
    BY <1>5, <2>5, <2>6, FunctorNames DEF Due
  <2>8. \A m \in Loops : \A fn, c : Due(m, fn, c) /\ ~(m = Base /\ fn = "remove" /\ c = d) => Due(m, fn, c)'
    BY <1>5, <2>5, <2>6, FunctorNames DEF Due
  <2>9. \A m \in Loops : (Listen \in Todo(m))' => Listen \in Todo(m)
    BY <1>5, <2>2, <2>5, <2>6
  <2>10. TypeOK'
    BY <1>1, <1>2, <1>3, <2>1, <2>4, Zenon DEF TypeOK, Jobs
  <2>11. RouteInv'
    <3>1. \A m \in Loops : (Listen \in Todo(m))' => m = Base /\ started_'
      BY <1>1, <1>2, <2>9, Zenon DEF RouteInv
    <3>2. ASSUME NEW m \in Loops, NEW c \in Conns
          PROVE  /\ Due(m, "connectEstablished", c)' => m = ioLoop[c] /\ m # Base
                 /\ Due(m, "connectDestroyed", c)' => m = ioLoop[c]
                 /\ Due(m, "remove", c)' => m = Base /\ ioLoop[c] # Base
                 /\ (\E fn \in {"connectEstablished", "connectDestroyed", "remove"} : Due(m, fn, c)') => c < nextConnId_
      <4>1. /\ Due(m, "connectEstablished", c) => m = ioLoop[c] /\ m # Base
            /\ Due(m, "connectDestroyed", c) => m = ioLoop[c]
            /\ Due(m, "remove", c) => m = Base /\ ioLoop[c] # Base
            /\ (\E fn \in {"connectEstablished", "connectDestroyed", "remove"} : Due(m, fn, c)) => c < nextConnId_
        BY <1>2, Zenon DEF RouteInv
      <4>2. \A fn : Due(m, fn, c)' => Due(m, fn, c) \/ (m = k /\ fn = "connectDestroyed" /\ c = d)
        BY <2>7
      <4> QED
        BY <1>4, <4>1, <4>2
    <3> QED
      BY <1>3, <3>1, <3>2, Zenon DEF RouteInv
  <2>12. AcceptInv'
    BY <1>1, <1>2, <1>3, <2>1, Zenon DEF AcceptInv
  <2>13. DtorInv'
    <3>1. dtor \in {"none", "conns"}
      BY <1>2, <2>3 DEF DtorInv
    <3>2. \A m \in Loops : ~quit_[m]
      BY <1>2, <3>1 DEF DtorInv
    <3> QED
      BY <1>1, <1>2, <1>3, <2>1, <3>1, <3>2, Zenon DEF DtorInv
  <2>14. OrderInv'
    <3> SUFFICES ASSUME Orderly'
                 PROVE  /\ failed' \in {"none", "listen"}
                        /\ \A m \in Loops : QueuedOnce(m)'
                        /\ \A c \in Conns : Life(c)'
      BY <1>3 DEF OrderInv
    <3>1. Orderly /\ Life(d) /\ \A m \in Loops : QueuedOnce(m)
      BY <1>2, <1>3 DEF Orderly, OrderInv
    <3>2. ~Due(k, "connectDestroyed", d) /\ ~Due(k, "connectEstablished", d) /\ conn[d] = "down"
      BY <1>5, <2>3, <3>1 DEF Life
    <3>3. f \notin Elems(batch[k]) /\ f \notin Elems(pending[k])
      BY <3>2, Zenon DEF Due, Todo
    <3>4. \A m \in Loops : QueuedOnce(m)'
      <4>1. QueuedOnce(Base)'
        BY <1>2, <1>5, <1>6, <2>4, <3>1, Zenon DEF QueuedOnce
      <4>2. ASSUME NEW m \in Loops, m # Base
            PROVE  QueuedOnce(m)'
        <5>1. batch'[m] = batch[m] /\ QueuedOnce(m) /\ (m = k => f \notin Elems(pending[m]) /\ f \notin Elems(batch[m]))
          BY <1>6, <3>1, <3>3, <4>2, Zenon
        <5>2. Distinct(pending'[m])
          BY <2>4, <5>1 DEF QueuedOnce
        <5>3. Elems(pending'[m]) = Elems(pending[m]) \cup (IF m = k THEN {f} ELSE {})
          BY <2>4, Zenon
        <5> QED
          BY <5>1, <5>2, <5>3, Zenon DEF QueuedOnce
      <4> QED
        BY <4>1, <4>2
    <3>5. ~Due(Base, "remove", d)'
      BY <1>2, <1>5, <1>6, <2>4, <3>1, Zenon DEF Due, Todo, QueuedOnce
    <3>6. Life(d)'
      <4>1. /\ ~Due(ioLoop[d], "connectEstablished", d)' /\ Due(ioLoop[d], "connectDestroyed", d)'
        <5>1. \A m \in Loops : m = k => ~Due(m, "connectEstablished", d)' /\ Due(m, "connectDestroyed", d)'
          BY <2>6, <2>7, <3>2 DEF Due
        <5> QED
          BY <1>3, <1>5, <5>1, Zenon DEF Due
      <4> QED
        BY <1>1, <2>1, <3>2, <3>5, <4>1, Zenon DEF Life
    <3>7. ASSUME NEW c \in Conns \ {d}
          PROVE  Life(c)'
      <4>1. \A m \in Loops, fn \in Names : Due(m, fn, c)' <=> Due(m, fn, c)
        BY <2>7, <2>8
      <4>2. Life(c) /\ (c \in connections_' <=> c \in connections_)
        BY <1>2, <2>1, <3>1 DEF OrderInv
      <4> QED
        BY <1>1, <1>2, <1>3, <4>1, <4>2, LifeFrame, Zenon
    <3> QED
      BY <1>2, <2>1, <3>1, <3>4, <3>6, <3>7 DEF OrderInv
  <2>15. IdleInv'
    <3>1. \A m \in Loops, c \in Conns : c \in ConnsOf(pending'[m]) => c \in ConnsOf(pending[m]) \/ c = d
      <4> SUFFICES ASSUME NEW m \in Loops, NEW c \in Conns
                   PROVE  c \in ConnsOf(pending'[m]) => c \in ConnsOf(pending[m]) \/ c = d
        OBVIOUS
      <4>1. pending[m] \in Seq(Jobs) /\ pending'[m] \in Seq(Jobs)
        BY <1>2, <2>4, QueueTypes, Zenon
      <4>2. /\ c \in ConnsOf(pending[m]) <=> \E g \in Elems(pending[m]) : g.of = c
            /\ c \in ConnsOf(pending'[m]) <=> \E g \in Elems(pending'[m]) : g.of = c
        BY <4>1, QueueConns, Zenon
      <4> QED
        BY <2>2, <2>4, <4>2, Zenon
    <3>2. \A c \in Conns : Referenced(c)' => Referenced(c)
      BY <1>2, <1>3, <1>4, <2>1, <3>1, Zenon DEF Referenced
    <3> QED
      BY <1>1, <1>3, <3>2, NoMoreOpen
  <2> QED
    BY <1>3, <2>10, <2>11, <2>12, <2>13, <2>14, <2>15 DEF ServerInv
<1> QED
  BY <1>7, <1>8

LEMMA DtorConnInv ==
  ASSUME ServerInv, DtorConn
  PROVE  ServerInv'
<1>1. PICK d \in connections_ :
        /\ dtor = "conns" /\ connections_' = connections_ \ {d}
        /\ IF ioLoop[d] = Base
           THEN conn' = [conn EXCEPT ![d] = "gone"] /\ UNCHANGED pending
           ELSE Queue(ioLoop[d], Functor("connectDestroyed", d)) /\ UNCHANGED conn
        /\ UNCHANGED <<started_, listenning_, acceptor, idleFd_, others, opened, backlog, arrived, numThreads_,
                       ioLoop, nextConnId_, next_, batch, held, phase, quit_, dtor, current, failed>>
  BY DEF DtorConn, acceptVars
<1>2. TypeOK /\ BatchInv /\ RouteInv /\ AcceptInv /\ DtorInv /\ OrderInv /\ IdleInv
  BY DEF ServerInv
<1>3. /\ Loops' = Loops /\ Base \in Loops /\ d \in Conns /\ ioLoop[d] \in Loops /\ d \in 1..nextConnId_ - 1
  BY <1>1, <1>2, QueueTypes, Zenon DEF Loops, TypeOK, AcceptInv
<1>4. d \in Nat /\ nextConnId_ \in Nat /\ d < nextConnId_ /\ ~(d >= nextConnId_)
  BY <1>2, <1>3, ServerAssumption DEF TypeOK
<1>5. /\ conn' \in [Conns -> {"none", "made", "up", "down", "gone"}]
      /\ \A c \in Conns \ {d} : conn'[c] = conn[c]
      /\ \A c \in Conns : conn'[c] = "none" <=> conn[c] = "none"
  <2>1. conn[d] # "none"
    BY <1>2, <1>3, <1>4 DEF AcceptInv
  <2> QED
    BY <1>1, <1>2, <1>3, <2>1, Zenon DEF TypeOK
<1>6. /\ pending' \in [Loops -> Seq(Jobs)]
      /\ \A m \in Loops : \A fn, c :
           Due(m, fn, c)' => Due(m, fn, c) \/ (m = ioLoop[d] /\ fn = "connectDestroyed" /\ c = d)
      /\ \A m \in Loops : (Listen \in Todo(m))' => Listen \in Todo(m)
      /\ ioLoop[d] = Base => \A m \in Loops : Todo(m)' = Todo(m) /\ (QueuedOnce(m) => QueuedOnce(m)')
  <2>1. CASE ioLoop[d] = Base
    <3>1. pending' = pending /\ batch' = batch
      BY <1>1, <2>1
    <3>2. \A m \in Loops : Todo(m)' = Todo(m) /\ (QueuedOnce(m) => QueuedOnce(m)')
      BY <3>1 DEF Todo, QueuedOnce
    <3>3. pending' \in [Loops -> Seq(Jobs)]
      BY <1>2, <3>1 DEF TypeOK, Jobs
    <3> QED
      BY <3>2, <3>3 DEF Due
  <2>2. CASE ioLoop[d] # Base
    <3>1. Queue(ioLoop[d], Functor("connectDestroyed", d)) /\ UNCHANGED batch
      BY <1>1, <2>2
    <3>2. "connectDestroyed" \in Names /\ Functor("connectDestroyed", d) \in Jobs
      BY <1>3, FunctorNames DEF Names
    <3>3. pending' \in [Loops -> Seq(Jobs)]
      BY <1>2, <1>3, <3>1, <3>2, QueueDoes, Zenon
    <3>4. /\ \A m \in Loops : \A fn, c :
               Due(m, fn, c)' <=> Due(m, fn, c) \/ (m = ioLoop[d] /\ fn = "connectDestroyed" /\ c = d)
          /\ \A m \in Loops : (Listen \in Todo(m))' <=> Listen \in Todo(m)
      BY <1>2, <1>3, <3>1, <3>2, QueueDue, Zenon
    <3> QED
      BY <2>2, <3>3, <3>4
  <2> QED
    BY <2>1, <2>2
<1>7. TypeOK'
  BY <1>1, <1>2, <1>3, <1>5, <1>6, Zenon DEF TypeOK, Jobs
<1>8. BatchInv'
  BY <1>1, <1>2, <1>3, Zenon DEF BatchInv
<1>9. RouteInv'
  BY <1>1, <1>2, <1>3, <1>4, <1>6 DEF RouteInv
<1>10. AcceptInv'
  BY <1>1, <1>2, <1>5 DEF AcceptInv
<1>11. DtorInv'
  <2>1. \A m \in Loops : ~quit_[m] /\ phase[m] # "exited"
    BY <1>1, <1>2, Zenon DEF DtorInv
  <2> QED
    BY <1>1, <1>2, <1>3, <2>1, Zenon DEF DtorInv
<1>12. OrderInv'
  <2> SUFFICES ASSUME Orderly'
               PROVE  /\ failed' \in {"none", "listen"}
                      /\ \A m \in Loops : QueuedOnce(m)'
                      /\ \A c \in Conns : Life(c)'
    BY <1>3 DEF OrderInv
  <2>1. numThreads_ = 0 /\ Orderly
    BY <1>1 DEF Orderly
  <2>2. ioLoop[d] = Base
    BY <1>3, <2>1 DEF Loops, Base
  <2>3. Life(d)
    BY <1>2, <1>3, <2>1, Zenon DEF OrderInv
  <2>4. ~Due(Base, "connectEstablished", d) /\ ~Due(Base, "connectDestroyed", d) /\ ~Due(Base, "remove", d)
    BY <1>1, <1>2, <1>3, <2>2, <2>3 DEF RouteInv, Life
  <2>5. Life(d)'
    <3>1. conn'[d] = "gone" /\ d \notin connections_'
      BY <1>1, <1>2, <1>3, <2>2, Zenon DEF TypeOK
    <3>2. /\ ~Due(ioLoop[d], "connectEstablished", d)' /\ ~Due(ioLoop[d], "connectDestroyed", d)'
          /\ ~Due(Base, "remove", d)'
      BY <1>1, <1>3, <1>6, <2>2, <2>4, Zenon DEF Due
    <3> QED
      BY <3>1, <3>2, Zenon DEF Life
  <2>6. ASSUME NEW c \in Conns \ {d}
        PROVE  Life(c)'
    <3>1. \A m \in Loops, fn \in Names : Due(m, fn, c)' <=> Due(m, fn, c)
      BY <1>6, <2>2 DEF Due
    <3>2. Life(c) /\ (c \in connections_' <=> c \in connections_)
      BY <1>1, <1>2, <2>1 DEF OrderInv
    <3> QED
      BY <1>1, <1>2, <1>5, <3>1, <3>2, LifeFrame, Zenon
  <2> QED
    BY <1>1, <1>2, <1>6, <2>1, <2>2, <2>5, <2>6 DEF OrderInv
<1>13. IdleInv'
  BY <1>1 DEF IdleInv
<1> QED
  BY <1>7, <1>8, <1>9, <1>10, <1>11, <1>12, <1>13 DEF ServerInv

(***************************************************************************)
(* The theorems.                                                           *)
(***************************************************************************)

LEMMA ServerInductive ==
  ServerInv /\ [Next]_vars => ServerInv'
<1> SUFFICES ASSUME ServerInv, [Next]_vars
             PROVE  ServerInv'
  OBVIOUS
<1>1. CASE Start \/ AcceptorStep
  BY <1>1, StartInv, AcceptSound, AcceptFailsInv, AcceptIdleInv, CloseIdleInv, ReopenIdleInv DEF AcceptorStep
<1>2. CASE PeerConnects \/ PeerAborts \/ OtherFd
  BY <1>2, PeerConnectsInv, PeerAbortsInv, OtherFdInv
<1>3. CASE \E c \in Conns : HandleClose(c)
  BY <1>3, HandleCloseInv
<1>4. CASE \E l \in AllLoops : LoopStep(l)
  BY <1>4, EnterLoopInv, SwapInv, RunEstablishedInv, RunDestroyedInv, FunctorsDoneInv, RunListenInv, RunRemoveInv DEF LoopStep
<1>5. CASE Destroy \/ DtorConn \/ DtorThreads \/ DtorQuit \/ DtorJoin
  BY <1>5, DestroyInv, DtorConnInv, DtorThreadsInv, DtorQuitInv, DtorJoinInv
<1>6. CASE UNCHANGED vars
  <2>1. UNCHANGED <<acceptVars, connVars, loopVars, dtor, current, failed>>
    BY <1>6 DEF vars
  <2>2. /\ Still /\ UNCHANGED <<started_, listenning_, acceptor, idleFd_, others, opened, backlog, arrived, phase,
                                quit_, dtor, current>>
    BY <2>1 DEF Still, acceptVars, connVars, loopVars
  <2>3. UNCHANGED <<numThreads_, conn, ioLoop, nextConnId_, next_, connections_, pending, batch, held, failed>>
    BY <2>2 DEF Still, connVars
  <2>4. TypeOK /\ AcceptInv /\ DtorInv
    BY DEF ServerInv
  <2>5. BatchInv' /\ RouteInv' /\ OrderInv'
    BY <2>2, <2>3, StillQueues, Zenon DEF Orderly
  <2>6. TypeOK'
    BY <2>2, <2>3, <2>4, Zenon DEF TypeOK, Loops
  <2>7. AcceptInv'
    BY <2>2, <2>3, <2>4, Zenon DEF AcceptInv
  <2>8. DtorInv'
    BY <2>2, <2>3, <2>4, Zenon DEF DtorInv, Loops
  <2>9. IdleInv'
    BY <2>2, StillOpen, FewerOpen
  <2> QED
    BY <2>5, <2>6, <2>7, <2>8, <2>9 DEF ServerInv
<1> QED
  BY <1>1, <1>2, <1>3, <1>4, <1>5, <1>6 DEF Next

LEMMA ServerInitially ==
  Init => ServerInv
<1> SUFFICES ASSUME Init
             PROVE  ServerInv
  OBVIOUS
<1>1. /\ numThreads_ \in ThreadNums /\ started_ = FALSE /\ listenning_ = FALSE /\ acceptor = "idle"
      /\ idleFd_ = "null" /\ others = 0 /\ opened = 0 /\ backlog = 0 /\ arrived = 0
      /\ conn = [c \in Conns |-> "none"] /\ ioLoop = [c \in Conns |-> Base]
      /\ nextConnId_ = 1 /\ next_ = 0 /\ connections_ = {}
      /\ pending = [l \in Loops |-> <<>>] /\ batch = [l \in Loops |-> <<>>] /\ held = [l \in Loops |-> {}]
      /\ phase = [l \in Loops |-> IF l = Base THEN "poll" ELSE "enter"] /\ quit_ = [l \in Loops |-> FALSE]
      /\ dtor = "none" /\ current = 1 /\ failed = "none"
  BY DEF Init
<1>2. numThreads_ \in Nat /\ Base \in Loops /\ MaxConns \in Nat /\ MaxOpens \in Nat /\ FdLimit \in Nat \ {0}
  BY <1>1, ServerAssumption DEF Loops, Base
<1>3. \A l \in Loops : Todo(l) = {} /\ QueuedOnce(l)
  BY <1>1, EmptyQueue DEF Todo, QueuedOnce
<1>4. \A l \in Loops : batch[l] = <<>> /\ held[l] = {} /\ phase[l] # "exited" /\ quit_[l] = FALSE /\ ConnsOf(batch[l]) = {}
  BY <1>1, EmptyQueue
<1>5. {started_, listenning_} \subseteq BOOLEAN /\ quit_ \in [Loops -> BOOLEAN]
  BY <1>1, Zenon
<1>6. TypeOK
  <2>1. <<>> \in Seq(Functors \cup {Listen})
    OBVIOUS
  <2>2. {pending, batch} \subseteq [Loops -> Seq(Functors \cup {Listen})] /\ held \in [Loops -> SUBSET Conns]
    BY <1>1, <2>1
  <2>3. /\ phase \in [Loops -> {"enter", "poll", "functors", "exited"}]
        /\ conn \in [Conns -> {"none", "made", "up", "down", "gone"}] /\ ioLoop \in [Conns -> Loops]
    BY <1>1, <1>2
  <2>4. /\ others \in 0..opened /\ opened \in 0..MaxOpens /\ backlog \in 0..MaxConns /\ arrived \in 0..MaxConns
        /\ nextConnId_ \in 1..MaxConns + 1 /\ next_ \in 0..numThreads_ /\ current \in 1..numThreads_ + 1
    BY <1>1, <1>2
  <2> QED
    BY <1>1, <1>5, <2>2, <2>3, <2>4 DEF TypeOK
<1>7. BatchInv
  BY <1>4 DEF BatchInv
<1>8. RouteInv
  BY <1>3 DEF RouteInv, Due
<1>9. AcceptInv
  BY <1>1, <1>2 DEF AcceptInv, Conns
<1>10. DtorInv
  BY <1>1, <1>4 DEF DtorInv
<1>11. OrderInv
  <2>1. \A c \in Conns : Life(c)
    BY <1>1, <1>2, <1>3 DEF Life, Due
  <2> QED
    BY <1>1, <1>3, <2>1, Zenon DEF OrderInv
<1>12. IdleInv
  <2>1. Open = {}
    BY <1>1 DEF Open
  <2>2. Cardinality(Open) = 0
    BY <2>1, FS_EmptySet
  <2> QED
    BY <1>1, <1>2, <2>2 DEF IdleInv
<1> QED
  BY <1>6, <1>7, <1>8, <1>9, <1>10, <1>11, <1>12 DEF ServerInv

\* The inductive invariant holds, for any numbers of io loops, peers and descriptors.
THEOREM ServerIsSound == Spec => []ServerInv
BY ServerInitially, ServerInductive, PTL DEF Spec

\* A functor that is due keeps its connection, in the queue or in what the batch holds.
LEMMA DueIsReferenced ==
  ASSUME ServerInv, NEW l \in Loops, NEW fn \in Names, NEW c \in Conns, Due(l, fn, c)
  PROVE  Referenced(c)
<1>1. TypeOK /\ BatchInv
  BY DEF ServerInv
<1>2. Functor(fn, c) \in Elems(batch[l]) \/ Functor(fn, c) \in Elems(pending[l])
  BY Zenon DEF Due, Todo
<1>3. c \in ConnsOf(batch[l]) \/ c \in ConnsOf(pending[l])
  BY <1>1, <1>2, QueueTypes, QueueConns, FunctorNames
<1> QED
  BY <1>1, <1>3 DEF BatchInv, Referenced

LEMMA KeptByInvariant ==
  ServerInv => ConnectionsKept
<1> SUFFICES ASSUME ServerInv, Orderly, NEW c \in Conns, conn[c] \in {"made", "up", "down"}
             PROVE  Referenced(c)
  BY DEF ConnectionsKept, AlwaysKept
<1>1. TypeOK /\ Life(c)
  BY DEF ServerInv, OrderInv
<1>2. Base \in Loops /\ ioLoop[c] \in Loops
  BY <1>1, QueueTypes DEF TypeOK
<1>3. c \in connections_ \/ Due(ioLoop[c], "connectDestroyed", c)
  BY <1>1, Zenon DEF Life
<1> QED
  BY <1>2, <1>3, DueIsReferenced, Zenon DEF Referenced, Names

\* NoAssertFails: connectEstablished() meets a connection that was just made, and
\* removeConnectionInLoop() one that is in the table of a server that is there, while
\* the server lives or if it has no io threads.
THEOREM FunctorsMeetTheirConnection == Spec => []NoAssertFails
<1>1. ServerInv => NoAssertFails
  BY DEF ServerInv, OrderInv, NoAssertFails
<1> QED
  BY <1>1, ServerIsSound, PTL

\* ConnectionsKept: a TcpConnection is destructed only after connectDestroyed() has
\* run, while the server lives or if it has no io threads.
THEOREM ConnectionsAreKept == Spec => []ConnectionsKept
BY KeptByInvariant, ServerIsSound, PTL

\* TableIsCurrent: connections_ holds the connections that are up and none that
\* connectDestroyed() has seen, while the server lives.
THEOREM TableStaysCurrent == Spec => []TableIsCurrent
<1>1. ServerInv => TableIsCurrent
  BY Zenon DEF ServerInv, OrderInv, Orderly, Life, TableIsCurrent
<1> QED
  BY <1>1, ServerIsSound, PTL

\* IdleFdReserved: Acceptor::handleRead() has its idle descriptor back after every
\* EMFILE, whatever the connections do, if no other code opens descriptors.
THEOREM IdleFdComesBack == Spec => []IdleFdReserved
<1>1. ServerInv => IdleFdReserved
  BY DEF ServerInv, IdleInv, IdleFdReserved
<1> QED
  BY <1>1, ServerIsSound, PTL

\* ReleasedWithServer: after ~TcpServer the loops of its threads hold no connection
\* and have no functor to run.
THEOREM LoopsAreReleased == Spec => []ReleasedWithServer
<1>1. ServerInv => ReleasedWithServer
  <2> SUFFICES ASSUME ServerInv, dtor = "gone", NEW l \in Loops \ {Base}
               PROVE  held[l] = {} /\ pending[l] = <<>>
    BY DEF ReleasedWithServer
  <2>1. TypeOK /\ BatchInv /\ RouteInv /\ AcceptInv /\ DtorInv
    BY Zenon DEF ServerInv
  <2>2. CASE started_
    <3>0. current = numThreads_ + 1
      BY <2>1, <2>2, Zenon DEF DtorInv
    <3>1. l \in 1..current - 1
      BY <2>1, <3>0, QueueTypes DEF Loops, Base
    <3>2. phase[l] = "exited"
      BY <2>1, <3>1, Zenon DEF DtorInv
    <3> QED
      BY <2>1, <3>2, Zenon DEF DtorInv
  <2>3. CASE ~started_
    <3>1. nextConnId_ = 1
      BY <2>1, <2>3 DEF AcceptInv
    <3>2. held[l] = {}
      BY <2>1, <3>1 DEF BatchInv
    <3>3. \A c \in Conns : ~(c < nextConnId_)
      BY <3>1 DEF Conns
    <3>4. \A f \in Elems(pending[l]) : FALSE
      <4> SUFFICES ASSUME NEW f \in Elems(pending[l])
                   PROVE  FALSE
        OBVIOUS
      <4>1. f \in Jobs /\ f \in Todo(l)
        BY <2>1, QueueTypes, Zenon DEF Todo
      <4>2. f # Listen
        BY <2>1, <2>3, <4>1 DEF RouteInv
      <4>3. f.fn \in Names /\ f.of \in Conns /\ Due(l, f.fn, f.of)
        BY <4>1, <4>2, FunctorNames DEF Due
      <4> QED
        BY <2>1, <3>3, <4>3, Zenon DEF RouteInv, Names
    <3> QED
      BY <2>1, <3>2, <3>4, NoElems, QueueTypes, Zenon
  <2> QED
    BY <2>2, <2>3
<1> QED
  BY <1>1, ServerIsSound, PTL
==============================================================================
