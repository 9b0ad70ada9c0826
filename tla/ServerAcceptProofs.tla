-------------------------- MODULE ServerAcceptProofs -------------------------
(***************************************************************************)
(* Proofs about TcpServer: its inductive invariant, and the steps that     *)
(* accept and make connections.                                            *)
(***************************************************************************)
EXTENDS TcpServer, FiniteSetTheorems, TLAPS

\* The time that the provers may take for a step.
USE SMTT(20), ZenonT(20)

Jobs == Functors \cup {Listen}

Elems(q) == {q[i] : i \in 1..Len(q)}

Distinct(q) == \A i, j \in 1..Len(q) : q[i] = q[j] => i = j

\* The functors that loop l is still to run, and whether fn of connection c is one.
Todo(l) == Elems(batch[l]) \cup Elems(pending[l])

Due(l, fn, c) == Functor(fn, c) \in Todo(l)

\* No functor of loop l is queued twice.
QueuedOnce(l) ==
  /\ Distinct(batch[l]) /\ Distinct(pending[l])
  /\ Elems(batch[l]) \cap Elems(pending[l]) = {}

\* The batch is run in one phase of the loop, and holds its connections.
BatchInv ==
  \A l \in Loops :
    /\ batch[l] # <<>> => phase[l] = "functors"
    /\ ConnsOf(batch[l]) \subseteq held[l]
    /\ held[l] \subseteq 1 .. nextConnId_ - 1

\* A functor is queued in the loop that it belongs to, for a connection that was made.
RouteInv ==
  \A l \in Loops :
    /\ Listen \in Todo(l) => l = Base /\ started_
    /\ \A c \in Conns :
         /\ Due(l, "connectEstablished", c) => l = ioLoop[c] /\ l # Base
         /\ Due(l, "connectDestroyed", c) => l = ioLoop[c]
         /\ Due(l, "remove", c) => l = Base /\ ioLoop[c] # Base
         /\ (\E fn \in {"connectEstablished", "connectDestroyed", "remove"} : Due(l, fn, c))
              => c < nextConnId_

\* The connections are numbered as they are accepted, once the server listens.
AcceptInv ==
  /\ \A c \in Conns : conn[c] = "none" <=> c >= nextConnId_
  /\ connections_ \subseteq 1 .. nextConnId_ - 1
  /\ nextConnId_ + backlog <= arrived + 1
  /\ listenning_ => started_
  /\ ~started_ => nextConnId_ = 1
  /\ next_ > 0 => next_ < numThreads_
  /\ acceptor # "idle" => dtor = "none"

\* The threads quit one by one, after the connections have left the table.
DtorInv ==
  /\ connections_ # {} => dtor \in {"none", "conns"}
  /\ dtor \in {"none", "conns"} => current = 1
  /\ dtor \in {"quit", "join"} => started_ /\ current \in 1..numThreads_
  /\ dtor = "gone" => ~started_ \/ current = numThreads_ + 1
  /\ \A l \in Loops :
       /\ quit_[l] => l # Base /\ dtor \in {"quit", "join", "gone"}
       /\ phase[l] = "exited" => quit_[l] /\ pending[l] = <<>> /\ held[l] = {}
       /\ l \in 1..current - 1 => phase[l] = "exited"

\* Where connection c is in its life, and which functor will take it on.
Life(c) ==
  /\ c \in connections_ <=>
       conn[c] \in {"made", "up"} \/ (conn[c] = "down" /\ Due(Base, "remove", c))
  /\ Due(ioLoop[c], "connectEstablished", c) <=> conn[c] = "made"
  /\ Due(ioLoop[c], "connectDestroyed", c) => conn[c] = "down" /\ c \notin connections_
  /\ Due(Base, "remove", c) => conn[c] = "down"
  /\ conn[c] = "down" => Due(Base, "remove", c) \/ Due(ioLoop[c], "connectDestroyed", c)

OrderInv ==
  Orderly =>
    /\ failed \in {"none", "listen"}
    /\ \A l \in Loops : QueuedOnce(l)
    /\ \A c \in Conns : Life(c)

\* Connections that have a descriptor.
Open == {c \in Conns : conn[c] # "none" /\ Referenced(c)}

\* As long as no other code opens descriptors there is one for the idle one.
IdleInv ==
  opened = 0 /\ dtor = "none" =>
    /\ Cardinality(Open) < FdLimit
    /\ acceptor = "idle" => idleFd_ = "null"
    /\ acceptor = "reopen" => idleFd_ = "none"

\* The inductive invariant.
ServerInv ==
  TypeOK /\ BatchInv /\ RouteInv /\ AcceptInv /\ DtorInv /\ OrderInv /\ IdleInv

(***************************************************************************)
(* Queues of functors.                                                     *)
(***************************************************************************)

LEMMA EmptyQueue ==
  Elems(<<>>) = {} /\ Distinct(<<>>) /\ ConnsOf(<<>>) = {}
BY DEF Elems, Distinct, ConnsOf

LEMMA NoElems ==
  ASSUME NEW q \in Seq(Jobs), Elems(q) = {}
  PROVE  q = <<>>
<1>1. Len(q) \in Nat
  OBVIOUS
<1>2. Len(q) = 0
  BY <1>1 DEF Elems
<1> QED
  BY <1>2

LEMMA QueueConns ==
  ASSUME NEW q \in Seq(Jobs), NEW c \in Conns
  PROVE  c \in ConnsOf(q) <=> \E f \in Elems(q) : f.of = c
<1>1. DOMAIN q = 1..Len(q)
  OBVIOUS
<1>2. c # 0
  BY DEF Conns
<1> QED
  BY <1>1, <1>2 DEF ConnsOf, Elems

LEMMA AppendQueue ==
  ASSUME NEW q \in Seq(Jobs), NEW f \in Jobs
  PROVE  /\ Append(q, f) \in Seq(Jobs)
         /\ Elems(Append(q, f)) = Elems(q) \cup {f}
         /\ Distinct(q) /\ f \notin Elems(q) => Distinct(Append(q, f))
<1>1. /\ Len(Append(q, f)) = Len(q) + 1 /\ Append(q, f)[Len(q) + 1] = f
      /\ \A i \in 1..Len(q) : Append(q, f)[i] = q[i]
  OBVIOUS
<1>2. Len(q) \in Nat
  OBVIOUS
<1>3. Elems(Append(q, f)) = Elems(q) \cup {f}
  BY <1>1, <1>2 DEF Elems
<1>4. Distinct(q) /\ f \notin Elems(q) => Distinct(Append(q, f))
  BY <1>1, <1>2 DEF Elems, Distinct
<1> QED
  BY <1>3, <1>4

LEMMA TailQueue ==
  ASSUME NEW q \in Seq(Jobs), q # <<>>
  PROVE  /\ Tail(q) \in Seq(Jobs) /\ Head(q) \in Jobs
         /\ Elems(q) = Elems(Tail(q)) \cup {Head(q)}
         /\ Distinct(q) => Distinct(Tail(q)) /\ Head(q) \notin Elems(Tail(q))
<1>1. /\ Len(q) \in Nat \ {0} /\ Head(q) = q[1] /\ Len(Tail(q)) = Len(q) - 1
      /\ \A i \in 1..(Len(q) - 1) : Tail(q)[i] = q[i + 1]
  OBVIOUS
<1>2. Elems(q) = Elems(Tail(q)) \cup {Head(q)}
  <2>1. ASSUME NEW i \in 1..Len(q)
        PROVE  q[i] = Head(q) \/ q[i] \in Elems(Tail(q))
    <3>1. CASE i = 1
      BY <1>1, <3>1
    <3>2. CASE i # 1
      <4>1. i - 1 \in 1..(Len(q) - 1) /\ (i - 1) + 1 = i
        BY <1>1, <3>2
      <4>2. Tail(q)[i - 1] = q[i] /\ i - 1 \in 1..Len(Tail(q))
        BY <1>1, <4>1
      <4> QED
        BY <4>2 DEF Elems
    <3> QED
      BY <3>1, <3>2
  <2>2. ASSUME NEW i \in 1..(Len(q) - 1)
        PROVE  Tail(q)[i] \in Elems(q)
    BY <1>1 DEF Elems
  <2>3. Head(q) \in Elems(q)
    BY <1>1 DEF Elems
  <2> QED
    BY <1>1, <2>1, <2>2, <2>3 DEF Elems
<1>3. Distinct(q) => Distinct(Tail(q)) /\ Head(q) \notin Elems(Tail(q))
  BY <1>1 DEF Elems, Distinct
<1> QED
  BY <1>1, <1>2, <1>3

Names == {"connectEstablished", "connectDestroyed", "remove"}

LEMMA FunctorNames ==
  /\ \A fn, gn, c, d : Functor(fn, c) = Functor(gn, d) <=> fn = gn /\ c = d
  /\ \A fn \in Names, c \in Conns : Functor(fn, c) \in Jobs /\ Functor(fn, c) # Listen
  /\ \A fn, c : Functor(fn, c).fn = fn /\ Functor(fn, c).of = c
  /\ \A f \in Jobs : f # Listen => f.fn \in Names /\ f.of \in Conns /\ f = Functor(f.fn, f.of)
  /\ Listen \in Jobs /\ Listen.of = 0 /\ Listen.fn = "listen"
<1>1. \A fn, c : Functor(fn, c).fn = fn /\ Functor(fn, c).of = c
  BY DEF Functor
<1>2. \A fn, gn, c, d : Functor(fn, c) = Functor(gn, d) <=> fn = gn /\ c = d
  BY <1>1 DEF Functor
<1>3. Listen \in Jobs /\ Listen.of = 0 /\ Listen.fn = "listen"
  BY DEF Listen, Jobs
<1>4. \A fn \in Names, c \in Conns : Functor(fn, c) \in Jobs /\ Functor(fn, c) # Listen
  <2> SUFFICES ASSUME NEW fn \in Names, NEW c \in Conns
               PROVE  Functor(fn, c) \in Jobs /\ Functor(fn, c) # Listen
    OBVIOUS
  <2>1. Functor(fn, c) \in Functors
    BY DEF Functor, Functors, Names
  <2>2. c # 0
    BY DEF Conns
  <2> QED
    BY <1>1, <1>3, <2>1, <2>2 DEF Jobs
<1>5. \A f \in Jobs : f # Listen => f.fn \in Names /\ f.of \in Conns /\ f = Functor(f.fn, f.of)
  BY DEF Jobs, Functors, Functor, Names
<1> QED
  BY <1>1, <1>2, <1>3, <1>4, <1>5

\* Functors of two connections differ.
LEMMA FunctorsApart ==
  \A fn, gn, c, d : c # d => Functor(fn, c) # Functor(gn, d)
BY FunctorNames

(***************************************************************************)
(* What a step does to the functors that are due.                          *)
(***************************************************************************)

LEMMA QueueTypes ==
  ASSUME TypeOK
  PROVE  /\ \A l \in Loops : pending[l] \in Seq(Jobs) /\ batch[l] \in Seq(Jobs)
         /\ \A l \in Loops : Elems(pending[l]) \subseteq Jobs /\ Elems(batch[l]) \subseteq Jobs
         /\ numThreads_ \in Nat /\ Base \in Loops /\ Loops \subseteq Nat
<1>1. \A l \in Loops : pending[l] \in Seq(Jobs) /\ batch[l] \in Seq(Jobs)
  BY DEF TypeOK, Jobs
<1>2. \A l \in Loops : Elems(pending[l]) \subseteq Jobs /\ Elems(batch[l]) \subseteq Jobs
  BY <1>1 DEF Elems
<1>3. numThreads_ \in Nat
  BY ServerAssumption DEF TypeOK
<1> QED
  BY <1>1, <1>2, <1>3 DEF Loops, Base

\* The functors of a queue that a step appends f to.
LEMMA QueueDoes ==
  ASSUME TypeOK, NEW l \in Loops, NEW f \in Jobs, Queue(l, f)
  PROVE  /\ pending' \in [Loops -> Seq(Jobs)]
         /\ \A m \in Loops : Elems(pending'[m]) = Elems(pending[m]) \cup (IF m = l THEN {f} ELSE {})
         /\ \A m \in Loops : m # l => pending'[m] = pending[m]
         /\ \A m \in Loops : Distinct(pending[m]) /\ (m = l => f \notin Elems(pending[m]))
                               => Distinct(pending'[m])
<1>1. pending \in [Loops -> Seq(Jobs)]
  BY DEF TypeOK, Jobs
<1>2. pending' = [pending EXCEPT ![l] = Append(pending[l], f)]
  BY DEF Queue
<1>3. pending[l] \in Seq(Jobs)
  BY <1>1
<1>4. /\ Append(pending[l], f) \in Seq(Jobs)
      /\ Elems(Append(pending[l], f)) = Elems(pending[l]) \cup {f}
      /\ Distinct(pending[l]) /\ f \notin Elems(pending[l]) => Distinct(Append(pending[l], f))
  BY <1>3, AppendQueue
<1>5. /\ pending'[l] = Append(pending[l], f)
      /\ \A m \in Loops : m # l => pending'[m] = pending[m]
      /\ pending' \in [Loops -> Seq(Jobs)]
  BY <1>1, <1>2, <1>4
<1> QED
  BY <1>4, <1>5, Zenon

\* Queueing f makes it due in loop l, and no other functor.
LEMMA QueueTodo ==
  ASSUME TypeOK, NEW l \in Loops, NEW f \in Jobs, Queue(l, f), UNCHANGED batch
  PROVE  /\ \A m \in Loops : Todo(m)' = Todo(m) \cup (IF m = l THEN {f} ELSE {})
         /\ \A m \in Loops : QueuedOnce(m) /\ (m = l => f \notin Todo(m)) => QueuedOnce(m)'
         /\ \A m \in Loops, c \in Conns :
              c \in ConnsOf(pending'[m]) <=> c \in ConnsOf(pending[m]) \/ (m = l /\ c = f.of)
<1>1. \A m \in Loops : Elems(pending'[m]) = Elems(pending[m]) \cup (IF m = l THEN {f} ELSE {})
  BY QueueDoes, Zenon
<1>2. \A m \in Loops : Todo(m)' = Todo(m) \cup (IF m = l THEN {f} ELSE {})
  BY <1>1 DEF Todo
<1>3. \A m \in Loops : QueuedOnce(m) /\ (m = l => f \notin Todo(m)) => QueuedOnce(m)'
  <2> SUFFICES ASSUME NEW m \in Loops, QueuedOnce(m), m = l => f \notin Todo(m)
               PROVE  QueuedOnce(m)'
    OBVIOUS
  <2>1. m = l => f \notin Elems(pending[m]) /\ f \notin Elems(batch[m])
    BY DEF Todo
  <2>2. Distinct(pending'[m])
    BY <2>1, QueueDoes DEF QueuedOnce
  <2> QED
    BY <1>1, <2>1, <2>2 DEF QueuedOnce
<1>4. ASSUME NEW m \in Loops, NEW c \in Conns
      PROVE  c \in ConnsOf(pending'[m]) <=> c \in ConnsOf(pending[m]) \/ (m = l /\ c = f.of)
  <2>1. pending[m] \in Seq(Jobs) /\ pending'[m] \in Seq(Jobs)
    BY QueueDoes, QueueTypes
  <2>2. /\ c \in ConnsOf(pending[m]) <=> \E g \in Elems(pending[m]) : g.of = c
        /\ c \in ConnsOf(pending'[m]) <=> \E g \in Elems(pending'[m]) : g.of = c
    BY <2>1, QueueConns
  <2> QED
    BY <1>1, <2>2
<1> QED
  BY <1>2, <1>3, <1>4

LEMMA QueueDue ==
  ASSUME TypeOK, NEW l \in Loops, NEW gn \in Names, NEW d \in Conns,
         Queue(l, Functor(gn, d)), UNCHANGED batch
  PROVE  /\ \A m \in Loops : \A fn, c : Due(m, fn, c)' <=> Due(m, fn, c) \/ (m = l /\ fn = gn /\ c = d)
         /\ \A m \in Loops : (Listen \in Todo(m))' <=> Listen \in Todo(m)
         /\ \A m \in Loops : QueuedOnce(m) /\ (m = l => ~Due(m, gn, d)) => QueuedOnce(m)'
         /\ \A m \in Loops, c \in Conns :
              c \in ConnsOf(pending'[m]) <=> c \in ConnsOf(pending[m]) \/ (m = l /\ c = d)
<1> DEFINE f == Functor(gn, d)
<1>1. f \in Jobs /\ f # Listen /\ f.of = d
  BY FunctorNames
<1>2. \A m \in Loops : Todo(m)' = Todo(m) \cup (IF m = l THEN {f} ELSE {})
  BY <1>1, QueueTodo
<1>3. \A m \in Loops : (Listen \in Todo(m))' <=> Listen \in Todo(m)
  BY <1>1, <1>2
<1>4. \A m \in Loops : \A fn, c : Due(m, fn, c)' <=> Due(m, fn, c) \/ (m = l /\ fn = gn /\ c = d)
  BY <1>2, FunctorNames DEF Due
<1> QED
  BY <1>1, <1>3, <1>4, QueueTodo DEF Due

\* The step from one functor of a batch to the next.
LEMMA PopDoes ==
  ASSUME TypeOK, NEW l \in Loops, batch[l] # <<>>, batch' = [batch EXCEPT ![l] = Tail(@)]
  PROVE  /\ batch' \in [Loops -> Seq(Jobs)] /\ Head(batch[l]) \in Jobs
         /\ \A m \in Loops : m # l => batch'[m] = batch[m]
         /\ Elems(batch[l]) = Elems(batch'[l]) \cup {Head(batch[l])}
         /\ Distinct(batch[l]) => Distinct(batch'[l]) /\ Head(batch[l]) \notin Elems(batch'[l])
         /\ \A m \in Loops : batch'[m] # <<>> => batch[m] # <<>>
         /\ \A m \in Loops, c \in Conns : c \in ConnsOf(batch'[m]) => c \in ConnsOf(batch[m])
<1>1. batch \in [Loops -> Seq(Jobs)]
  BY DEF TypeOK, Jobs
<1>2. batch[l] \in Seq(Jobs)
  BY <1>1
<1>3. /\ Tail(batch[l]) \in Seq(Jobs) /\ Head(batch[l]) \in Jobs
      /\ Elems(batch[l]) = Elems(Tail(batch[l])) \cup {Head(batch[l])}
      /\ Distinct(batch[l]) => Distinct(Tail(batch[l])) /\ Head(batch[l]) \notin Elems(Tail(batch[l]))
  BY <1>2, TailQueue
<1>4. /\ batch'[l] = Tail(batch[l]) /\ batch' \in [Loops -> Seq(Jobs)]
      /\ \A m \in Loops : m # l => batch'[m] = batch[m]
  BY <1>1, <1>3
<1>5. ASSUME NEW m \in Loops, NEW c \in Conns, c \in ConnsOf(batch'[m])
      PROVE  c \in ConnsOf(batch[m])
  <2>1. Elems(batch'[m]) \subseteq Elems(batch[m])
    BY <1>3, <1>4
  <2>2. batch[m] \in Seq(Jobs) /\ batch'[m] \in Seq(Jobs)
    BY <1>1, <1>4
  <2>3. /\ c \in ConnsOf(batch[m]) <=> \E g \in Elems(batch[m]) : g.of = c
        /\ c \in ConnsOf(batch'[m]) <=> \E g \in Elems(batch'[m]) : g.of = c
    BY <2>2, QueueConns, Zenon
  <2> QED
    BY <1>5, <2>1, <2>3
<1> QED
  BY <1>3, <1>4, <1>5

\* A functor that is taken from the batch was due, and is not any more if it was due once.
LEMMA PopDue ==
  ASSUME TypeOK, NEW l \in Loops, batch[l] # <<>>, batch' = [batch EXCEPT ![l] = Tail(@)],
         UNCHANGED pending
  PROVE  /\ \A m \in Loops : \A fn, c : Due(m, fn, c)' => Due(m, fn, c)
         /\ \A m \in Loops : (Listen \in Todo(m))' => Listen \in Todo(m)
         /\ \A m \in Loops : \A fn, c : Due(m, fn, c) /\ ~(m = l /\ Head(batch[l]) = Functor(fn, c))
                                      => Due(m, fn, c)'
         /\ Head(batch[l]) \in Todo(l)
         /\ QueuedOnce(l) => Head(batch[l]) \notin Todo(l)'
         /\ \A m \in Loops : QueuedOnce(m) => QueuedOnce(m)'
<1>1. /\ \A m \in Loops : m # l => batch'[m] = batch[m]
      /\ Elems(batch[l]) = Elems(batch'[l]) \cup {Head(batch[l])}
      /\ Distinct(batch[l]) => Distinct(batch'[l]) /\ Head(batch[l]) \notin Elems(batch'[l])
  BY PopDoes, Zenon
<1>2. \A m \in Loops : m # l => Todo(m)' = Todo(m)
  BY <1>1 DEF Todo
<1>3. Todo(l)' \subseteq Todo(l) /\ Todo(l) = Todo(l)' \cup {Head(batch[l])}
  BY <1>1 DEF Todo
<1>4. QueuedOnce(l) => Head(batch[l]) \notin Todo(l)'
  BY <1>1 DEF Todo, QueuedOnce
<1>5. ASSUME NEW m \in Loops, QueuedOnce(m)
      PROVE  QueuedOnce(m)'
  BY <1>1, <1>5 DEF QueuedOnce
<1>6. \A m \in Loops : \A fn, c : Due(m, fn, c)' => Due(m, fn, c)
  BY <1>2, <1>3 DEF Due
<1>7. \A m \in Loops : \A fn, c : Due(m, fn, c) /\ ~(m = l /\ Head(batch[l]) = Functor(fn, c))
                                => Due(m, fn, c)'
  BY <1>2, <1>3 DEF Due
<1> QED
  BY <1>2, <1>3, <1>4, <1>5, <1>6, <1>7

(***************************************************************************)
(* The parts of the invariant that many steps leave alone.                 *)
(***************************************************************************)

\* The queues, the connections and what holds them do not change.
Still == UNCHANGED <<connVars, pending, batch, held, failed>>

LEMMA StillQueues ==
  ASSUME ServerInv, Still, started_ => started_', Orderly' => Orderly, UNCHANGED phase
  PROVE  BatchInv' /\ RouteInv' /\ OrderInv'
<1>1. UNCHANGED <<numThreads_, conn, ioLoop, nextConnId_, connections_, pending, batch, held, failed, phase>>
  BY DEF Still, connVars
<1>2. BatchInv'
  BY <1>1 DEF ServerInv, BatchInv, Loops, ConnsOf
<1>3. \A l \in Loops : Todo(l)' = Todo(l)
  BY <1>1 DEF Todo
<1>4. Loops' = Loops
  BY <1>1 DEF Loops
<1>5. RouteInv'
  BY <1>1, <1>3, <1>4 DEF ServerInv, RouteInv, Due
<1>6. \A l : QueuedOnce(l)' <=> QueuedOnce(l)
  BY <1>1 DEF QueuedOnce
<1>7. \A c : Life(c)' <=> Life(c)
  BY <1>1 DEF Life, Due, Todo
<1>8. OrderInv'
  BY <1>1, <1>4, <1>6, <1>7 DEF ServerInv, OrderInv
<1> QED
  BY <1>2, <1>5, <1>8

LEMMA StillOpen ==
  ASSUME Still
  PROVE  Open' = Open
<1>1. UNCHANGED <<numThreads_, conn, connections_, pending, held>>
  BY DEF Still, connVars
<1>2. Loops' = Loops
  BY <1>1 DEF Loops
<1>3. \A c : Referenced(c)' <=> Referenced(c)
  BY <1>1, <1>2 DEF Referenced
<1> QED
  BY <1>1, <1>3 DEF Open

\* Descriptors are counted by a number, which does not grow when connections go.
LEMMA OpenCount ==
  ASSUME TRUE
  PROVE  /\ IsFiniteSet(Conns) /\ IsFiniteSet(Open)
         /\ Cardinality(Open) \in Nat
         /\ \A S : S \subseteq Open => Cardinality(S) \in Nat /\ Cardinality(S) <= Cardinality(Open)
<1>1. IsFiniteSet(Conns)
  BY ServerAssumption, FS_Interval DEF Conns
<1>2. IsFiniteSet(Open)
  BY <1>1, FS_Subset DEF Open
<1> QED
  BY <1>1, <1>2, FS_Subset, FS_CardinalityType

\* A step that opens nothing leaves room for the idle descriptor.
LEMMA FewerOpen ==
  ASSUME ServerInv, Open' \subseteq Open, UNCHANGED <<opened, acceptor, idleFd_>>,
         dtor' = "none" => dtor = "none"
  PROVE  IdleInv'
<1>1. /\ Cardinality(Open) \in Nat /\ Cardinality(Open') \in Nat
      /\ Cardinality(Open') <= Cardinality(Open)
  BY OpenCount
<1>2. Cardinality(Open)' = Cardinality(Open')
  OBVIOUS
<1>3. FdLimit \in Nat
  BY ServerAssumption
<1> QED
  BY <1>1, <1>2, <1>3 DEF ServerInv, IdleInv

(***************************************************************************)
(* The steps that leave the connections and their functors alone.          *)
(***************************************************************************)
LEMMA AcceptFailsInv ==
  ASSUME ServerInv, AcceptFails
  PROVE  ServerInv'
<1>1. /\ Still /\ UNCHANGED <<started_, listenning_, others, opened, backlog, arrived, phase, quit_, dtor, current>>
      /\ acceptor = "idle" /\ dtor = "none" /\ idleFd_' = "none" /\ acceptor' = "closed"
  BY DEF AcceptFails, Acceptable, BaseFree, Still, acceptVars, connVars, loopVars
<1>2. TypeOK /\ AcceptInv /\ DtorInv /\ IdleInv
  BY DEF ServerInv
<1>3. UNCHANGED <<numThreads_, conn, ioLoop, nextConnId_, next_, connections_, pending, batch, held, failed>>
  BY <1>1 DEF Still, connVars
<1>4. BatchInv' /\ RouteInv' /\ OrderInv'
  BY <1>1, <1>3, StillQueues DEF Orderly
<1>5. TypeOK'
  BY <1>1, <1>2, <1>3 DEF TypeOK, Loops
<1>6. AcceptInv'
  BY <1>1, <1>2, <1>3 DEF AcceptInv, TypeOK
<1>7. DtorInv'
  BY <1>1, <1>2, <1>3 DEF DtorInv, AcceptInv, TypeOK, Loops
<1>8. IdleInv'
  BY <1>1, <1>2, StillOpen DEF IdleInv
<1> QED
  BY <1>4, <1>5, <1>6, <1>7, <1>8 DEF ServerInv

LEMMA AcceptIdleInv ==
  ASSUME ServerInv, AcceptIdle
  PROVE  ServerInv'
<1>1. /\ Still /\ UNCHANGED <<started_, listenning_, others, opened, arrived, phase, quit_, dtor, current>>
      /\ acceptor = "closed" /\ acceptor' = "accepted" /\ idleFd_' \in {"conn", "none"}
      /\ backlog' = backlog \/ (backlog > 0 /\ backlog' = backlog - 1)
  BY DEF AcceptIdle, Still, acceptVars, connVars, loopVars
<1>2. TypeOK /\ AcceptInv /\ DtorInv /\ IdleInv
  BY DEF ServerInv
<1>3. UNCHANGED <<numThreads_, conn, ioLoop, nextConnId_, next_, connections_, pending, batch, held, failed>>
  BY <1>1 DEF Still, connVars
<1>4. BatchInv' /\ RouteInv' /\ OrderInv'
  BY <1>1, <1>3, StillQueues DEF Orderly
<1>5. TypeOK'
  <2>1. backlog' \in 0..MaxConns
    BY <1>1, <1>2, ServerAssumption DEF TypeOK, AcceptInv, DtorInv
  <2> QED
    BY <1>1, <1>2, <1>3, <2>1 DEF TypeOK, Loops
<1>6. AcceptInv'
  BY <1>1, <1>2, <1>3 DEF AcceptInv, TypeOK
<1>7. DtorInv'
  BY <1>1, <1>2, <1>3 DEF DtorInv, AcceptInv, TypeOK, Loops
<1>8. IdleInv'
  BY <1>1, <1>2, StillOpen DEF IdleInv
<1> QED
  BY <1>4, <1>5, <1>6, <1>7, <1>8 DEF ServerInv

LEMMA CloseIdleInv ==
  ASSUME ServerInv, CloseIdle
  PROVE  ServerInv'
<1>1. /\ Still /\ UNCHANGED <<started_, listenning_, others, opened, backlog, arrived, phase, quit_, dtor, current>>
      /\ acceptor = "accepted" /\ acceptor' = "reopen" /\ idleFd_' = "none"
  BY DEF CloseIdle, Still, acceptVars, connVars, loopVars
<1>2. TypeOK /\ AcceptInv /\ DtorInv /\ IdleInv
  BY DEF ServerInv
<1>3. UNCHANGED <<numThreads_, conn, ioLoop, nextConnId_, next_, connections_, pending, batch, held, failed>>
  BY <1>1 DEF Still, connVars
<1>4. BatchInv' /\ RouteInv' /\ OrderInv'
  BY <1>1, <1>3, StillQueues DEF Orderly
<1>5. TypeOK'
  BY <1>1, <1>2, <1>3, Zenon DEF TypeOK, Loops
<1>6. AcceptInv'
  BY <1>1, <1>2, <1>3 DEF AcceptInv, TypeOK
<1>7. DtorInv'
  BY <1>1, <1>2, <1>3 DEF DtorInv, AcceptInv, TypeOK, Loops
<1>8. IdleInv'
  BY <1>1, <1>2, StillOpen DEF IdleInv
<1> QED
  BY <1>4, <1>5, <1>6, <1>7, <1>8 DEF ServerInv

LEMMA ReopenIdleInv ==
  ASSUME ServerInv, ReopenIdle
  PROVE  ServerInv'
<1>1. /\ Still /\ UNCHANGED <<started_, listenning_, others, opened, backlog, arrived, phase, quit_, dtor, current>>
      /\ acceptor = "reopen" /\ acceptor' = "idle" /\ idleFd_' = IF FreeFd THEN "null" ELSE "none"
  BY DEF ReopenIdle, Still, acceptVars, connVars, loopVars
<1>2. TypeOK /\ AcceptInv /\ DtorInv /\ IdleInv
  BY DEF ServerInv
<1>3. UNCHANGED <<numThreads_, conn, ioLoop, nextConnId_, next_, connections_, pending, batch, held, failed>>
  BY <1>1 DEF Still, connVars
<1>4. BatchInv' /\ RouteInv' /\ OrderInv'
  BY <1>1, <1>3, StillQueues DEF Orderly
<1>5. TypeOK'
  BY <1>1, <1>2, <1>3 DEF TypeOK, Loops
<1>6. AcceptInv'
  BY <1>1, <1>2, <1>3 DEF AcceptInv, TypeOK
<1>7. DtorInv'
  BY <1>1, <1>2, <1>3 DEF DtorInv, AcceptInv, TypeOK, Loops
<1>8. IdleInv'
  <2>1. opened = 0 /\ dtor = "none" => FreeFd
    <3>1. Cardinality(Open) \in Nat
      BY OpenCount
    <3>2. opened = 0 => others = 0
      BY <1>2 DEF TypeOK
    <3> QED
      BY <1>1, <1>2, <3>1, <3>2 DEF IdleInv, FreeFd, Fds, Open
  <2> QED
    BY <1>1, <1>2, <2>1, StillOpen DEF IdleInv
<1> QED
  BY <1>4, <1>5, <1>6, <1>7, <1>8 DEF ServerInv

LEMMA PeerConnectsInv ==
  ASSUME ServerInv, PeerConnects
  PROVE  ServerInv'
<1>1. /\ Still /\ UNCHANGED <<started_, listenning_, acceptor, idleFd_, others, opened, phase, quit_, dtor, current>>
      /\ dtor = "none" /\ arrived < MaxConns /\ arrived' = arrived + 1 /\ backlog' = backlog + 1
  BY DEF PeerConnects, Still, acceptVars, connVars, loopVars
<1>2. TypeOK /\ AcceptInv /\ DtorInv /\ IdleInv
  BY DEF ServerInv
<1>3. UNCHANGED <<numThreads_, conn, ioLoop, nextConnId_, next_, connections_, pending, batch, held, failed>>
  BY <1>1 DEF Still, connVars
<1>4. BatchInv' /\ RouteInv' /\ OrderInv'
  BY <1>1, <1>3, StillQueues DEF Orderly
<1>5. TypeOK'
  <2>1. arrived' \in 0..MaxConns /\ backlog' \in 0..MaxConns
    BY <1>1, <1>2, ServerAssumption DEF TypeOK, AcceptInv, DtorInv
  <2> QED
    BY <1>1, <1>2, <1>3, <2>1 DEF TypeOK, Loops
<1>6. AcceptInv'
  BY <1>1, <1>2, <1>3, ServerAssumption DEF AcceptInv, TypeOK
<1>7. DtorInv'
  BY <1>1, <1>2, <1>3, ServerAssumption DEF DtorInv, AcceptInv, TypeOK, Loops
<1>8. IdleInv'
  BY <1>1, StillOpen, FewerOpen
<1> QED
  BY <1>4, <1>5, <1>6, <1>7, <1>8 DEF ServerInv

LEMMA PeerAbortsInv ==
  ASSUME ServerInv, PeerAborts
  PROVE  ServerInv'
<1>1. /\ Still /\ UNCHANGED <<started_, listenning_, acceptor, idleFd_, others, opened, arrived, phase, quit_,
                              dtor, current>>
      /\ backlog > 0 /\ backlog' = backlog - 1
  BY DEF PeerAborts, Still, acceptVars, connVars, loopVars
<1>2. TypeOK /\ AcceptInv /\ DtorInv /\ IdleInv
  BY DEF ServerInv
<1>3. UNCHANGED <<numThreads_, conn, ioLoop, nextConnId_, next_, connections_, pending, batch, held, failed>>
  BY <1>1 DEF Still, connVars
<1>4. BatchInv' /\ RouteInv' /\ OrderInv'
  BY <1>1, <1>3, StillQueues DEF Orderly
<1>5. TypeOK'
  BY <1>1, <1>2, <1>3, ServerAssumption DEF TypeOK, Loops
<1>6. AcceptInv'
  BY <1>1, <1>2, <1>3, ServerAssumption DEF AcceptInv, TypeOK
<1>7. DtorInv'
  BY <1>1, <1>2, <1>3, ServerAssumption DEF DtorInv, AcceptInv, TypeOK, Loops
<1>8. IdleInv'
  BY <1>1, StillOpen, FewerOpen
<1> QED
  BY <1>4, <1>5, <1>6, <1>7, <1>8 DEF ServerInv

LEMMA OtherFdInv ==
  ASSUME ServerInv, OtherFd
  PROVE  ServerInv'
<1>1. /\ Still /\ UNCHANGED <<started_, listenning_, acceptor, idleFd_, backlog, arrived, phase, quit_, dtor, current>>
      /\ \/ opened < MaxOpens /\ others' = others + 1 /\ opened' = opened + 1
         \/ others > 0 /\ others' = others - 1 /\ opened' = opened
  BY DEF OtherFd, Still, acceptVars, connVars, loopVars
<1>2. TypeOK /\ AcceptInv /\ DtorInv /\ IdleInv
  BY DEF ServerInv
<1>3. UNCHANGED <<numThreads_, conn, ioLoop, nextConnId_, next_, connections_, pending, batch, held, failed>>
  BY <1>1 DEF Still, connVars
<1>4. BatchInv' /\ RouteInv' /\ OrderInv'
  BY <1>1, <1>3, StillQueues DEF Orderly
<1>5. TypeOK'
  <2>1. others' \in 0..opened' /\ opened' \in 0..MaxOpens
    BY <1>1, <1>2, ServerAssumption DEF TypeOK, AcceptInv, DtorInv
  <2> QED
    BY <1>1, <1>2, <1>3, <2>1 DEF TypeOK, Loops
<1>6. AcceptInv'
  BY <1>1, <1>2, <1>3, ServerAssumption DEF AcceptInv, TypeOK
<1>7. DtorInv'
  BY <1>1, <1>2, <1>3, ServerAssumption DEF DtorInv, AcceptInv, TypeOK, Loops
<1>8. IdleInv'
  BY <1>1, <1>2, StillOpen DEF IdleInv, TypeOK
<1> QED
  BY <1>4, <1>5, <1>6, <1>7, <1>8 DEF ServerInv

LEMMA DestroyInv ==
  ASSUME ServerInv, Destroy
  PROVE  ServerInv'
<1>1. /\ Still /\ UNCHANGED <<started_, listenning_, acceptor, idleFd_, others, opened, backlog, arrived,
                              phase, quit_, current>>
      /\ acceptor = "idle" /\ dtor = "none" /\ dtor' = "conns"
  BY DEF Destroy, BaseFree, Still, acceptVars, connVars, loopVars
<1>2. TypeOK /\ AcceptInv /\ DtorInv /\ IdleInv
  BY DEF ServerInv
<1>3. UNCHANGED <<numThreads_, conn, ioLoop, nextConnId_, next_, connections_, pending, batch, held, failed>>
  BY <1>1 DEF Still, connVars
<1>4. BatchInv' /\ RouteInv' /\ OrderInv'
  BY <1>1, <1>3, StillQueues DEF Orderly
<1>5. TypeOK'
  BY <1>1, <1>2, <1>3 DEF TypeOK, Loops
<1>6. AcceptInv'
  BY <1>1, <1>2, <1>3 DEF AcceptInv, TypeOK
<1>7. DtorInv'
  BY <1>1, <1>2, <1>3 DEF DtorInv, AcceptInv, TypeOK, Loops
<1>8. IdleInv'
  BY <1>1, StillOpen, FewerOpen
<1> QED
  BY <1>4, <1>5, <1>6, <1>7, <1>8 DEF ServerInv

LEMMA DtorThreadsInv ==
  ASSUME ServerInv, DtorThreads
  PROVE  ServerInv'
<1>1. /\ Still /\ UNCHANGED <<started_, acceptor, others, opened, arrived, phase, quit_, current>>
      /\ dtor = "conns" /\ connections_ = {} /\ DtorMember(current)
      /\ dtor' \in {"quit", "gone"} /\ idleFd_' \in {idleFd_, "none"} /\ backlog' \in {backlog, 0}
      /\ listenning_' => listenning_
  BY DEF DtorThreads, DtorMember, Still, acceptVars, connVars, loopVars
<1>2. TypeOK /\ AcceptInv /\ DtorInv /\ IdleInv
  BY DEF ServerInv
<1>3. UNCHANGED <<numThreads_, conn, ioLoop, nextConnId_, next_, connections_, pending, batch, held, failed>>
  BY <1>1 DEF Still, connVars
<1>4. BatchInv' /\ RouteInv' /\ OrderInv'
  BY <1>1, <1>3, StillQueues DEF Orderly
<1>5. TypeOK'
  <2>0. listenning_' \in BOOLEAN
    <3>1. listenning_ \in BOOLEAN
      BY <1>2 DEF TypeOK
    <3> QED
      BY <1>1, <3>1, Zenon DEF DtorMember
  <2>1. backlog' \in 0..MaxConns
    BY <1>1, <1>2, ServerAssumption DEF TypeOK, AcceptInv, DtorInv
  <2> QED
    BY <1>1, <1>2, <1>3, <2>0, <2>1 DEF TypeOK, Loops
<1>6. AcceptInv'
  <2>1. nextConnId_ \in Nat /\ arrived \in Nat /\ backlog \in Nat /\ nextConnId_ + backlog <= arrived + 1
    BY <1>2, ServerAssumption DEF TypeOK, AcceptInv
  <2>2. nextConnId_' + backlog' <= arrived' + 1
    <3>1. nextConnId_ + 0 <= arrived + 1
      BY <2>1
    <3>2. UNCHANGED <<nextConnId_, arrived>> /\ backlog' \in {backlog, 0}
      BY <1>1, <1>3
    <3> QED
      BY <2>1, <3>1, <3>2, Zenon
  <2>3. listenning_' => started_'
    BY <1>1, <1>2, Zenon DEF AcceptInv
  <2> QED
    BY <1>1, <1>2, <1>3, <2>2, <2>3, Zenon DEF AcceptInv
<1>7. DtorInv'
  BY <1>1, <1>2, <1>3, QueueTypes DEF DtorInv, DtorMember, Loops
<1>8. IdleInv'
  BY <1>1 DEF IdleInv
<1> QED
  BY <1>4, <1>5, <1>6, <1>7, <1>8 DEF ServerInv

LEMMA DtorQuitInv ==
  ASSUME ServerInv, DtorQuit
  PROVE  ServerInv'
<1>1. /\ Still /\ UNCHANGED <<started_, listenning_, acceptor, idleFd_, others, opened, backlog, arrived,
                              phase, current>>
      /\ dtor = "quit" /\ dtor' = "join" /\ quit_' = [quit_ EXCEPT ![current] = TRUE]
  BY DEF DtorQuit, Still, acceptVars, connVars, loopVars
<1>2. TypeOK /\ AcceptInv /\ DtorInv /\ IdleInv
  BY DEF ServerInv
<1>3. UNCHANGED <<numThreads_, conn, ioLoop, nextConnId_, next_, connections_, pending, batch, held, failed>>
  BY <1>1 DEF Still, connVars
<1>4. BatchInv' /\ RouteInv' /\ OrderInv'
  BY <1>1, <1>3, StillQueues DEF Orderly
<1>5. TypeOK'
  BY <1>1, <1>2, <1>3, Zenon DEF TypeOK, Loops
<1>6. AcceptInv'
  BY <1>1, <1>2, <1>3 DEF AcceptInv, TypeOK
<1>7. DtorInv'
  <2>1. \A l \in Loops : quit_'[l] = IF l = current THEN TRUE ELSE quit_[l]
    BY <1>1, <1>2 DEF TypeOK
  <2>2. current # Base
    BY <1>1, <1>2 DEF DtorInv, Base
  <2> QED
    BY <1>1, <1>2, <1>3, <2>1, <2>2 DEF DtorInv, Loops
<1>8. IdleInv'
  BY <1>1 DEF IdleInv
<1> QED
  BY <1>4, <1>5, <1>6, <1>7, <1>8 DEF ServerInv

LEMMA DtorJoinInv ==
  ASSUME ServerInv, DtorJoin
  PROVE  ServerInv'
<1>1. /\ Still /\ UNCHANGED <<started_, acceptor, others, opened, arrived, phase, quit_>>
      /\ dtor = "join" /\ phase[current] = "exited" /\ current' = current + 1 /\ DtorMember(current + 1)
      /\ dtor' \in {"quit", "gone"} /\ idleFd_' \in {idleFd_, "none"} /\ backlog' \in {backlog, 0}
      /\ listenning_' => listenning_
  BY DEF DtorJoin, DtorMember, Still, acceptVars, connVars, loopVars
<1>2. TypeOK /\ AcceptInv /\ DtorInv /\ IdleInv
  BY DEF ServerInv
<1>3. UNCHANGED <<numThreads_, conn, ioLoop, nextConnId_, next_, connections_, pending, batch, held, failed>>
  BY <1>1 DEF Still, connVars
<1>4. BatchInv' /\ RouteInv' /\ OrderInv'
  BY <1>1, <1>3, StillQueues DEF Orderly
<1>5. TypeOK'
  <2>0. listenning_' \in BOOLEAN
    <3>1. listenning_ \in BOOLEAN
      BY <1>2 DEF TypeOK
    <3> QED
      BY <1>1, <3>1, Zenon DEF DtorMember
  <2>1. current' \in 1..numThreads_ + 1 /\ backlog' \in 0..MaxConns
    BY <1>1, <1>2, ServerAssumption DEF TypeOK, AcceptInv, DtorInv
  <2> QED
    BY <1>1, <1>2, <1>3, <2>0, <2>1 DEF TypeOK, Loops
<1>6. AcceptInv'
  <2>1. nextConnId_ \in Nat /\ arrived \in Nat /\ backlog \in Nat /\ nextConnId_ + backlog <= arrived + 1
    BY <1>2, ServerAssumption DEF TypeOK, AcceptInv
  <2>2. nextConnId_' + backlog' <= arrived' + 1
    <3>1. nextConnId_ + 0 <= arrived + 1
      BY <2>1
    <3>2. UNCHANGED <<nextConnId_, arrived>> /\ backlog' \in {backlog, 0}
      BY <1>1, <1>3
    <3> QED
      BY <2>1, <3>1, <3>2, Zenon
  <2>3. listenning_' => started_'
    BY <1>1, <1>2, Zenon DEF AcceptInv
  <2> QED
    BY <1>1, <1>2, <1>3, <2>2, <2>3, Zenon DEF AcceptInv
<1>7. DtorInv'
  <2>1. numThreads_ \in Nat /\ current \in 1..numThreads_ /\ started_
    BY <1>1, <1>2, QueueTypes DEF DtorInv
  <2>2. dtor' = "quit" => current' \in 1..numThreads_
    BY <1>1, <2>1 DEF DtorMember
  <2>3. dtor' = "gone" => current' = numThreads_ + 1
    BY <1>1, <2>1 DEF DtorMember
  <2>4. \A l \in Loops : l \in 1..current' - 1 => phase[l] = "exited"
    <3> SUFFICES ASSUME NEW l \in Loops, l \in 1..current
                 PROVE  phase[l] = "exited"
      BY <1>1, <2>1
    <3>1. l = current \/ l \in 1..current - 1
      BY <2>1
    <3> QED
      BY <1>1, <1>2, <3>1 DEF DtorInv
  <2> QED
    BY <1>1, <1>2, <1>3, <2>1, <2>2, <2>3, <2>4 DEF DtorInv, Loops
<1>8. IdleInv'
  BY <1>1 DEF IdleInv
<1> QED
  BY <1>4, <1>5, <1>6, <1>7, <1>8 DEF ServerInv

(***************************************************************************)
(* The steps that queue or run functors.                                   *)
(***************************************************************************)

\* A connection that a step leaves alone goes on as before.
LEMMA LifeFrame ==
  ASSUME TypeOK, NEW c \in Conns, Life(c), conn'[c] = conn[c], ioLoop'[c] = ioLoop[c],
         c \in connections_' <=> c \in connections_,
         \A m \in Loops, fn \in Names : Due(m, fn, c)' <=> Due(m, fn, c)
  PROVE  Life(c)'
<1>1. ioLoop[c] \in Loops /\ Base \in Loops
  BY QueueTypes, Zenon DEF TypeOK
<1>2. /\ Due(ioLoop[c], "connectEstablished", c)' <=> Due(ioLoop[c], "connectEstablished", c)
      /\ Due(ioLoop[c], "connectDestroyed", c)' <=> Due(ioLoop[c], "connectDestroyed", c)
      /\ Due(Base, "remove", c)' <=> Due(Base, "remove", c)
  BY <1>1 DEF Names, Due
<1> QED
  BY <1>2, Zenon DEF Life

\* A step refers to no connection that nobody referred to.
LEMMA NoMoreOpen ==
  ASSUME ServerInv, UNCHANGED <<numThreads_, opened, acceptor, idleFd_>>,
         dtor' = "none" => dtor = "none",
         dtor' = "none" => \A c \in Conns : conn'[c] # "none" /\ Referenced(c)' => conn[c] # "none" /\ Referenced(c)
  PROVE  IdleInv'
<1>1. CASE dtor' = "none"
  <2>1. Open' \subseteq Open
    BY <1>1 DEF Open
  <2> QED
    BY <2>1, FewerOpen
<1>2. CASE dtor' # "none"
  BY <1>2 DEF IdleInv
<1> QED
  BY <1>1, <1>2

LEMMA StartInv ==
  ASSUME ServerInv, Start
  PROVE  ServerInv'
<1>1. /\ ~started_ /\ dtor = "none" /\ started_'
      /\ UNCHANGED <<acceptor, idleFd_, others, opened, backlog, arrived, connVars, batch, held, phase, quit_,
                     dtor, current, failed>>
  BY DEF Start
<1>2. TypeOK /\ BatchInv /\ RouteInv /\ AcceptInv /\ DtorInv /\ OrderInv /\ IdleInv
  BY DEF ServerInv
<1>3. UNCHANGED <<numThreads_, conn, ioLoop, nextConnId_, next_, connections_>>
  BY <1>1 DEF connVars
<1>4. started_' \in BOOLEAN
  BY Zenon DEF Start
<1>5. Loops' = Loops /\ Base \in Loops
  BY <1>2, <1>3, QueueTypes DEF Loops
<1>6. CASE listenning_' = TRUE /\ UNCHANGED pending
  <2>1. Still
    BY <1>1, <1>6 DEF Still
  <2>2. BatchInv' /\ RouteInv' /\ OrderInv'
    BY <1>1, <2>1, StillQueues DEF Orderly, connVars
  <2>3. listenning_' \in BOOLEAN
    BY <1>6, Zenon
  <2>4. TypeOK'
    BY <1>1, <1>2, <1>3, <1>4, <1>5, <1>6, <2>3 DEF TypeOK
  <2>5. AcceptInv'
    BY <1>1, <1>2, <1>3 DEF AcceptInv
  <2>6. DtorInv'
    BY <1>1, <1>2, <1>3, <1>5, <1>6 DEF DtorInv
  <2>7. IdleInv'
    BY <1>1, <2>1, StillOpen, FewerOpen
  <2> QED
    BY <2>2, <2>4, <2>5, <2>6, <2>7 DEF ServerInv
<1>7. CASE Queue(Base, Listen) /\ UNCHANGED listenning_
  <2>1. Listen \in Jobs /\ Listen.of = 0
    BY FunctorNames
  <2>2. /\ \A m \in Loops : Todo(m)' = Todo(m) \cup (IF m = Base THEN {Listen} ELSE {})
        /\ \A m \in Loops : QueuedOnce(m) /\ (m = Base => Listen \notin Todo(m)) => QueuedOnce(m)'
        /\ \A m \in Loops, c \in Conns :
             c \in ConnsOf(pending'[m]) <=> c \in ConnsOf(pending[m]) \/ (m = Base /\ c = Listen.of)
    BY <1>1, <1>2, <1>5, <1>7, <2>1, QueueTodo, Zenon
  <2>3. \A m \in Loops, fn \in Names, c \in Conns : Due(m, fn, c)' <=> Due(m, fn, c)
    BY <2>2, FunctorNames DEF Due
  <2>4. pending' \in [Loops -> Seq(Jobs)] /\ \A m \in Loops : m # Base => pending'[m] = pending[m]
    BY <1>2, <1>5, <1>7, <2>1, QueueDoes
  <2>5. TypeOK'
    BY <1>1, <1>2, <1>3, <1>4, <1>5, <1>7, <2>4, Zenon DEF TypeOK, Jobs
  <2>6. BatchInv'
    BY <1>1, <1>2, <1>3, <1>5 DEF BatchInv
  <2>7. RouteInv'
    <3>1. \A m \in Loops : (Listen \in Todo(m))' => m = Base
      BY <1>2, <2>2 DEF RouteInv
    <3> QED
      BY <1>1, <1>2, <1>3, <1>5, <2>3, <3>1 DEF RouteInv, Names
  <2>8. AcceptInv'
    BY <1>1, <1>2, <1>3, <1>7 DEF AcceptInv
  <2>9. DtorInv'
    BY <1>1, <1>2, <1>3, <1>5, <2>4 DEF DtorInv
  <2>10. OrderInv'
    <3>1. \A m \in Loops : QueuedOnce(m) => QueuedOnce(m)'
      BY <1>1, <1>2, <2>2, Zenon DEF RouteInv
    <3>2. \A c \in Conns : Life(c) => Life(c)'
      BY <1>2, <1>3, <2>3, LifeFrame
    <3> QED
      BY <1>1, <1>2, <1>5, <3>1, <3>2 DEF OrderInv, Orderly
  <2>11. IdleInv'
    <3>1. \A m \in Loops, c \in Conns : c \in ConnsOf(pending'[m]) <=> c \in ConnsOf(pending[m])
      BY <2>1, <2>2 DEF Conns
    <3>2. \A c \in Conns : Referenced(c)' <=> Referenced(c)
      BY <1>1, <1>3, <1>5, <3>1, Zenon DEF Referenced
    <3> QED
      BY <1>1, <1>3, <3>2, NoMoreOpen, Zenon
  <2> QED
    BY <2>5, <2>6, <2>7, <2>8, <2>9, <2>10, <2>11 DEF ServerInv
<1> QED
  BY <1>6, <1>7, Zenon DEF Start

\* The next loop is a loop of the pool, and so is the one after it.
LEMMA LoopsInTurn ==
  ASSUME TypeOK, AcceptInv
  PROVE  /\ NextLoop \in Loops /\ NextAfter \in 0..numThreads_
         /\ NextAfter > 0 => NextAfter < numThreads_
<1>1. numThreads_ \in Nat /\ next_ \in Nat /\ (next_ > 0 => next_ < numThreads_)
  BY QueueTypes DEF TypeOK, AcceptInv
<1> QED
  BY <1>1 DEF NextLoop, NextAfter, Loops, Base

\* newConnection() gives the next number to a connection that was not there.
LEMMA NewConnection ==
  ASSUME ServerInv, backlog > 0
  PROVE  /\ nextConnId_ \in Conns /\ conn[nextConnId_] = "none" /\ nextConnId_ \notin connections_
         /\ \A l \in Loops : nextConnId_ \notin held[l]
         /\ \A l \in Loops, fn \in Names : ~Due(l, fn, nextConnId_)
<1>1. TypeOK /\ AcceptInv /\ BatchInv /\ RouteInv
  BY DEF ServerInv
<1>2. /\ nextConnId_ \in Nat \ {0} /\ arrived \in Nat /\ backlog \in Nat /\ MaxConns \in Nat
      /\ nextConnId_ + backlog <= arrived + 1 /\ arrived <= MaxConns
  BY <1>1, ServerAssumption DEF TypeOK, AcceptInv
<1>3. nextConnId_ \in Conns
  BY <1>2 DEF Conns
<1>4. \A c \in 1..nextConnId_ - 1 : c # nextConnId_
  BY <1>2
<1>5. ~(nextConnId_ < nextConnId_) /\ nextConnId_ >= nextConnId_
  BY <1>2
<1>6. conn[nextConnId_] = "none" /\ nextConnId_ \notin connections_
  BY <1>1, <1>3, <1>4, <1>5, Zenon DEF AcceptInv
<1>7. \A l \in Loops : nextConnId_ \notin held[l]
  BY <1>1, <1>4 DEF BatchInv
<1>8. \A l \in Loops, fn \in Names : ~Due(l, fn, nextConnId_)
  BY <1>1, <1>3, <1>5 DEF RouteInv, Names
<1> QED
  BY <1>3, <1>6, <1>7, <1>8

LEMMA AcceptSound ==
  ASSUME ServerInv, Accept
  PROVE  ServerInv'
<1>0. PICK d \in Conns, k \in Loops : d = nextConnId_ /\ k = NextLoop
  <2>1. backlog > 0
    BY DEF Accept, Acceptable
  <2> QED
    BY <2>1, NewConnection, LoopsInTurn DEF ServerInv
<1>1. /\ acceptor = "idle" /\ dtor = "none" /\ listenning_ /\ backlog > 0 /\ FreeFd
      /\ backlog' = backlog - 1 /\ nextConnId_' = d + 1 /\ next_' = NextAfter
      /\ ioLoop' = [ioLoop EXCEPT ![d] = k] /\ connections_' = connections_ \cup {d}
      /\ conn' = [conn EXCEPT ![d] = IF k = Base THEN "up" ELSE "made"]
      /\ IF k = Base THEN UNCHANGED pending ELSE Queue(k, Functor("connectEstablished", d))
      /\ UNCHANGED <<numThreads_, started_, listenning_, acceptor, idleFd_, others, opened, arrived, batch, held,
                     phase, quit_, dtor, current, failed>>
  BY <1>0 DEF Accept, Acceptable, BaseFree, newConnection
<1>2. TypeOK /\ BatchInv /\ RouteInv /\ AcceptInv /\ DtorInv /\ OrderInv /\ IdleInv
  BY DEF ServerInv
<1>3. /\ d \in Conns /\ conn[d] = "none" /\ d \notin connections_
      /\ \A l \in Loops : d \notin held[l]
      /\ \A l \in Loops, fn \in Names : ~Due(l, fn, d)
  BY <1>0, <1>1, NewConnection, Zenon
<1>4. NextAfter \in 0..numThreads_ /\ (NextAfter > 0 => NextAfter < numThreads_)
  BY <1>2, LoopsInTurn
<1>5. Loops' = Loops /\ Base \in Loops
  BY <1>1, <1>2, QueueTypes, Zenon DEF Loops
<1>6. /\ conn'[d] = (IF k = Base THEN "up" ELSE "made") /\ ioLoop'[d] = k
      /\ \A c \in Conns \ {d} : conn'[c] = conn[c] /\ ioLoop'[c] = ioLoop[c]
      /\ conn' \in [Conns -> {"none", "made", "up", "down", "gone"}] /\ ioLoop' \in [Conns -> Loops]
  BY <1>1, <1>2, <1>3, <1>4, Zenon DEF TypeOK
<1>7. /\ pending' \in [Loops -> Seq(Jobs)]
      /\ \A m \in Loops : \A fn, c :
           Due(m, fn, c)' <=> Due(m, fn, c) \/ (m = k /\ k # Base /\ fn = "connectEstablished" /\ c = d)
      /\ \A m \in Loops : (Listen \in Todo(m))' <=> Listen \in Todo(m)
      /\ \A m \in Loops : QueuedOnce(m) => QueuedOnce(m)'
      /\ \A m \in Loops, c \in Conns \ {d} : c \in ConnsOf(pending'[m]) <=> c \in ConnsOf(pending[m])
      /\ \A m \in Loops : m # k => pending'[m] = pending[m]
      /\ k = Base => pending' = pending
  <2>1. CASE k = Base
    <3>1. pending' = pending /\ batch' = batch
      BY <1>1, <2>1
    <3>2. \A m \in Loops : Todo(m)' = Todo(m)
      BY <3>1 DEF Todo
    <3>3. \A m \in Loops : QueuedOnce(m) => QueuedOnce(m)'
      BY <3>1 DEF QueuedOnce
    <3>4. pending' \in [Loops -> Seq(Jobs)]
      BY <1>2, <3>1 DEF TypeOK, Jobs
    <3> QED
      BY <2>1, <3>1, <3>2, <3>3, <3>4 DEF Due
  <2>2. CASE k # Base
    <3>1. Queue(k, Functor("connectEstablished", d)) /\ UNCHANGED batch
      BY <1>1, <2>2
    <3>2. "connectEstablished" \in Names /\ Functor("connectEstablished", d) \in Jobs
      BY <1>3, FunctorNames DEF Names
    <3>3. ~Due(k, "connectEstablished", d)
      BY <1>3, <1>4, <3>2
    <3>4. pending' \in [Loops -> Seq(Jobs)] /\ \A m \in Loops : m # k => pending'[m] = pending[m]
      BY <1>2, <1>4, <3>1, <3>2, QueueDoes
    <3>5. /\ \A m \in Loops : \A fn, c :
               Due(m, fn, c)' <=> Due(m, fn, c) \/ (m = k /\ fn = "connectEstablished" /\ c = d)
          /\ \A m \in Loops : (Listen \in Todo(m))' <=> Listen \in Todo(m)
          /\ \A m \in Loops : QueuedOnce(m) /\ (m = k => ~Due(m, "connectEstablished", d)) => QueuedOnce(m)'
          /\ \A m \in Loops, c \in Conns :
               c \in ConnsOf(pending'[m]) <=> c \in ConnsOf(pending[m]) \/ (m = k /\ c = d)
      BY <1>2, <1>3, <1>4, <3>1, <3>2, QueueDue, Zenon
    <3> QED
      BY <2>2, <3>3, <3>4, <3>5
  <2> QED
    BY <2>1, <2>2
<1>8. /\ d = nextConnId_ /\ d \in Nat /\ nextConnId_' \in Nat /\ MaxConns \in Nat /\ Conns \subseteq Nat
      /\ \A c \in Conns : c < nextConnId_' <=> c < d \/ c = d
      /\ \A c \in Conns : c >= nextConnId_' <=> c >= d /\ c # d
      /\ 1..nextConnId_' - 1 = (1..d - 1) \cup {d}
  <2>1. d = nextConnId_ /\ nextConnId_' = d + 1 /\ d \in 1..MaxConns /\ MaxConns \in Nat
    BY <1>0, <1>1, <1>3, ServerAssumption, Zenon DEF Conns
  <2> QED
    BY <2>1 DEF Conns
<1>9. TypeOK'
  <2>1. nextConnId_' \in 1..MaxConns + 1 /\ backlog' \in 0..MaxConns
    BY <1>1, <1>2, <1>3, ServerAssumption DEF TypeOK, Conns
  <2>2. connections_' \subseteq Conns
    BY <1>1, <1>2, <1>3 DEF TypeOK
  <2>3. next_' \in 0..numThreads_'
    BY <1>1, <1>4, Zenon
  <2>4. {pending', batch'} \subseteq [Loops -> Seq(Functors \cup {Listen})]
    BY <1>1, <1>2, <1>7, Zenon DEF TypeOK, Jobs
  <2> QED
    BY <1>1, <1>2, <1>5, <1>6, <2>1, <2>2, <2>3, <2>4, Zenon DEF TypeOK
<1>10. BatchInv'
  BY <1>1, <1>2, <1>5, <1>8, Zenon DEF BatchInv
<1>11. RouteInv'
  <2>1. \A l \in Loops : (Listen \in Todo(l))' => l = Base /\ started_'
    BY <1>1, <1>2, <1>7 DEF RouteInv
  <2>2. ASSUME NEW l \in Loops, NEW c \in Conns
        PROVE  /\ Due(l, "connectEstablished", c)' => l = ioLoop'[c] /\ l # Base
               /\ Due(l, "connectDestroyed", c)' => l = ioLoop'[c]
               /\ Due(l, "remove", c)' => l = Base /\ ioLoop'[c] # Base
               /\ (\E fn \in Names : Due(l, fn, c)') => c < nextConnId_'
    <3>0. \A fn : Due(l, fn, c)' <=> Due(l, fn, c) \/ (l = k /\ k # Base /\ fn = "connectEstablished" /\ c = d)
      BY <1>7, Zenon
    <3>1. CASE c = d
      <4>1. \A fn \in Names : ~Due(l, fn, c)
        BY <1>3, <3>1, Zenon
      <4>2. ioLoop'[c] = k /\ c < nextConnId_'
        BY <1>6, <1>8, <3>1, Zenon
      <4> QED
        BY <3>0, <4>1, <4>2 DEF Names
    <3>2. CASE c # d
      <4>1. \A fn : Due(l, fn, c)' <=> Due(l, fn, c)
        BY <3>0, <3>2, Zenon
      <4>2. ioLoop'[c] = ioLoop[c] /\ (c < nextConnId_ => c < nextConnId_')
        BY <1>6, <1>8, <3>2, Zenon
      <4>3. /\ Due(l, "connectEstablished", c) => l = ioLoop[c] /\ l # Base
            /\ Due(l, "connectDestroyed", c) => l = ioLoop[c]
            /\ Due(l, "remove", c) => l = Base /\ ioLoop[c] # Base
            /\ (\E fn \in Names : Due(l, fn, c)) => c < nextConnId_
        BY <1>2, Zenon DEF RouteInv, Names
      <4> QED
        BY <4>1, <4>2, <4>3
    <3> QED
      BY <3>1, <3>2, Zenon
  <2> QED
    BY <1>5, <2>1, <2>2 DEF RouteInv, Names
<1>12. AcceptInv'
  <2>1. \A c \in Conns : conn'[c] = "none" <=> c >= nextConnId_'
    BY <1>2, <1>6, <1>8 DEF AcceptInv
  <2>2. connections_' \subseteq 1..nextConnId_' - 1
    BY <1>1, <1>2, <1>8 DEF AcceptInv
  <2>3. nextConnId_' + backlog' <= arrived' + 1
    <3>1. arrived \in Nat /\ backlog \in Nat /\ d + backlog <= arrived + 1
      BY <1>0, <1>2, ServerAssumption DEF TypeOK, AcceptInv
    <3>2. (d + 1) + (backlog - 1) = d + backlog
      BY <1>8, <3>1
    <3> QED
      BY <1>1, <3>1, <3>2
  <2>4. started_
    BY <1>1, <1>2 DEF AcceptInv
  <2> QED
    BY <1>1, <1>2, <1>4, <2>1, <2>2, <2>3, <2>4 DEF AcceptInv
<1>13. DtorInv'
  <2>1. \A l \in Loops : phase[l] # "exited"
    BY <1>1, <1>2 DEF DtorInv
  <2> QED
    BY <1>1, <1>2, <1>5, <2>1, Zenon DEF DtorInv
<1>14. OrderInv'
  <2>1. Orderly
    BY <1>1, Zenon DEF Orderly
  <2>2. Life(d)'
    <3>1. /\ Due(k, "connectEstablished", d)' <=> k # Base
          /\ ~Due(k, "connectDestroyed", d)' /\ ~Due(Base, "remove", d)'
      <4>1. k \in Loops /\ Base \in Loops
        BY <1>0, <1>5
      <4>2. ~Due(k, "connectEstablished", d) /\ ~Due(k, "connectDestroyed", d) /\ ~Due(Base, "remove", d)
        BY <1>3, <4>1, Zenon DEF Names
      <4>3. \A m \in Loops : \A fn : Due(m, fn, d)' <=> Due(m, fn, d) \/ (m = k /\ k # Base /\ fn = "connectEstablished")
        BY <1>7
      <4> QED BY <4>1, <4>2, <4>3
    <3>2. Due(ioLoop[d], "connectEstablished", d)' = Due(k, "connectEstablished", d)'
      BY <1>6, Zenon DEF Due
    <3>3. Due(ioLoop[d], "connectDestroyed", d)' = Due(k, "connectDestroyed", d)'
      BY <1>6, Zenon DEF Due
    <3> QED
      BY <1>1, <1>6, <3>1, <3>2, <3>3 DEF Life
  <2>3. ASSUME NEW c \in Conns \ {d}
        PROVE  Life(c)'
    <3>1. \A m \in Loops, fn \in Names : Due(m, fn, c)' <=> Due(m, fn, c)
      BY <1>7
    <3>2. c \in connections_' <=> c \in connections_
      BY <1>1
    <3>3. Life(c)
      BY <1>2, <2>1 DEF OrderInv
    <3> QED
      BY <1>2, <1>6, <3>1, <3>2, <3>3, LifeFrame, Zenon
  <2> QED
    BY <1>1, <1>2, <1>5, <1>7, <2>1, <2>2, <2>3 DEF OrderInv
<1>15. IdleInv'
  <2>1. ASSUME opened = 0
        PROVE  Cardinality(Open') < FdLimit
    <3>1. Cardinality(Open) + 1 < FdLimit
      <4>1. Cardinality(Open) \in Nat /\ others = 0 /\ idleFd_ = "null"
        BY <1>1, <1>2, <2>1, OpenCount DEF TypeOK, IdleInv
      <4> QED
        BY <1>1, <4>1 DEF FreeFd, Fds, Open
    <3>2. Open' \subseteq Open \cup {d}
      <4>1. \A c \in Conns \ {d} : Referenced(c)' => Referenced(c)
        BY <1>1, <1>5, <1>7, Zenon DEF Referenced
      <4> QED
        BY <1>6, <4>1 DEF Open
    <3>3. IsFiniteSet(Open) /\ d \notin Open
      BY <1>3, OpenCount, Zenon DEF Open
    <3>4. IsFiniteSet(Open \cup {d}) /\ Cardinality(Open \cup {d}) = Cardinality(Open) + 1
      BY <3>3, FS_AddElement
    <3>5. Cardinality(Open') <= Cardinality(Open) + 1 /\ Cardinality(Open') \in Nat
      BY <3>2, <3>4, FS_Subset, FS_CardinalityType
    <3> QED
      BY <3>1, <3>5, OpenCount, ServerAssumption
  <2> QED
    BY <1>1, <1>2, <2>1 DEF IdleInv
<1> QED
  BY <1>9, <1>10, <1>11, <1>12, <1>13, <1>14, <1>15 DEF ServerInv

==============================================================================
