---------------------------- MODULE SudokuService ----------------------------
(***************************************************************************)
(* The Sudoku example as a composition: the server with its pool of        *)
(* solving threads (net/sudoku/server_threadpool.cc), the batch client's   *)
(* connections in one loop (net/sudoku/batch.cc), and the two byte streams *)
(* of each connection, which TCP cuts anywhere.                            *)
(*                                                                         *)
(* A line is its length, the length of its id with the colon, and whether  *)
(* its puzzle has a solution; a stream is the lines in it and the number   *)
(* of their bytes that have arrived.  The connections, the loops and the   *)
(* pool are what TcpConnection.tla, EventLoop.tla and ThreadPool.tla show  *)
(* of them; every connection of the server has an io loop of its own.      *)
(***************************************************************************)
EXTENDS Integers, Sequences, FiniteSets, FiniteSetsExt, SequencesExt

CONSTANTS
  NumThreads,    \* numbers of threads that the server may be started with
  Batches,       \* calls of runClient(): the requests in the file, and the connections
  kCells,        \* 81
  MaxLine,       \* 100
  NoSolution,    \* length of "NoSolution"
  Refusal        \* length of "Bad Request!" and of "Id too long!"

ASSUME ServiceAssumption ==
  /\ IsFiniteSet(NumThreads) /\ NumThreads \subseteq Nat
  /\ \A b \in Batches : b.conn \in Nat \ {0}
  /\ {kCells, NoSolution, Refusal} \subseteq Nat \ {0}
  /\ NoSolution < kCells /\ Refusal < kCells /\ MaxLine > kCells + 2

VARIABLES
  numThreads_, \* of the pool; with none the io loop solves
  input_,      \* the requests, the same for every client
  g_connections,
  link,        \* of each client's connection: none, up, half (it has shut down), down
  got,         \* bytes of the requests in the server so far
  line,        \* requests that onMessage() has taken from them
  serving,     \* the io loop is in onMessage()
  state_,      \* of the server's connection
  fin,         \* the server has shut down its side
  queue_,      \* tasks of the pool
  worker,      \* the task of each thread; sending: it has found the connection up
  pending,     \* answers on the way to the io loop
  answers,     \* lines the server has written; 0: a refusal
  aborted,     \* LOG_FATAL
  read,        \* bytes of the answers in the client so far
  count_,
  reading,     \* the client is in onMessage()
  done,        \* calls of the done callback for each client
  g_finished,
  quit         \* done() has set the timer that ends the clients' loop

serverVars == <<got, line, serving, state_, fin, queue_, worker, pending, answers, aborted>>
clientVars == <<link, read, count_, reading, done, g_finished, quit>>
batchVars == <<numThreads_, input_, g_connections>>
vars == <<batchVars, serverVars, clientVars>>

Clients == 1 .. g_connections
Workers == 1 .. numThreads_

Idle == [conn |-> 0, of |-> 0, sending |-> FALSE]
Task(c, i) == [conn |-> c, of |-> i, sending |-> FALSE]

Bytes(lens, n) == SumFunctionOnSet(lens, 1 .. n)

\* The lengths of the lines on the wire, with their CRLF.
RequestLens == [i \in DOMAIN input_ |-> input_[i].len + 2]

AnswerLen(i) ==
  2 + IF i = 0 THEN Refusal
      ELSE input_[i].id + (IF input_[i].solvable THEN kCells ELSE NoSolution)
AnswerLens(c) == [k \in DOMAIN answers[c] |-> AnswerLen(answers[c][k])]

\* readableBytes(), and whether findCRLF() finds the end of the next line.
Readable(lens, taken, bytes) == bytes - Bytes(lens, taken)
LineEnds(lens, taken, bytes) == taken < Len(lens) /\ Bytes(lens, taken + 1) <= bytes

Init ==
  /\ numThreads_ \in NumThreads
  /\ \E b \in Batches : input_ = b.input /\ g_connections = b.conn
  /\ link = [c \in Clients |-> "none"]
  /\ got = [c \in Clients |-> 0] /\ line = [c \in Clients |-> 0]
  /\ serving = [c \in Clients |-> FALSE] /\ state_ = [c \in Clients |-> "kConnected"]
  /\ fin = [c \in Clients |-> FALSE]
  /\ queue_ = <<>> /\ worker = [w \in Workers |-> Idle]
  /\ pending = [c \in Clients |-> <<>>] /\ answers = [c \in Clients |-> <<>>]
  /\ aborted = FALSE
  /\ read = [c \in Clients |-> 0] /\ count_ = [c \in Clients |-> 0]
  /\ reading = [c \in Clients |-> FALSE] /\ done = [c \in Clients |-> 0]
  /\ g_finished = 0 /\ quit = FALSE
-----------------------------------------------------------------------------
(* The server. *)

\* TcpConnection::send() and shutdown() in the io loop.
Send(c, i) ==
  answers' = IF state_[c] = "kConnected" THEN [answers EXCEPT ![c] = Append(@, i)] ELSE answers
Shutdown(c) ==
  state_' = [state_ EXCEPT ![c] = IF @ = "kConnected" THEN "kDisconnecting" ELSE @]

\* Some more bytes arrive, and onMessage() is called.
Arrive(c) ==
  /\ ~aborted /\ link[c] # "none" /\ state_[c] # "kDisconnected" /\ ~serving[c]
  /\ \E n \in got[c] + 1 .. Bytes(RequestLens, Len(input_)) : got' = [got EXCEPT ![c] = n]
  /\ serving' = [serving EXCEPT ![c] = TRUE]
  /\ UNCHANGED <<batchVars, line, state_, fin, queue_, worker, pending, answers, aborted, clientVars>>

\* SudokuServer::onMessage() is in its loop, with these bytes to read.
InLoop(c) == ~aborted /\ serving[c]
Len_(c) == Readable(RequestLens, line[c], got[c])
Crlf(c) == LineEnds(RequestLens, line[c], got[c])

\* processRequest() of a request whose puzzle has kCells characters.
Good(i) == input_[i].len - input_[i].id = kCells

\* Mutant: a call of onMessage() takes one request.
TakeOneRequest(c) ==
  /\ InLoop(c) /\ Len_(c) >= kCells + 2 /\ Crlf(c) /\ Good(line[c] + 1)
  /\ line' = [line EXCEPT ![c] = @ + 1]
  /\ IF numThreads_ = 0
     THEN Send(c, line[c] + 1) /\ UNCHANGED queue_
     ELSE queue_' = Append(queue_, Task(c, line[c] + 1)) /\ UNCHANGED answers
  /\ serving' = [serving EXCEPT ![c] = FALSE]
  /\ UNCHANGED <<batchVars, got, state_, fin, worker, pending, aborted, clientVars>>

\* The loop finds a line: it becomes a task of the pool, or is refused.
TakeRequest(c) ==
  /\ InLoop(c) /\ Len_(c) >= kCells + 2 /\ Crlf(c)
  /\ line' = [line EXCEPT ![c] = @ + 1]
  /\ IF Good(line[c] + 1)
     THEN /\ IF numThreads_ = 0
             THEN Send(c, line[c] + 1) /\ UNCHANGED queue_
             ELSE queue_' = Append(queue_, Task(c, line[c] + 1)) /\ UNCHANGED answers
          /\ UNCHANGED <<serving, state_>>
     ELSE /\ Send(c, 0) /\ Shutdown(c)
          /\ serving' = [serving EXCEPT ![c] = FALSE]
          /\ UNCHANGED queue_
  /\ UNCHANGED <<batchVars, got, fin, worker, pending, aborted, clientVars>>

LineTooLong(c) ==
  /\ InLoop(c) /\ Len_(c) >= kCells + 2 /\ ~Crlf(c) /\ Len_(c) > MaxLine
  /\ Send(c, 0) /\ Shutdown(c)
  /\ serving' = [serving EXCEPT ![c] = FALSE]
  /\ UNCHANGED <<batchVars, got, line, fin, queue_, worker, pending, aborted, clientVars>>

\* LOG_FATAL << "CRLF" aborts the process.
Fatal(c) ==
  /\ InLoop(c) /\ Len_(c) >= kCells + 2 /\ ~Crlf(c) /\ Len_(c) <= MaxLine
  /\ aborted' = TRUE
  /\ UNCHANGED <<batchVars, got, line, serving, state_, fin, queue_, worker, pending, answers, clientVars>>

MessageDone(c) ==
  /\ InLoop(c) /\ Len_(c) < kCells + 2
  /\ serving' = [serving EXCEPT ![c] = FALSE]
  /\ UNCHANGED <<batchVars, got, line, state_, fin, queue_, worker, pending, answers, aborted, clientVars>>

\* Mutant: the task is read and stays in the queue.
PeekTask(w) ==
  /\ ~aborted /\ worker[w] = Idle /\ queue_ # <<>>
  /\ worker' = [worker EXCEPT ![w] = Head(queue_)]
  /\ UNCHANGED <<batchVars, got, line, serving, state_, fin, queue_, pending, answers, aborted, clientVars>>

\* ThreadPool::take().
TakeTask(w) ==
  /\ ~aborted /\ worker[w] = Idle /\ queue_ # <<>>
  /\ worker' = [worker EXCEPT ![w] = Head(queue_)]
  /\ queue_' = Tail(queue_)
  /\ UNCHANGED <<batchVars, got, line, serving, state_, fin, pending, answers, aborted, clientVars>>

\* solve() up to the test of state_ in send().
Solve(w) ==
  /\ ~aborted /\ worker[w] # Idle /\ ~worker[w].sending
  /\ worker' = [worker EXCEPT ![w] = IF state_[@.conn] = "kConnected"
                                     THEN [@ EXCEPT !.sending = TRUE] ELSE Idle]
  /\ UNCHANGED <<batchVars, got, line, serving, state_, fin, queue_, pending, answers, aborted, clientVars>>

\* send() queues sendInLoop() in the io loop.
QueueAnswer(w) ==
  /\ ~aborted /\ worker[w].sending
  /\ pending' = [pending EXCEPT ![worker[w].conn] = Append(@, worker[w].of)]
  /\ worker' = [worker EXCEPT ![w] = Idle]
  /\ UNCHANGED <<batchVars, got, line, serving, state_, fin, queue_, answers, aborted, clientVars>>

\* sendInLoop(): nothing reaches the peer once the connection or its side is closed.
SendInLoop(c) ==
  /\ ~aborted /\ ~serving[c] /\ pending[c] # <<>>
  /\ pending' = [pending EXCEPT ![c] = Tail(@)]
  /\ answers' = IF state_[c] # "kDisconnected" /\ ~fin[c]
                THEN [answers EXCEPT ![c] = Append(@, Head(pending[c]))] ELSE answers
  /\ UNCHANGED <<batchVars, got, line, serving, state_, fin, queue_, worker, aborted, clientVars>>

\* shutdownWrite(), once what was written before is out.
ShutdownWrite(c) ==
  /\ ~aborted /\ ~serving[c] /\ state_[c] = "kDisconnecting" /\ ~fin[c]
  /\ fin' = [fin EXCEPT ![c] = TRUE]
  /\ UNCHANGED <<batchVars, got, line, serving, state_, queue_, worker, pending, answers, aborted, clientVars>>

\* handleClose(): the client's end of stream, or its closed socket.
ServerClose(c) ==
  /\ ~aborted /\ ~serving[c] /\ state_[c] # "kDisconnected"
  /\ link[c] = "down" \/ (link[c] = "half" /\ got[c] = Bytes(RequestLens, Len(input_)))
  /\ state_' = [state_ EXCEPT ![c] = "kDisconnected"]
  /\ fin' = [fin EXCEPT ![c] = TRUE]
  /\ UNCHANGED <<batchVars, got, line, serving, queue_, worker, pending, answers, aborted, clientVars>>
-----------------------------------------------------------------------------
(* The batch client. *)

\* The loop of the clients is in no onMessage().
ClientsFree == \A c \in Clients : ~reading[c]

\* onConnection(): all requests are sent.
Connect(c) ==
  /\ ~aborted /\ ClientsFree /\ link[c] = "none"
  /\ link' = [link EXCEPT ![c] = "up"]
  /\ UNCHANGED <<batchVars, serverVars, read, count_, reading, done, g_finished, quit>>

\* Some more bytes arrive, and onMessage() is called.
ClientArrive(c) ==
  /\ ClientsFree /\ link[c] \in {"up", "half"}
  /\ \E n \in read[c] + 1 .. Bytes(AnswerLens(c), Len(answers[c])) : read' = [read EXCEPT ![c] = n]
  /\ reading' = [reading EXCEPT ![c] = TRUE]
  /\ UNCHANGED <<batchVars, serverVars, link, count_, done, g_finished, quit>>

ClientLen(c) == Readable(AnswerLens(c), count_[c], read[c])
ClientCrlf(c) == LineEnds(AnswerLens(c), count_[c], read[c])

\* Mutant: kCells + 2 bytes count as an answer.
TakeBytes(c) ==
  /\ reading[c] /\ ClientLen(c) >= kCells + 2
  /\ count_' = [count_ EXCEPT ![c] = @ + 1]
  /\ UNCHANGED <<batchVars, serverVars, link, read, reading, done, g_finished, quit>>

TakeAnswer(c) ==
  /\ reading[c] /\ ClientLen(c) >= kCells + 2 /\ ClientCrlf(c)
  /\ count_' = [count_ EXCEPT ![c] = @ + 1]
  /\ UNCHANGED <<batchVars, serverVars, link, read, reading, done, g_finished, quit>>

\* The loop over the lines ends; all answers counted, the client is done.
AnswersRead(c) ==
  /\ reading[c] /\ (ClientLen(c) < kCells + 2 \/ ~ClientCrlf(c))
  /\ reading' = [reading EXCEPT ![c] = FALSE]
  /\ LET finished == count_[c] = Len(input_)
         tooLong == ClientLen(c) > MaxLine
     IN  /\ done' = [done EXCEPT ![c] = @ + IF finished THEN 1 ELSE 0]
         /\ g_finished' = g_finished + IF finished THEN 1 ELSE 0
         /\ quit' = (quit \/ (finished /\ g_finished' = g_connections))
         /\ link' = [link EXCEPT ![c] = IF (finished \/ tooLong) /\ @ = "up" THEN "half" ELSE @]
  /\ UNCHANGED <<batchVars, serverVars, read, count_>>

\* handleClose(): the end of the answers, or an aborted server.
ClientClose(c) ==
  /\ ClientsFree /\ link[c] \in {"up", "half"}
  /\ aborted \/ (fin[c] /\ read[c] = Bytes(AnswerLens(c), Len(answers[c])))
  /\ link' = [link EXCEPT ![c] = "down"]
  /\ UNCHANGED <<batchVars, serverVars, read, count_, reading, done, g_finished, quit>>
-----------------------------------------------------------------------------
OnMessage(c) == TakeRequest(c) \/ LineTooLong(c) \/ Fatal(c) \/ MessageDone(c)
IoLoop(c) == Arrive(c) \/ OnMessage(c) \/ SendInLoop(c) \/ ShutdownWrite(c) \/ ServerClose(c)
AllWorkers == 1 .. Max(NumThreads)
AllClients == 1 .. Max({b.conn : b \in Batches})
PoolThread(w) == w \in Workers /\ (TakeTask(w) \/ Solve(w) \/ QueueAnswer(w))
Client(c) == Connect(c) \/ ClientArrive(c) \/ TakeAnswer(c) \/ AnswersRead(c) \/ ClientClose(c)

Next ==
  \/ \E c \in AllClients : c \in Clients /\ (IoLoop(c) \/ Client(c))
  \/ \E w \in AllWorkers : PoolThread(w)

Spec == Init /\ [][Next]_vars

\* The loops and the threads go on; what is ready in a loop gets its turn.
FairSpec ==
  /\ Spec
  /\ \A c \in AllClients :
       LET In(action) == c \in Clients /\ action
       IN  /\ SF_vars(In(Arrive(c))) /\ WF_vars(In(OnMessage(c))) /\ SF_vars(In(SendInLoop(c)))
           /\ SF_vars(In(Connect(c))) /\ SF_vars(In(ClientArrive(c)))
           /\ WF_vars(In(TakeAnswer(c) \/ AnswersRead(c)))
  /\ \A w \in AllWorkers : WF_vars(PoolThread(w))
-----------------------------------------------------------------------------
\* Where the answer to a request of a client is.
Places(c, i) ==
  [queued |-> Cardinality({k \in DOMAIN queue_ : queue_[k] = Task(c, i)}),
   solving |-> Cardinality({w \in Workers : worker[w].conn = c /\ worker[w].of = i}),
   pending |-> Cardinality({k \in DOMAIN pending[c] : pending[c][k] = i}),
   written |-> Cardinality({k \in DOMAIN answers[c] : answers[c][k] = i})]
Copies(c, i) == SumFunction(Places(c, i))

\* However the requests of a connection are cut and whichever threads solve them, each
\* one that onMessage() has taken is answered at most once, on its own connection, and
\* while the connection is up none of them is lost between the loop, the pool and the
\* loop; nothing is answered that was not taken.
AnsweredOnce ==
  \A c \in Clients, i \in DOMAIN input_ :
    /\ Copies(c, i) <= 1
    /\ Copies(c, i) = 1 => i <= line[c] /\ Good(i)
    /\ i <= line[c] /\ Good(i) /\ state_[c] = "kConnected" => Copies(c, i) = 1

\* A connection is refused at most once, and only for a request that is no puzzle or
\* that is longer than a line may be.
RefusedRightly ==
  \A c \in Clients :
    /\ Cardinality({k \in DOMAIN answers[c] : answers[c][k] = 0}) <= 1
    /\ 0 \in Range(answers[c]) =>
         \E i \in 1 .. Len(input_) : ~Good(i) \/ RequestLens[i] > MaxLine

\* Each request gets the one answer it should, and a connection at most one refusal,
\* with a reason.
AnsweredRightly == AnsweredOnce /\ RefusedRightly

\* done() is called once for each connection of the batch client, when it has read an
\* answer to each of its requests to the end; so the client quits when all have.
QuitsWhenDone ==
  /\ \A c \in Clients :
       /\ done[c] <= 1
       /\ done[c] = 1 => /\ Len(answers[c]) = Len(input_)
                         /\ read[c] = Bytes(AnswerLens(c), Len(input_))
  /\ quit <=> \A c \in Clients : done[c] = 1

\* No request makes the server abort: LOG_FATAL of onMessage() is for lines that cannot
\* be.  TLC finds a request that is cut in the wrong place.
NeverAborts == ~aborted

\* Requests that are puzzles with a solution are all answered and counted, and the
\* batch client quits, unless the server aborts.
BatchFinishes ==
  [](~aborted) /\ (\A i \in DOMAIN input_ : Good(i) /\ input_[i].solvable /\ RequestLens[i] <= MaxLine)
    => <>quit
=============================================================================
