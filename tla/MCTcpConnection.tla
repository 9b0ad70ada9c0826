--------------------------- MODULE MCTcpConnection ---------------------------
(***************************************************************************)
(* TcpConnection for TLC: the ways to use a connection, by name.           *)
(***************************************************************************)
EXTENDS TcpConnection

\* User code in the loop thread sends and closes, another thread sends, and the
\* peer closes or resets.
CloseInLoop ==
  [loop |-> {"send", "shutdown", "forceClose", "forceCloseWithDelay"}, threads |-> {"send"},
   peer |-> {"close", "reset"}, sameLoop |-> FALSE, serverDies |-> "never"]

\* The server's own loop serves the connection, and the server may be destructed,
\* in a functor or between the turns of the loop.
OneLoop ==
  [loop |-> {"send"}, threads |-> {"send"}, peer |-> {"send", "close", "reset"},
   sameLoop |-> TRUE, serverDies |-> "outside"]

\* Reading is stopped and started, and either thread shuts down; nobody closes.
Flow ==
  [loop |-> {"send", "startRead", "stopRead", "shutdown"},
   threads |-> {"startRead", "stopRead", "shutdown"}, peer |-> {"send"},
   sameLoop |-> FALSE, serverDies |-> "never"]

\* Reading is stopped when the connection comes up, and the peer resets: with output
\* waiting, the loop is told by EPOLLHUP alone.
Paused ==
  [loop |-> {"send", "pauseRead"}, threads |-> {}, peer |-> {"reset"},
   sameLoop |-> FALSE, serverDies |-> "never"]

Sound == {CloseInLoop, OneLoop, Flow, Paused}

\* They are usages of the kind that the theorems about the connection are about.
ASSUME SoundUsages == \A u \in Sound : Ordered(u) /\ Careful(u)

\* Usages in which the code departs from what it says of itself.
Plain == [loop |-> {}, threads |-> {}, peer |-> {}, sameLoop |-> FALSE, serverDies |-> "never"]
AnyPeer == {"send", "close", "reset"}

\* A thread sends, then shuts down.
SendThenShutdown == {[Plain EXCEPT !.loop = {"send"}, !.threads = {"send", "shutdown"}]}
\* A thread shuts down while the peer closes.
ShutdownRace == {[Plain EXCEPT !.threads = {"send", "shutdown"}, !.peer = AnyPeer]}
\* User code stops reading and closes.
StopAndClose == {[Plain EXCEPT !.loop = {"stopRead", "forceClose"}, !.peer = AnyPeer]}
\* Another thread starts reading while the connection closes.
StartWhileClosing == {[Plain EXCEPT !.threads = {"startRead"}, !.peer = AnyPeer]}
\* The server is destructed while the connection shuts down.
DestructWhileClosing ==
  {[Plain EXCEPT !.loop = {"send", "shutdown"}, !.sameLoop = TRUE, !.serverDies = "outside"]}
\* The server is destructed in a callback of the connection, or in the handler of another
\* event of the same turn.
DestructInHandler == {[Plain EXCEPT !.peer = AnyPeer, !.sameLoop = TRUE, !.serverDies = "anywhere"]}
==============================================================================
