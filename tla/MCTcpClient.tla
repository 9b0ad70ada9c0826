----------------------------- MODULE MCTcpClient -----------------------------
(***************************************************************************)
(* Instances of TcpClient for TLC; the cfg files choose who calls what.    *)
(***************************************************************************)
EXTENDS TcpClient

Nothing == {}
Connects == {"connect"}
ConnectsAndStops == {"connect", "stop"}
LoopUserOps == {"connect", "stop", "disconnect"}
WithDestroy == {"connect", "stop", "disconnect", "destroy"}
ConnectDestroy == {"connect", "destroy"}
==============================================================================
