------------------------ MODULE MCBoundedBlockingQueue ------------------------
(***************************************************************************)
(* BoundedBlockingQueue for TLC.                                           *)
(***************************************************************************)
EXTENDS BoundedBlockingQueue
==============================================================================
