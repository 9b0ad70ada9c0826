--------------------------- MODULE MCEPollPoller ---------------------------
(* EPollPoller for TLC: see MCEPollPoller.cfg. *)
EXTENDS EPollPoller
=============================================================================
