--------------------------- MODULE MCReplayQueue ---------------------------
(* Instances of ReplayQueue for TLC: the constants are in the configurations. *)
EXTENDS ReplayQueue
=============================================================================
