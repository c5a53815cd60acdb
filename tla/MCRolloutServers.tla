------------------------- MODULE MCRolloutServers -------------------------
(* Instances of RolloutServers for TLC: the constants are in the configurations. *)
EXTENDS RolloutServers
=============================================================================
