--------------------------- MODULE MCFullyAsync ---------------------------
(* Instances of FullyAsync for TLC: the constants are in the configurations. *)
EXTENDS FullyAsync
=============================================================================
