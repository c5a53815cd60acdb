----------------------------- MODULE MCGrpoStep -----------------------------
(* Instances of GrpoStep for TLC: short wrong answers and long right ones. *)
EXTENDS GrpoStep

TwoOutcomes == {[score |-> 0, workload |-> 1], [score |-> 9, workload |-> 2]}
=============================================================================
