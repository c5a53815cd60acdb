-------------------------- MODULE OrderedDelivery --------------------------
(***************************************************************************)
(* What a weight update promises: every server receives every weight, in   *)
(* the order of the trainer, byte for byte, once, and in the end all of    *)
(* them.                                                                   *)
(***************************************************************************)
EXTENDS Integers, Sequences

CONSTANTS
    Ranks,      \* the receiving workers
    Weights     \* sequence of the weights as the trainer has them

VARIABLE loaded     \* per rank, the weights it has loaded

vars == loaded

Init == loaded = [r \in Ranks |-> <<>>]

Load(r) ==
    /\ Len(loaded[r]) < Len(Weights)
    /\ loaded' = [loaded EXCEPT ![r] = Append(@, Weights[Len(@) + 1])]

Spec == Init /\ [][\E r \in Ranks : Load(r)]_vars /\ \A r \in Ranks : WF_vars(Load(r))
=============================================================================
