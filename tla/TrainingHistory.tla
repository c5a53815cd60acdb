-------------------------- MODULE TrainingHistory --------------------------
(***************************************************************************)
(* What a training run promises about the weights it ends up with: they    *)
(* have been trained on a sequence of batches that goes through every      *)
(* epoch completely and in one order, batch after batch; a crash may take  *)
(* training back to an earlier point of that sequence, never to before the *)
(* last checkpoint whose save finished.                                    *)
(***************************************************************************)
EXTENDS Integers, Sequences

CONSTANT
    StepsPerEpoch   \* batches of an epoch, at least one

VARIABLES
    history,  \* the batches the weights were trained on
    durable   \* length of the history at the last finished save

vars == <<history, durable>>

\* b, an order to go through the epoch and a position in it, continues h: the next position of the running epoch in the
\* same order, or the first position of a new epoch in any order.
Continues(h, b) ==
    /\ b.pos = (Len(h) % StepsPerEpoch) + 1
    /\ b.pos > 1 => b.order = h[Len(h)].order

Init == history = <<>> /\ durable = 0

Train ==
    /\ Len(history') = Len(history) + 1
    /\ SubSeq(history', 1, Len(history)) = history
    /\ Continues(history, history'[Len(history')])
    /\ UNCHANGED durable

FinishSave ==
    /\ durable' = Len(history)
    /\ UNCHANGED history

\* A crash or a relaunch: back to a point not before the last finished save.
FallBack ==
    /\ \E n \in durable .. Len(history) : history' = SubSeq(history, 1, n)
    /\ UNCHANGED durable

Next == Train \/ FinishSave \/ FallBack

Spec == Init /\ [][Next]_vars
=============================================================================
