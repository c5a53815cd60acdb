--------------------------- MODULE SampleStream ---------------------------
(***************************************************************************)
(* What asynchronous training promises about the samples of the dataset:   *)
(* they are taken in order, at most Limit of them are on their way at any  *)
(* time, they are trained on once, in batches of one size, and one is lost *)
(* only because generating it failed, because Room of them were on their   *)
(* way, or because training has closed the stream.                         *)
(***************************************************************************)
EXTENDS Integers, FiniteSets

CONSTANTS
    Batch,      \* samples of a training step
    Limit,      \* samples on their way at most
    Room,       \* samples on their way before one may be pushed out
    Failures    \* generations that may fail

VARIABLES
    taken,      \* samples taken from the dataset: 1 .. taken
    flight,     \* taken, neither trained on nor lost
    failed,     \* samples whose generation failed
    trained,    \* the sets of samples trained on, one per step
    closed      \* no step will be trained any more

vars == <<taken, flight, failed, trained, closed>>

Init ==
    /\ taken = 0
    /\ flight = {}
    /\ failed = {}
    /\ trained = {}
    /\ closed = FALSE

Take ==
    /\ Cardinality(flight) < Limit
    /\ taken' = taken + 1
    /\ flight' = flight \union {taken'}
    /\ UNCHANGED <<failed, trained, closed>>

Train ==
    /\ ~closed
    /\ \E batch \in SUBSET flight :
          /\ Cardinality(batch) = Batch
          /\ flight' = flight \ batch
          /\ trained' = trained \union {batch}
    /\ UNCHANGED <<taken, failed, closed>>

Fail ==
    /\ Cardinality(failed) < Failures
    /\ \E sample \in flight :
          /\ flight' = flight \ {sample}
          /\ failed' = failed \union {sample}
    /\ UNCHANGED <<taken, trained, closed>>

PushOut ==
    /\ closed \/ Cardinality(flight) >= Room
    /\ \E sample \in flight : flight' = flight \ {sample}
    /\ UNCHANGED <<taken, failed, trained, closed>>

\* Closing gives up what had been gathered for a step that stays incomplete.
Close ==
    /\ closed' = TRUE
    /\ flight' \subseteq flight
    /\ Cardinality(flight \ flight') < Batch
    /\ UNCHANGED <<taken, failed, trained>>

Next == Take \/ Train \/ Fail \/ PushOut \/ Close

Spec == Init /\ [][Next]_vars
=============================================================================
