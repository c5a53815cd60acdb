-------------------------- MODULE MCPpoCheckpoint --------------------------
(* Instances of PpoCheckpoint for TLC.                                     *)
EXTENDS PpoCheckpoint, TLC

ActorOnly == <<"actor">>
ActorAndCritic == <<"actor", "critic">>

\* Limits under which rotation happens before a save (two), only after one
\* (one) and never (no limit).
KeepTwoAndThree == "actor" :> 2 @@ "critic" :> 3
KeepOne == "actor" :> 1
=============================================================================
