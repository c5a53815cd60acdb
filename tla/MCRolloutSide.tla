--------------------------- MODULE MCRolloutSide ---------------------------
(* The rollout side on one instance for TLC: first the weights are brought *)
(* to the servers, byte by byte, then the servers answer requests through  *)
(* the updates that follow, each of them one step there.                   *)
EXTENDS MCRolloutServers, MCWeightTransfer

VARIABLE delivered  \* the transfer is over

SideInit ==
    /\ delivered = FALSE
    /\ TransferInit
    /\ server = CHOOSE f \in [Requests -> Standalone] : TRUE    \* it plays no role before a server is acquired
    /\ Init

HandOver ==
    /\ ~delivered /\ Over
    /\ delivered' = TRUE
    /\ UNCHANGED vars

SideNext ==
    \/ ~delivered /\ TransferNext /\ UNCHANGED <<delivered, vars>>
    \/ HandOver
    \/ delivered /\ Next /\ UNCHANGED <<delivered, transferVars>>

SideFairness == TransferFairness /\ WF_delivered(HandOver) /\ Fairness

SideSpec == SideInit /\ [][SideNext]_<<delivered, vars, transferVars>> /\ SideFairness
=============================================================================
