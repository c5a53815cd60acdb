----------------------------- MODULE MCTrainer -----------------------------
(* The parts of the synchronous trainer on the driver, on one instance for *)
(* TLC: the swap map, the reward manager, the dataflow of a step, the      *)
(* length balancing and the checkpoints.  They share no variable, so one   *)
(* part moves in a behaviour and the others stay where they start, and the *)
(* states are those of the parts taken one by one.                         *)
EXTENDS MCCisSwapMap, MCCisReward, MCGrpoStep, MCSeqlenBalancing, MCPpoCheckpoint

VARIABLE part   \* the part that moves

Parts == {"swap", "reward", "step", "balance", "checkpoint"}

\* A choice that a part starts with is made once where the part does not move.
Choice(of, among) == IF part = of THEN among ELSE {CHOOSE c \in among : TRUE}

Init ==
    /\ part \in Parts
    /\ data \in Choice("swap", Datasets)
    /\ swapOffset \in Choice("swap", SwapOffsets)
    /\ shuffle \in Choice("swap", ShuffleOptions)
    /\ config \in Choice("step", [shuffle : Shuffles, estimator : Estimators, balance : Balances])
    /\ call \in Choice("balance", Calls)
    /\ SwapInit /\ RewardInit /\ StepInit /\ BalancingInit /\ CheckpointInit

Next ==
    \/ /\ part = "swap"
       /\ SwapNext
       /\ UNCHANGED <<part, rewardVars, stepVars, balancingVars, checkpointVars>>
    \/ /\ part = "reward"
       /\ RewardNext
       /\ UNCHANGED <<part, swapVars, stepVars, balancingVars, checkpointVars>>
    \/ /\ part = "step"
       /\ StepNext
       /\ UNCHANGED <<part, swapVars, rewardVars, balancingVars, checkpointVars>>
    \/ /\ part = "balance"
       /\ BalancingNext
       /\ UNCHANGED <<part, swapVars, rewardVars, stepVars, checkpointVars>>
    \/ /\ part = "checkpoint"
       /\ CheckpointNext
       /\ UNCHANGED <<part, swapVars, rewardVars, stepVars, balancingVars>>

Spec == Init /\ [][Next]_<<part, swapVars, rewardVars, stepVars, balancingVars, checkpointVars>>
=============================================================================
