------------------------------ MODULE GrpoStep ------------------------------
(***************************************************************************)
(* The data of a training step of RayPPOTrainer.fit                        *)
(* (verl/trainer/ppo/ray_trainer.py) on CISGrpoDataset: the sampler, the   *)
(* dataloader, the uids, the agent loop workers that answer the rows of    *)
(* their chunk in any order, the union of prompts and responses, the       *)
(* reordering for balance and the advantages.                              *)
(*                                                                         *)
(* A DataProto (verl/protocol.py) is a function from column names to       *)
(* sequences of equal length, so that an operation on one column and not   *)
(* on another is visible.  A response is the score its row's reward        *)
(* function gave it and its workload.                                      *)
(***************************************************************************)
EXTENDS Integers, Sequences, FiniteSets, FiniteSetsExt, SequencesExt

CONSTANTS
    Prompts,     \* prompts of the dataset; it has two items for each
    BatchSize,   \* data.train_batch_size
    RolloutN,    \* actor_rollout_ref.rollout.n
    Workers,     \* agent loop workers
    DpSize,      \* data parallel ranks of the actor
    Shuffles,    \* the values of data.shuffle
    Estimators,  \* the values of algorithm.adv_estimator
    Balances,    \* the values of trainer.balance_batch
    Outcomes,    \* the score and the workload a response may have
    FitEpochs    \* trainer.total_epochs

\* Sizes divide where chunk and the equal-size partitioning assert it.
ASSUME SizesAssumption ==
    /\ {Prompts, BatchSize, RolloutN, Workers, DpSize} \subseteq Nat \ {0}
    /\ FitEpochs \in Nat
    /\ BatchSize <= 2 * Prompts
    /\ (BatchSize * RolloutN) % Workers = 0
    /\ (BatchSize * RolloutN) % DpSize = 0
    /\ "remax" \in Estimators => (BatchSize * (RolloutN + 1)) % Workers = 0
ASSUME ChoicesAssumption ==
    /\ Shuffles \subseteq BOOLEAN
    /\ Balances \subseteq BOOLEAN
    /\ Estimators \subseteq {"grpo", "remax"}
    /\ Outcomes \subseteq [score : Int, workload : Nat]

VARIABLES
    config,   \* the configuration
    stepPc,   \* where fit is
    stepEpoch, \* epochs begun
    order,    \* items the sampler has not yielded in this epoch
    lastUid,  \* uids given out
    batch,    \* the DataProto called batch
    gen,      \* the DataProto sent to the agent loop manager
    answers,  \* per worker, the responses of its chunk that are there
    trained   \* history variable: items of this epoch's batches

stepVars == <<config, stepPc, stepEpoch, order, lastUid, batch, gen, answers, trained>>

Items == 0 .. 2 * Prompts - 1
PromptOf(item) == item \div 2

-----------------------------------------------------------------------------
(* verl/protocol.py                                                        *)

Size(d) == Len(d["item"])

\* Selected(d, s): row i of the result is row s[i] of d, in every column.
Selected(d, s) == [k \in DOMAIN d |-> [i \in 1 .. Len(s) |-> d[k][s[i]]]]

Repeat(d, n) == Selected(d, [i \in 1 .. Size(d) * n |-> ((i - 1) \div n) + 1])

\* Mutant of Reorder: the arrays beside the tensors stay where they are.
ReorderTensors(d, s) == [k \in DOMAIN d |-> IF k = "out" THEN Selected(d, s)[k] ELSE d[k]]

Reorder(d, s) == Selected(d, s)

Slice(d, first, last) == Selected(d, [i \in 1 .. last - first + 1 |-> first + i - 1])

DataChunk(d, chunks, c) ==
    LET m == Size(d) \div chunks IN Slice(d, (c - 1) * m + 1, c * m)

\* Both have the same rows.
Concat2(d, e) == [k \in DOMAIN d |-> d[k] \o e[k]]

\* Here d and e never have a column in common, so the check that such columns
\* are equal has nothing to compare.
Union(d, e) == [k \in DOMAIN d \cup DOMAIN e |-> IF k \in DOMAIN e THEN e[k] ELSE d[k]]

-----------------------------------------------------------------------------
StepInit ==
    /\ config \in [shuffle : Shuffles, estimator : Estimators, balance : Balances]
    /\ stepPc = "load"
    /\ stepEpoch = 0
    /\ order = <<>>
    /\ lastUid = 0
    /\ batch = <<>>
    /\ gen = <<>>
    /\ answers = [w \in 1 .. Workers |-> <<>>]
    /\ trained = <<>>

\* The next epoch: what is left is less than a batch and dropped.
StartEpoch ==
    /\ stepPc = "load"
    /\ Len(order) < BatchSize
    /\ stepEpoch < FitEpochs
    /\ stepEpoch' = stepEpoch + 1
    /\ IF config.shuffle
       THEN order' \in SetToSeqs(Items)
       ELSE order' = [i \in 1 .. 2 * Prompts |-> i - 1]
    /\ trained' = <<>>
    /\ UNCHANGED <<config, stepPc, lastUid, batch, gen, answers>>

\* Every row gets a uid of its own, whatever uid it came with.
FreshUids == [i \in 1 .. BatchSize |-> lastUid + i]

\* gen_batch: each row RolloutN times, then, for REMAX, each row once more.
GenBatch(b) ==
    LET sampled == Repeat(b, RolloutN)
    IN  Union(IF config.estimator = "remax" THEN Concat2(sampled, b) ELSE sampled,
              [greedy |-> [i \in 1 .. BatchSize * (IF config.estimator = "remax" THEN RolloutN + 1 ELSE RolloutN)
                            |-> i > BatchSize * RolloutN]])

\* Mutant of LoadBatch: the next batch begins with the last item of this one.
LoadBatchOverlapping ==
    /\ stepPc = "load"
    /\ Len(order) >= BatchSize
    /\ batch' = [item |-> SubSeq(order, 1, BatchSize), uid |-> FreshUids]
    /\ gen' = GenBatch(batch')
    /\ order' = SubSeq(order, BatchSize, Len(order))
    /\ lastUid' = lastUid + BatchSize
    /\ answers' = [w \in 1 .. Workers |-> <<>>]
    /\ stepPc' = "generate"
    /\ UNCHANGED <<config, stepEpoch, trained>>

LoadBatch ==
    /\ stepPc = "load"
    /\ Len(order) >= BatchSize
    /\ batch' = [item |-> SubSeq(order, 1, BatchSize), uid |-> FreshUids]
    /\ gen' = GenBatch(batch')
    /\ order' = SubSeq(order, BatchSize + 1, Len(order))
    /\ lastUid' = lastUid + BatchSize
    /\ answers' = [w \in 1 .. Workers |-> <<>>]
    /\ stepPc' = "generate"
    /\ UNCHANGED <<config, stepEpoch, trained>>

-----------------------------------------------------------------------------
(* AgentLoopManager.generate_sequences                                     *)

ChunkOf(w) == DataChunk(gen, Workers, w)

\* A row of a worker's chunk is answered and scored, in any order.
Answer(w, j, outcome) ==
    /\ stepPc = "generate"
    /\ j \in 1 .. Size(ChunkOf(w)) \ DOMAIN answers[w]
    /\ answers' = [answers EXCEPT ![w] =
                    [i \in DOMAIN @ \cup {j} |->
                        IF i = j THEN [item |-> ChunkOf(w)["item"][j], greedy |-> ChunkOf(w)["greedy"][j],
                                       score |-> outcome.score, workload |-> outcome.workload]
                        ELSE @[i]]]
    /\ UNCHANGED <<config, stepPc, stepEpoch, order, lastUid, batch, gen, trained>>

\* All chunks are gathered, each in the order of its rows, and concatenated.
Gathered ==
    LET m == Size(gen) \div Workers
    IN  [i \in 1 .. Size(gen) |-> answers[((i - 1) \div m) + 1][((i - 1) % m) + 1]]

Sampled == SubSeq(Gathered, 1, BatchSize * RolloutN)
Baselines == SubSeq(Gathered, BatchSize * RolloutN + 1, Len(Gathered))

\* Mutant of Collect: the baseline responses stay among the sampled ones.
CollectUnsliced ==
    /\ stepPc = "generate"
    /\ \A w \in 1 .. Workers : DOMAIN answers[w] = 1 .. Size(ChunkOf(w))
    /\ batch' = Union(Repeat(batch, RolloutN), [out |-> Gathered])
    /\ stepPc' = "balance"
    /\ UNCHANGED <<config, stepEpoch, order, lastUid, gen, answers, trained>>

\* Back in fit: the baselines become a column of batch, batch is repeated to
\* align with the responses, and united with them.
Collect ==
    /\ stepPc = "generate"
    /\ \A w \in 1 .. Workers : DOMAIN answers[w] = 1 .. Size(ChunkOf(w))
    /\ LET prompts == IF config.estimator = "remax"
                      THEN Union(batch, [baseline |-> Baselines])
                      ELSE batch
       IN  batch' = Union(Repeat(prompts, RolloutN), [out |-> Sampled])
    /\ stepPc' = "balance"
    /\ UNCHANGED <<config, stepEpoch, order, lastUid, gen, answers, trained>>

-----------------------------------------------------------------------------
(* _balance_batch and compute_advantage                                    *)

Lighter(i, j) ==
    \/ batch["out"][i].workload < batch["out"][j].workload
    \/ batch["out"][i].workload = batch["out"][j].workload /\ i < j

\* The orders the rows may get: rank by rank, some partition of equal size
\* that get_seqlen_balanced_partitions returns, each of them sorted by workload
\* and then arranged as partition[::2] + partition[1::2][::-1].
GlobalIdx ==
    LET m == Size(batch) \div DpSize
        SortedRow(s, r, k) == s[(r - 1) * m + (IF k % 2 = 1 THEN (k + 1) \div 2 ELSE m + 1 - k \div 2)]
    IN  {s \in SetToSeqs(1 .. Size(batch)) :
            \A r \in 1 .. DpSize, k \in 1 .. m - 1 : Lighter(SortedRow(s, r, k), SortedRow(s, r, k + 1))}

BalanceBatch ==
    /\ stepPc = "balance"
    /\ IF config.balance
       THEN \E s \in GlobalIdx : batch' = Reorder(batch, s)
       ELSE batch' = batch
    /\ stepPc' = "advantage"
    /\ UNCHANGED <<config, stepEpoch, order, lastUid, gen, answers, trained>>

\* Mutant of GroupOf: groups are runs of RolloutN rows.
GroupByPlace(i) ==
    {j \in 1 .. Size(batch) : (j - 1) \div RolloutN = (i - 1) \div RolloutN}

GroupOf(i) == {j \in 1 .. Size(batch) : batch["uid"][j] = batch["uid"][i]}

\* token_level_rewards, summed up.
Scores == [i \in 1 .. Size(batch) |-> batch["out"][i].score]
SumOver(f, S) == MapThenSumSet(LAMBDA i : f[i], S)

\* compute_grpo_outcome_advantage before the division by the deviation: the
\* distance to the mean of the group, as a fraction; a group of one has mean
\* zero.  compute_remax_outcome_advantage: the distance to the baseline.
Advantage(i) ==
    LET G == GroupOf(i)
    IN  IF config.estimator = "remax"
        THEN [num |-> Scores[i] - batch["baseline"][i].score, den |-> 1]
        ELSE IF Cardinality(G) = 1 THEN [num |-> Scores[i], den |-> 1]
        ELSE [num |-> Cardinality(G) * Scores[i] - SumOver(Scores, G), den |-> Cardinality(G)]

ComputeAdvantage ==
    /\ stepPc = "advantage"
    /\ batch' = Union(batch, [advantages |-> [i \in 1 .. Size(batch) |-> Advantage(i)]])
    /\ stepPc' = "update"
    /\ UNCHANGED <<config, stepEpoch, order, lastUid, gen, answers, trained>>

\* The updates; then the loop takes the next batch.
Update ==
    /\ stepPc = "update"
    /\ trained' = trained \o batch["item"]
    /\ stepPc' = "load"
    /\ batch' = <<>>
    /\ gen' = <<>>
    /\ answers' = [w \in 1 .. Workers |-> <<>>]
    /\ UNCHANGED <<config, stepEpoch, order, lastUid>>

StepNext ==
    \/ StartEpoch
    \/ LoadBatch
    \/ \E w \in 1 .. Workers, j \in 1 .. BatchSize * (RolloutN + 1), o \in Outcomes :
          Answer(w, j, o)
    \/ Collect
    \/ BalanceBatch
    \/ ComputeAdvantage
    \/ Update

StepSpec == StepInit /\ [][StepNext]_stepVars

-----------------------------------------------------------------------------
(* Properties                                                              *)

Response == [item : Items, greedy : BOOLEAN, score : Int, workload : Nat]

StepTypeOK ==
    /\ stepPc \in {"load", "generate", "balance", "advantage", "update"}
    /\ stepEpoch \in 0 .. FitEpochs
    /\ order \in Seq(Items)
    /\ lastUid \in Nat
    /\ \A d \in {batch, gen} : \A k \in DOMAIN d : Len(d[k]) = Size(d)
    /\ \A w \in 1 .. Workers : \A j \in DOMAIN answers[w] : answers[w][j] \in Response
    /\ trained \in Seq(Items)

\* Whatever was repeated, sliced, united and reordered on the way: a row of
\* the batch holds a sampled response to its own prompt and image, the greedy
\* baseline of the same, and a uid it shares with the other rollouts of its
\* item and with nothing else.  (The uid is what fit makes it; the dataset's
\* docs promise another, see PairSharesGroup.)
ColumnsAligned ==
    stepPc \in {"balance", "advantage", "update"} =>
        /\ Size(batch) = BatchSize * RolloutN
        /\ \A i \in 1 .. Size(batch) :
            /\ batch["out"][i].item = batch["item"][i]
            /\ ~batch["out"][i].greedy
            /\ config.estimator = "remax" =>
                  batch["baseline"][i].item = batch["item"][i] /\ batch["baseline"][i].greedy
            /\ \A j \in 1 .. Size(batch) :
                  batch["uid"][i] = batch["uid"][j] <=> batch["item"][i] = batch["item"][j]

\* "This usually changes the order of data in the `batch`, which won't affect
\* the advantage calculation (since it's based on uid)"
\* (verl/trainer/ppo/ray_trainer.py:1503): the GRPO advantages of a row are
\* the distance to the mean over all responses to its item, wherever they are,
\* and so those of an item's rollouts cancel out.
AdvantageIgnoresOrder ==
    stepPc = "update" /\ config.estimator = "grpo" =>
        \A i \in 1 .. Size(batch) :
            LET same == {j \in 1 .. Size(batch) : batch["out"][j].item = batch["item"][i]}
            IN  /\ RolloutN > 1 =>
                      /\ batch["advantages"][i].num * RolloutN =
                            batch["advantages"][i].den * (RolloutN * Scores[i] - SumOver(Scores, same))
                      /\ SumOver([j \in same |-> batch["advantages"][j].num], same) = 0
                /\ RolloutN = 1 => batch["advantages"][i] = [num |-> Scores[i], den |-> 1]

\* "row pairs sharing the same `uid`, so a single GRPO advantage group contains
\* both real-image and swapped-image rollouts" (cis_grpo/dataset.py:2): when
\* both items of a prompt are in a batch, their rows have one uid.  fit gives
\* every row of the dataloader's batch a fresh uid, over the dataset's.
PairSharesGroup ==
    stepPc = "update" =>
        \A i, j \in 1 .. Size(batch) :
            PromptOf(batch["item"][i]) = PromptOf(batch["item"][j]) => batch["uid"][i] = batch["uid"][j]

\* An epoch trains an item with RolloutN responses or, when the last batch
\* would be short, not at all; fewer than a batch are left out.
EpochServesEachItemOnce ==
    /\ \A item \in Items : Cardinality({k \in 1 .. Len(trained) : trained[k] = item}) \in {0, RolloutN}
    /\ stepPc = "load" /\ stepEpoch > 0 /\ Len(order) < BatchSize =>
          Len(trained) = RolloutN * BatchSize * ((2 * Prompts) \div BatchSize)
=============================================================================
