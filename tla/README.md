# CIS-GRPO in TLA+

This directory holds TLA+ models of the CIS-GRPO training code, the TLC
configurations that check them on small instances, and theorems about them
checked by the TLA+ proof system.  Paths below are relative to the root of the
repository; modules are in this directory.  `PROJECT.json` lists the same
things for tools: components, runs, the source lines of every definition, the
mutants, the findings, the hazards and the theorems.

    tlc -config MCTrainer.cfg MCTrainer     # a run
    tlapm CisGrpoProofs.tla                 # a proof

Contents: [the system](#the-system), [modules](#modules), [runs](#runs),
[findings](#findings), [observations](#observations), [proofs](#proofs),
[what is not covered](#what-is-not-covered), [plan](#plan).


## The system

The repository is a vision-language reinforcement learning recipe, `cis_grpo/`,
on top of a vendored and slightly changed training framework, `verl/`.  For
every training prompt the recipe also trains on a counterfactual (CF) copy: the
same text with the image of another prompt.  A rollout on the CF copy that
still finds the answer shows that the answer leaks from the text.  The launch
scripts (`scripts/run_cis_grpo_*.sh`) start `verl.trainer.main_ppo`, the
synchronous PPO trainer, with `CISGrpoDataset` as the dataset and
`compute_score` of `cis_grpo/reward.py` as the reward function.  (The comment
at the top of the scripts speaks of the batch reward manager
`cis_grpo/reward_manager.py`; the options passed do not select it.  The models
are of the manager, which shapes the rewards of a group together; the hook scores
each row by itself, with the same terms but no bonus, and has no module.)

One process, the driver, runs the loop; everything that needs a GPU runs in Ray
actors it calls.  In the synchronous trainer these calls are answered before
the loop goes on, so what is concurrent there is the agent loop workers among
themselves, the ranks that write a checkpoint, and the death of the process.
Its announced successor, `verl/trainer/main_ppo_sync.py`, works through a
transfer queue that a thread of the driver polls, and the fully asynchronous
trainer under `verl/experimental/fully_async_policy` is concurrent throughout.

### Components

**CIS dataset** (`cis_grpo/dataset.py`).  State: the rows left by the filters,
their ground truths and token counts, the options, and `_swap_map`, which row's
image the CF copy of each row borrows.  Operations: `_build_swap_map` (at
construction and from `set_epoch`), `__len__`, `__getitem__` (item 2i is row i,
item 2i+1 its CF copy).  Talks to: the dataloader, which reads items by number;
`data_prep/prepare_cis_ready.py`, whose length filter bounds each row with its
own image.  Hard: a randomised repair in place, under three constraints at
once, from a list of violators that gets stale while it is worked through, and
a last-resort redirect after the diagnosis.  Correct when: the map stays a
permutation while it is repaired, repair never makes anything worse, prompts
fit the budget, but for the suffix, whatever could not be repaired, and silence
means success.

**Rewards** (`cis_grpo/reward.py`, `reward_manager.py`, `reward_nothink.py`).
State: during a call of the manager, the groups by uid, the reward tensor, the
exported per-row entries and two counters.  Operations: `base_reward`,
`compute_score` per row; `CISRewardManager.__call__` per batch.  Talks to: the
reward loop of the agent loop workers, which calls the hook per row; the
trainer, which reads `reward_extra_info`.  Hard: grouping of rows that arrive in
any order, a majority with ties, empty responses and responses without a box,
entries that are written group by group and read row by row.  Correct when: the
reward of a row is the one the description gives it, as a function of its group
and not of the order of evaluation, and the exports agree with the rewards and,
where they are read by row, with the rows.

**A training step** (`verl/trainer/ppo/ray_trainer.py`, `verl/protocol.py`,
`verl/experimental/agent_loop/agent_loop.py`).  State: the epoch's order, the
batch as a `DataProto` of columns, uids.  Operations: next batch, uid
assignment, repetition, chunking to workers, generation, gathering, union,
balancing, advantages, update.  Talks to: the dataset, the agent loop workers,
the reward functions, the actor.  Hard: rows are repeated, split, answered
concurrently, concatenated, sliced and permuted, and nothing but position ties
columns together.  Correct when: at the end each row still has its own
response, baseline and group, and advantages do not depend on the order.

**Length balancing** (`verl/utils/seqlen_balancing.py`).  State: the heap of
partial partitions of Karmarkar-Karp, the micro-batches.  Operations:
`karmarkar_karp`, `get_seqlen_balanced_partitions`, `rearrange_micro_batches`,
`restore_dynamic_batch`; `_balance_batch` of the trainer.  Talks to: the
trainer (once per step), the workers (once per forward or backward pass), the
other data parallel ranks (the largest count wins).  Hard: ties, sizes that
must come out equal, counts at their limits, an inverse permutation.  Correct
when: no row is lost or doubled, the spread is bounded, the order is restored
and no assertion fails on a legal batch.

**Checkpoints** (`verl/trainer/ppo/ray_trainer.py`,
`verl/utils/checkpoint/checkpoint_manager.py`, `fsdp_checkpoint_manager.py`).
State on disk: per role and rank a shard under `global_step_N`, `data.pt`, the
tracker file `latest_checkpointed_iteration.txt`.  State in memory: the step,
the epoch, the dataloader, `previous_saved_paths` of each role.  Operations:
save (capacity, folders, shards between barriers, registration with rotation,
dataloader, tracker), load, the schedule of `fit`.  Talks to: the file system,
the next launch of the job.  Hard: a crash between any two of these steps,
rotation that deletes while the tracker still names something old, a dataloader
whose saved state means different things inside and at the end of an epoch.
Correct when: a relaunch can always resume from what the tracker names, and the
weights a job ends with have been trained on whole epochs in order.

**Trainer over a transfer queue** (`verl/trainer/main_ppo_sync.py`,
`verl/trainer/ppo/padding_utils.py`).  State: the transfer queue (trajectories
and prompts with tags), the replay buffer, a copy of the tags that a thread
refreshes by polling, the batches in the driver's hands.  Operations: mark as
running, dispatch, put outputs, end a prompt, poll, merge, sample, attach REMAX
baselines, pad, clear, remove.  Talks to: the agent loop workers, through the
queue only; the checkpoint manager.  Hard: the buffer is always a little out of
date, a prompt ends with the first session that fails while others go on, and
nothing has a timeout.  Correct when: a sampled batch is the whole batch and
nothing else, and no failure makes the driver wait for ever.

**Fully asynchronous training** (`verl/experimental/fully_async_policy`).
State: the message queue, the rollouter's pending queue, running tasks, paused
flag and staleness count, the trainer's local step and parameter version.
Operations: feed, process, pause, drain, resume, put, get, collect, train,
update weights, save.  Talks to: the rollout servers, through the weight update
and through the tasks.  Hard: three event loops, a bounded queue that drops, a
lock held across awaits, counts read at different moments, an end signal in the
same queue as the samples.  Correct when: the number of samples on their way is
bounded, so samples do not age without limit, each sample is trained at most
once and lost only for a stated reason, nothing waits for ever and the end is
reached with the last version served and saved.

**Weight transfer** (`verl/checkpoint_engine/nccl_checkpoint_engine.py`,
`base.py`, `verl/workers/rollout/vllm_rollout/bucketed_weight_transfer.py`).
State: two send buffers, two receive buffers per checkpoint worker, the buffer
shared with the server's worker, the chunks and views in flight.  Operations:
split, pack, broadcast, swap, yield, merge, pack again, send, load, acknowledge.
Hard: buffers are reused while copies out of them are asynchronous, and
generators are consumed by generators.  Correct when: every server loads every
weight, byte for byte, once and in order.

**Request routing** (`verl/workers/rollout/llm_server.py`, the client and the
server manager of `fully_async_rollouter.py`, `vllm_async_server.py`,
`CheckpointEngineManager`).  State: the balancer's pool, counts and sticky
routes, the clients' partial answers, the servers' engines, paused and asleep.
Operations: acquire, generate, abort, resume, release, add and remove servers,
load, sleep, wake.  Hard: answers are aborted in mid-generation by every weight
update and taken up again elsewhere, while servers join and leave.  Correct
when: counts are right, an answer reports the versions it was made with, and
every request is answered.

**One-step off-policy training** (`verl/experimental/one_step_off_policy`): not
modelled; see the [plan](#plan).

**Everything else** (training and rollout engines, model code, losses, metrics,
configuration, worker groups over Ray, agent and tool loops, reward loop
routers, supervised fine-tuning, datasets and graders of verl, utilities, data
preparation, scripts) is listed in `PROJECT.json` with the reason for leaving
it out: tensor arithmetic, adapters to external servers, text processing, or
code the recipe does not run.

### How the models cut the system

The driver is sequential between components, so each component is a module of
its own with the neighbour's contribution as an assumption or a choice:

| boundary | on one side | on the other |
|---|---|---|
| length filter of data preparation | assumption `KeptRow` of `CisSwapMap` | |
| items by number | `ItemImage` of `CisSwapMap` | `Items`, `PromptOf` of `GrpoStep` |
| score of a response | `rewards` of `CisReward` | `Outcomes` of `GrpoStep`, any score |
| partitions of equal size | `BalancedResult` of `SeqlenBalancing` | `GlobalIdx` of `GrpoStep`, any such partition |
| order and position of batches | `order` of `GrpoStep` | `loader` of `PpoCheckpoint` |
| generation of a sample | `Finish`, `Fail` of `FullyAsync` | a request of `RolloutServers` |
| a weight update as a whole | `UpdateWeights` of `FullyAsync`, one step | the script of `RolloutServers`, servers one by one |
| the weights of a server | `Load` of `RolloutServers`, one step | `WeightTransfer`, byte by byte |
| a session and its outputs | `PutOutputs`, `Raise` of `ReplayQueue` | any agent loop |

Two modules compose several processes within themselves: `FullyAsync` the
rollouter's coroutines, the queue's actor and the trainer; `RolloutServers` the
clients, the balancer, the servers and the trainer's script.  `MCRolloutSide` runs
`WeightTransfer` to its end and then `RolloutServers`.  `MCTrainer` puts the five
modules of the driver side by side; they share no variable, so one of them moves
in a behaviour and the states are those of the five taken one by one.
Three modules are shown to implement an abstract one: `PpoCheckpoint` implements
`TrainingHistory`, `FullyAsync` implements `SampleStream`, `WeightTransfer`
implements `OrderedDelivery`.


## Modules

| module | lines it models | what it is |
|---|---|---|
| `CisSwapMap` | `cis_grpo/dataset.py` | the swap map and the items served |
| `CisReward` | `cis_grpo/reward_manager.py`, `base_reward` of `reward.py` | rewards of a batch |
| `GrpoStep` | `ray_trainer.py` (`fit`, `_balance_batch`, `compute_advantage`), `protocol.py`, `agent_loop.py` | the data of a step |
| `SeqlenBalancing` | `seqlen_balancing.py` | Karmarkar-Karp and its callers |
| `TrainingHistory` | none: a promise | what training and crashes may do to the weights |
| `PpoCheckpoint` | `ray_trainer.py` (`fit`, `_save_checkpoint`, `_load_checkpoint`), `verl/utils/checkpoint` | saving, crashing, resuming |
| `ReplayQueue` | `main_ppo_sync.py`, `padding_utils.py` | driver, poll thread and workers around a transfer queue |
| `SampleStream` | none: a promise | what asynchronous training does with the samples |
| `FullyAsync` | `fully_async_rollouter.py`, `message_queue.py`, `fully_async_trainer.py` | rollouter, queue and trainer |
| `OrderedDelivery` | none: a promise | what a weight update brings to the servers |
| `WeightTransfer` | `nccl_checkpoint_engine.py`, `base.py`, `bucketed_weight_transfer.py` | weights through two pipelines of buffers |
| `RolloutServers` | `llm_server.py`, `fully_async_rollouter.py`, `vllm_async_server.py`, `base.py`, `fully_async_trainer.py` | requests while weights and servers change |
| `CisGrpoProofs` (both CIS modules), `GrpoStepProofs`, `PpoCheckpointProofs`, `SeqlenBalancingProofs`, `ReplayQueueProofs`, `FullyAsyncProofs`, `WeightTransferProofs`, `RolloutServersProofs` | | inductive invariants and theorems |
| `MCTrainer`, `MCRolloutSide` | | the modules that are checked together |
| the other `MC*` | | constants for TLC |

Definitions whose comment begins with "Mutant of" are no part of any
specification: each is a plausible mistake in the definition it names, and the
property it is listed with in `PROJECT.json` fails when it takes that
definition's place.

### CisSwapMap

`data`, `swapOffset`, `shuffle` are the dataset and the options; `perm`,
`todo`, `passes` the locals of `_build_swap_map`; `swapMap` is `_swap_map`;
`warned` records whether the warning was logged.  `BuildFixedOffset`,
`BuildHalfOffset` and `BuildShuffled` are the three branches; `BeginPass`,
`VisitRepaired`, `VisitExchange`, `VisitNoPartner`, `EndPass` the repair loop;
`EndRepair` the count of residual violations; `Redirect` the safety net;
`SetEpoch` is `set_epoch`.

Everything random is a choice: any starting permutation, any order of the
violators, any acceptable partner, or none because the 32 draws missed it.  So
what holds here holds for every seed.  Answers are told apart and nothing else;
lengths are numbers of tokens.  `NoThinkTokens` is the length of the suffix
`_build_messages` appends to every prompt, zero when `append_no_think` is off; the
run has it on, as the code does by default.

### CisReward

A response is what scoring sees of it: the answer `_norm_ans` makes of its box,
whether the format matches, how many valid tokens it has.  An empty box gives the
empty answer (`NoAnswer`), which does not vote.  For a response without a box
`extract_boxed_content` returns the string "None", so its answer is "none"
(`NoBox`): it votes, and a real row without a box may agree with it.  Which answers
`grade_answer` accepts is a constant (`Correct`); the regular expressions and the
grader are outside.  `IdentitySwapped` says which counterfactual rows show their
own image; the manager does not look.  Rewards are integers with `One` for 1.0, so
equalities are exact.

`DecodeRow` is the loop that decodes and groups, a group's real and counterfactual
rows on a list each (`realIdxs`, `cfIdxs`), `ShapeGroup` the third pass for one group
in the order groups first appeared (`groups`), `Return` the end.  `MostCommon` is
`Counter.most_common(1)`, which prefers the answer counted first among equals.

### GrpoStep

A `DataProto` is a function from column names to sequences of equal length, so
an operation that forgets a column shows.  `StartEpoch` is the sampler,
`LoadBatch` the dataloader, the fresh uids and the repeated generation batch,
`Answer` one row answered and scored by its worker in any order, `Collect` the
gathering, slicing off of REMAX baselines, repetition and union, `BalanceBatch`
the reordering by any partition of equal sizes, each sorted by workload and laid
out from both ends (`GlobalIdx`), `ComputeAdvantage` the GRPO
distance to the mean of the uid's group (as a fraction, before the division by
the standard deviation) or the REMAX distance to the baseline, `Update` the
end of the iteration.

### SeqlenBalancing

`call` is the call with its arguments, from `_balance_batch` ("ranks") or from
`rearrange_micro_batches` ("micro").  `CountMicroBatches` computes the number of
micro-batches, `Split` makes the initial states, `Merge` pops and merges two,
`GetPartitions` is the end of `karmarkar_karp` with its assertions, `Arrange`
what the caller does with the partitions, `Restore` is `restore_dynamic_batch`.
Where the code breaks ties by comparing row lists, the model allows either
order: the properties do not depend on the tie-break.  `Ordered` is a sort by any
strict order.  `EvenSizes` and `Covering` are the two blocks of assertions.  The
other data parallel ranks, which only matter by the largest
number of micro-batches any of them wants, have as many rows as this one and so
want at most one micro-batch for each.

### TrainingHistory and PpoCheckpoint

`TrainingHistory` has two variables: the sequence of batches the weights were
trained on, and its length at the last finished save.  A step trains the next
batch of the running epoch or the first one of a new epoch; a save makes the
present length durable; a crash takes the history back, but never below what is
durable.

`PpoCheckpoint` represents the weights by that sequence, so that a shard file
holds the history it was saved with.  On disk: `shards`, `dataFiles`, `folders`,
`tracker` (a step number, absent or empty).  In the process: `globalSteps`,
`epoch`, `loader`, `history`, `saved` (`previous_saved_paths` by role), and `pc`
with `roleIndex` and `written` for the save under way.  One action per step that
touches the disk:

| action | code |
|---|---|
| `LaunchFresh`, `LaunchResume`, `LaunchFails` | `_load_checkpoint`, prologue of `fit` |
| `TrainStep`, `EndEpoch`, `EndOfEpochs`, `Advance` | the two loops of `fit`, `should_save_ckpt_esi` |
| `EnsureCapacity` | rank 0 before the first barrier, and the folder |
| `WriteShard(n)` | rank n's files, in any order between the barriers |
| `Register` | rank 0 after the second barrier, with rotation |
| `SaveDataloader`, `OpenTracker`, `WriteTracker` | end of `_save_checkpoint` |
| `Crash` | the process dies, between any two of these |

A removal by `shutil.rmtree` and the writing of one rank's files are one step
each.  `durable` is a history variable.

### ReplayQueue

A round is what the driver does with one batch: train on it, validate with it,
or clear the batch trained on.  `Following` is the loop nest of `fit` and
`_validate`, round by round: the batch of a training step is cleared only after
the validation that follows it.  `at` and `pc` are the driver's place in it,
`batch` the keys of the `KVBatchMeta` in its hands.  `stored` and `ended` are
the transfer queue: trajectories, and prompts with a status.  `buffer` and
`running` are the replay buffer, the trajectories and the prompts whose status
is still "running"; `snapshot` is a reply of `kv_list` between the call and
`add`.  `open` and `generating` are the tasks of the workers.

| actions | code |
|---|---|
| `MarkRunning`, `Dispatch` | `AgentLoopManagerTQ.generate_sequences` |
| `Sample` | `ReplayBuffer.sample` |
| `Score` | `_validate`, its reads of the queue |
| `TakeBaselines`, `RemoveBaselines`, `Pad`, `Update` | `step` |
| `ClearQueue`, `RemoveFromBuffer` | the cleanup at the end of a round |
| `Poll`, `Merge` | the poll thread |
| `PutOutputs`, `Raise`, `EndPrompt` | `AgentLoopWorkerTQ` |

The queue is external and each call of it is one step.  A batch without a
trajectory fails the assertion of the partitioning; a REMAX trajectory without its
baseline raises: both end the driver ("error").

### SampleStream and FullyAsync

`SampleStream` knows the samples taken from the dataset, those on their way, those
trained on, those whose generation failed, and whether training has closed the
stream.  A sample on its way may be pushed out only when as many as fit the queue
are on their way or the stream is closed.

`FullyAsync` has one action for what a coroutine does between two awaits.  `pc` is
`_processor_worker`, `running` and `finished` are `active_tasks` before and after the
task is done (the processor reaps them later), `lock` is the rollouter's
`asyncio.Lock` with its waiters in order, `resume` the event, `queue` the actor's
deque with the rollouter's version at each put, `tpc` the trainer's loop.  The two
halves of `reset_staleness` are `ResetBegin` and `ResetEnd`: it counts the running
tasks, awaits the queue's size, and adds.  `DecideToPause` and `Pause` are apart
because the processor waits for the lock between them.  `failed`, `dropped`,
`trained` and `savedSteps` are history variables.

### OrderedDelivery and WeightTransfer

`OrderedDelivery` lets each rank load the next weight of the trainer's sequence.
`WeightTransfer` has every buffer as a function from places to bytes, a byte being
a weight and a position in it.  The trainer packs (`PackChunk`) and broadcasts
(`BroadcastBucket`, `BroadcastLast`); `Broadcast(r)` is the arrival at a rank that
listens; `SwapBuffers`, `YieldView` and `MergeChunk` are the generators of a
checkpoint worker, driven by its sender's `Place`, `SendBucket`, `SendLargeWeight`
and `SendLastBucket`; `LoadTensor` and `Acknowledge` are the server's worker.
Copies are started by an action and done later by `LandCopy`, at the latest before
a synchronize of the code (`Synchronized`).

### RolloutServers

`pool`, `inflight` and `sticky` are the balancer; `phase`, `server`, `result`,
`minSteps` the locals of a client's `generate`; `engine`, `waiting`, `paused`, `asleep`,
`weights`, `steps` the servers.  `step` and `left` walk through `Script`: abort, drain,
load and resume on the standalone servers, and then the trainer-side validation,
which wakes the hybrid servers, lets them join, and sends them to sleep again.
Each step is done on its servers in any order, as `asyncio.gather` does it.
`releasing` is a `release_server` under way: the client does not wait for it, but
calls of one caller to an actor are executed in order, so its next acquire comes
after it.  `used` and `using` are history variables: the versions of the weights
tokens were really made with.  What vLLM does with a request while it sleeps is not
in this repository; such a request counts as stranded and is followed no further.


## Runs

The five modules of the driver are about safety only.  They state no fairness, and
`CHECK_DEADLOCK` is off in their configurations because these programs end: the
dataset has been reshuffled for the last time, the batch is returned, the job is
done or was started for the last time.

The others are about concurrent processes and state weak fairness of each process
as a whole, never of a choice within it:

- `ReplayQueue`: the driver, the poll thread and the workers.  Threads and event
  loops run what is ready, and an agent loop ends, with outputs or without.
  Nothing is assumed of failures.
- `FullyAsync`: the processor, the monitor (a timer every ten seconds), the trainer,
  and each task (a generation ends).  An event loop takes what is ready in turn,
  and `asyncio.Lock` hands itself over in the order of the waiters, which the
  model contains.
- `WeightTransfer`: the trainer and, per rank, the broadcast, the device's copies,
  the checkpoint worker and the server's worker.
- `RolloutServers`: each client and the trainer.  A generation that is not aborted
  ends.

The deadlock check is on in `replay_queue` and `fully_async`, whose `Stopped` is the
only way to stop.  It is off in `rollout_side`, where all requests are answered and
all updates done in the end.

| run | instance | states | shows |
|---|---|---|---|
| `trainer`, swap map | 4 rows, 12 datasets, offsets 0, 1 and 4, with and without shuffling, 2 passes, one reshuffle, the suffix on | 819 000 in all | `PermutationUnderRepair`, `OverflowOnlyBySuffix`, `SilentBuildIsClean`, `RepairNeverBreaks` |
| rewards | up to 4 rows, 2 prompts, 4 kinds of response | | `RewardsFollowGroups`, `InfoCoversRows`, `EntriesInRowOrder` |
| step | 4 items, batches of 2, 2 rollouts each, 2 workers, 2 ranks, both estimators, with and without shuffling and balancing | | `ColumnsAligned`, `AdvantageIgnoresOrder`, `EpochServesEachItemOnce` |
| balancing | 6 rows on 2 or 3 ranks; 3 to 5 rows in micro-batches of 4 tokens, other ranks wanting 0 or 3, divisor 1 or 2; rows of 1, 3 or 4 tokens (1 or 4 where there are five) | | `ItemsOnce`, `SpreadBounded`, `BalancedResult`, `RestoredInOrder`, `FailsOnlyWhenRounded` |
| checkpoints | actor with limit 2, critic with limit 3, 2 ranks, 3 epochs of 2 steps, saves every 2 steps, at the end and whenever the instance is about to expire, critic warm-up 2, 3 launches | | `TrackedIsComplete`, `OnlyTornTrackerBlocks`, `RetentionKept`, `FinishedMeansTrained`, `TrainsOnWholeEpochs` |
| `replay_queue` | two steps, validation before them and after the second; one prompt with two sessions per training batch, with a greedy copy under REMAX; two prompts per validation; padding to even batches; one prompt may fail | 940 000 | `BatchWhole`, `TrainingStops` |
| `fully_async` | 7 samples, one per step, 2 steps per version, 2 samples of staleness, 2 tasks at once, validation and saves every second version, one generation may raise | 585 000 | `StreamKept`, `QueueAge`, `TrainedAllAtEnd`, `EndsSaved`, `TrainingEnds` |
| `rollout_side`, transfer | 8 weights of 1 to 4 bytes, buckets of 2 bytes, 2 ranks | 125 000 in all | `MergesInOrder`, `WeightsDelivered` |
| servers | 2 requests, 1 standalone server, 1 hybrid one, 2 updates with a validation each | | `LoadTracked`, `VersionsReported`, `RequestsAnswered` |

Each part but the rewards has its type invariant checked too (the types of the
reward tensor are part of `RewardsFollowGroups`).  The other eight runs are the
[findings](#findings).

### What the properties say, and why the bounds are enough

Swap map.  *PermutationUnderRepair*: hundreds of in-place exchanges never drop
or double an image.  *RepairNeverBreaks*: a visit never turns a good row bad and
an exchange strictly shrinks the set of violators; with the both-sided test of
the code this is true although the list of violators is stale.
*OverflowOnlyBySuffix*: whatever the passes could not fix, no served prompt of a
shuffled map is over the budget by more than the suffix that is added to it
afterwards.  That none is over the budget at all, as the code's comment has it,
is true without the suffix only (finding 1).  *SilentBuildIsClean*: no warning
means the map keeps all three constraints.  With four rows an exchange between
two rows can leave two other violators behind; the answers range from all
different but two to a majority that makes residual violations certain, the
lengths from slack to half of the rows tight, and one family has no token
columns, where the budget is off.  Two passes let a second pass follow an
unsuccessful first one (the code has five).  The proofs remove all these bounds.

Checkpoints.  *TrackedIsComplete*: every shard of the checkpoint the tracker
names is there, all of one training state, with the dataloader state of that
moment.  *OnlyTornTrackerBlocks*: nothing but a half-written tracker stops a
relaunch.  *RetentionKept*: what a process has registered is within the limit
and complete.  *FinishedMeansTrained*: a job that ends has trained as many
batches as it was asked for; resuming never skips.  *TrainsOnWholeEpochs*: every
behaviour, with its crashes and relaunches, is one of `TrainingHistory`.  Two
ranks are enough for a shard to be there and another not; limits of two and
three make both roles rotate, at different saves; two steps an epoch give saves
inside and at the end of an epoch; three launches give a crash during a resumed
run and a resume from its remains.  The model counts expiry of the instance as
possible at every step, so every choice of save points occurs.

Rewards.  *RewardsFollowGroups* states steps 3 to 5 of the manager's
description as a relation on the final tensor, for some most frequent answer of
the CF rows of each group; it includes the position that carries the reward and
the zeros elsewhere.  *InfoCoversRows*: exported entries are those of the rows,
each once, and the counters behind the rates agree with them.
*EntriesInRowOrder*: the trainer takes entry k for row k, and that is right, although
entries are written group by group, for a batch whose groups are adjacent with
their real rows first.  (For other batches it is wrong, see the observations.)
Four rows give two groups of two or one of four, so ties between two answers and
majorities of two to one both occur, in every interleaving of groups; the four
responses are an empty one, which has no box, one with an empty box, and one with
the right answer to each of the two prompts, with and without the format.

Step.  *ColumnsAligned*: after all repeating, chunking, gathering, slicing
and permuting, each row has its own sampled response, its own greedy baseline,
and a uid shared with exactly the other rollouts of its item: not with those of
the same prompt under the other image, which comments of the recipe have in the
same group (finding 4).
*AdvantageIgnoresOrder*: the advantages are those of the groups of responses to
the same item wherever balancing put them, and cancel out over a group, as a
comment in `fit` promises.  *EpochServesEachItemOnce*: no item twice, fewer than
a batch left out.  Two batches make a whole epoch; two rows times two rollouts on
two workers make each chunk hold the rollouts of one item, and for REMAX
(six rows in two chunks) a chunk that straddles items and baselines.

Balancing.  *ItemsOnce* and *SpreadBounded* hold throughout the merging:
each row is in exactly one set of one state, and no state's spread is wider than
the difference of two rows (one row when sizes are free).  *BalancedResult* is
what callers rely on, in true workloads rather than the sums carried along.
*RestoredInOrder*: results come back at the place of their rows.
*FailsOnlyWhenRounded*: the assertions fail for one reason only, a divisor that
asks for more micro-batches than rows.  Six rows give three rounds of merging
for two ranks and states with three sets for three ranks; three lengths give
ties and differences.  The linear coefficient is that of the code.

`replay_queue`.  *BatchWhole*: whatever the order of polls, outputs, ends and
failures, a sampled batch has all trajectories of every prompt that did not fail,
whose sessions are then all over, only trajectories of its own round, and only
such as are still in the queue.  It rests on three orders: a prompt is marked
before it is handed out, its end is put after its trajectories, and a global step
is used once per partition.  *TrainingStops*: a session that raises, an empty output
or a missing baseline may end training with an error but never leave the driver
waiting.  Two training steps and two validations give each partition something
old to confuse with something new; two sessions a prompt give a failing prompt a
session that outlives it; one failure is the case that tells prompts apart.  With
two batches per validation the last conjunct fails (finding 8).

`fully_async`.  *StreamKept*: every behaviour of the three parts is one of
`SampleStream`: samples are taken in order, at most `MaxRequired + 1` of them are on
their way, each is trained on once at most, and one is lost only by a failed
generation, out of a full queue, or after the stream was closed.  The documented
bound is `MaxRequired`, and the code exceeds it by one (finding 5).
*QueueAge*: though nothing looks at the age of a queued sample, it is collected at
most `MaxRequired \div PerVersion` versions after it was put.  *TrainedAllAtEnd*: the
end signal overtakes no sample, so at the end fewer than a step's samples are
neither trained on nor dropped.  *EndsSaved*: the last version is served and saved,
whichever periodic saves and updates were skipped.  *TrainingEnds* is liveness: pause,
drain, resume and the waits with the lock held leave someone able to move, where
the threshold allows at least as many stale samples as there are tasks.  Below
that, and so in the documented modes with a threshold of zero, training may hang
(finding 6).
Seven samples make three versions and an incomplete fourth, so that the rollouter
runs into each of its limits and starts again; two tasks at once finish in either
order; one step per version would hide the local step, so there are two.

Transfer.  *MergesInOrder*: the assertions of the code hold, and pieces of a
large weight arrive in order with nothing in between.  *WeightsDelivered*: the pipeline
implements `OrderedDelivery` with its fairness, that is, nothing is corrupted by a
reused buffer and everything arrives.  The sizes make two weights share a bucket, a
weight end in the middle of a bucket and the next follow it, fill one bucket exactly
and two of them; eight weights use each buffer of each stage several times.

Servers.  *LoadTracked*: the count of a standalone server is the number of
requests it has, plus the releases under way, and that of a server that comes and
goes is never higher than that.  *VersionsReported*: the versions an answer reports
are those its tokens were made with, although every update aborts it and it may go
on elsewhere.  *RequestsAnswered*: every request is answered (or stranded on a
sleeping engine) and every update comes to an end.  The hybrid server gives the
balancer a choice while it is there, takes requests over and hands them back, and
the two are aborted and resumed one after the other; two updates make it join, leave and join again, so that a stale release meets a newer
count; two requests are enough for that.  With a second standalone server the
answers have one more place to go to; the proofs of *LoadTracked* and
*VersionsReported* have any number.


## Findings

Eight runs are expected to end in a counterexample: a doc or a comment says one
thing and the code does another.

1. `swap_map_no_think`.  The third constraint of the swap map "prevents vLLM
   overflow" (`dataset.py:168-169`).  The budget is compared with the counted
   tokens, and the suffix ` /no_think`, which is on by default (`dataset.py:99`), is
   appended to the prompt later (`dataset.py:271`): a pair that fills the budget is
   served over it.
2. `ppo_checkpoint_keep_one`.  With `max_actor_ckpt_to_keep=1` the old
   checkpoint is said to stay until the new save completes
   (`checkpoint_manager.py:156`).  It is removed when the actor's part is
   registered, before the critic, `data.pt` and the tracker; a crash there
   leaves a tracker that names a checkpoint without its actor, and the job does
   not start again.
3. `cis_reward_identity`.  A row that was redirected to its own image is said to be
   treated by the reward manager "as unweighted noise" (`dataset.py:244-246`).  The
   manager looks at `is_cf` only: the answer of such a row votes, takes the bonus
   from real rows that agree with it, and costs the penalty when it is right.
4. `grpo_step_pair`.  The two rows of a prompt are said to share one uid "so a
   single GRPO advantage group contains both" (`dataset.py:2-4`, also `:302`,
   `reward_manager.py:4`, `:19` and the repository's `README.md:11`).  `fit`
   overwrites the column with a uid per row (`ray_trainer.py:1439`), so they are two
   groups.
5. `fully_async_one_more`.  The rollouter is said to generate at most the samples
   of a version and its staleness allowance between two updates
   (`fully_async_policy/README.md:136-138`).  One more is possible:
   `reset_staleness` counts the active tasks and the queue while the processor
   holds a sample in neither, and overwrites the count the processor has raised.
6. `fully_async_few_stale`.  The reset is there to let the rollouter "resume
   submitting new samples" (`fully_async_rollouter.py:571-572`).  It counts
   `active_tasks`, which lists tasks that are done until a pause or the limit on
   tasks makes the processor reap them.  A sample that was trained on already
   then takes up the allowance, the rollouter reaches its limit before the
   trainer has the samples of the next version, and the two wait for each other
   for ever.  The run has an allowance of one sample and two tasks.  With
   `staleness_threshold=0`, as in the first two modes and in the quick start of that
   README, the same happens when the drain has not reaped the last task before the
   reset comes.
7. `rollout_servers_no_partial`.  Without partial rollout the rollouter is said to
   wait for ongoing tasks when weights are synchronized
   (`fully_async_policy/README.md:216-217`).  `update_weights` aborts all requests
   whatever the setting, and the client returns the torso as the answer.
8. `replay_queue_many_val`.  The comment at `main_ppo_sync.py:964` says that queue
   and buffer are cleaned up.  A reply of `kv_list` that was given before the
   cleanup and is merged after it brings the cleared trajectories back into the
   buffer for good; the batches of a validation share one global step, so the
   next batch samples them and asks the queue for what it no longer has.


## Observations

Seen while modelling, in the models or in the code, without a run of their own.

In the recipe:

- `dataset.py:152` says the map enforces different ground truths; the branch
  without reshuffling (and the one with a configured offset) pairs row i with
  row i + N/2 without looking, and logs nothing.
- `reward_manager.py:18` says that CF rollouts with the answer enlarge the
  baseline.  Their reward is -beta, so they would lower the mean of a group they
  belong to.  Since the pair is not one group the effect does not arise.
- A response without a box has the answer "none", which votes and can be the most
  frequent one; then every real row with a box, even an empty one, earns the bonus.
- The manager writes its entries group by group, real rows first, and the trainer
  reads them row by row (`ray_trainer.py:1594`).  In a batch whose groups are not
  adjacent, as after balancing, entries land on other rows; and the two rates put
  all real rows of the batch before all counterfactual ones
  (`reward_manager.py:197-202`).
- Hook and manager are said to both go through `compute_score` (`reward.py:15-16`);
  the manager calls `base_reward` and has the penalty again.  The hook scores with
  the default format weight 0.1 (`reward.py:83`), the manager with 0.1 or 0.0 by
  `use_format_in_base` (`reward_manager.py:85`).
- `set_epoch` is documented as called by the training loop, which never does;
  under a sampler over items the two rows of a prompt need not share a batch.

In checkpoints and batches:

- The tracker is written "for atomic usage" (`ray_trainer.py:1027`) by truncating
  and writing it in place; a crash between leaves an empty file, on which every
  relaunch raises although all checkpoints are intact.  `OnlyTornTrackerBlocks`
  shows that this is the only window.
- After a relaunch checkpoints of earlier launches are never rotated; a finished
  job whose `total_training_steps` is below the epochs' total trains one more
  step each time it is started again.
- `max_token_len` is documented as the most tokens of a micro-batch
  (`seqlen_balancing.py:363`).  It only determines their number: four rows of
  three tokens under a limit of four give three micro-batches, one with six.

In the trainer over a transfer queue:

- What a session of a failed prompt puts after sampling is never cleared, nor are
  the keys of the prompts themselves; queue and buffer grow over a run.
- In bypass mode `_compute_old_log_prob` returns nothing (`main_ppo_sync.py`, "Use
  `rollout_log_probs`"), and `step` goes on with that as its batch.

In asynchronous training:

- A generation that raises ends the processor and with it the stream; `gather` with
  `return_exceptions` swallows the exception (`fully_async_rollouter.py:1034`), and
  training ends as if the data were used up.
- Samples in flight when the rollouter dies are not among what it saves.

In the rollout servers and the transfer:

- A request that reaches a hybrid server between its abort and its removal waits
  there; the drain before sleep looks only at what is generated
  (`vllm_async_server.py:1063`), and the resume that follows (`fully_async_trainer.py`,
  `_trainer_side_validate`) wakes the request on a sleeping engine.
- If the transfer fails after abort and release, no step resumes the replicas
  (`base.py:495`); if a receiver fails to load a bucket, the sender waits for an
  acknowledgement that never comes (`bucketed_weight_transfer.py:132`).
- A weight of no bytes has no chunk and is never sent (`base.py:532`).
- A LoRA adapter larger than a bucket is added once per bucket, each time with a
  part of its tensors (`verl/workers/rollout/vllm_rollout/utils.py:262`).


## Proofs

TLC checks the instances above; the theorems hold for every value of the
constants that meets the assumptions of the module.

### CisGrpoProofs: the swap map

Assumptions: `N` at least two (the constructor refuses a smaller dataset),
natural numbers for lengths and bounds, and `KeptRow`, the length filter of data
preparation.

The inductive invariant `IInv` is the type invariant, `PermutationUnderRepair`,
and `Served`, which ties the map in service to the permutation it was made from:
while a shuffled map is in service it is the redirected `perm`, `perm` is not
being touched, and `warned` is the truth about its violators.  `Served` is needed
because the properties about the served map are about a moment long after the
repair.

- `TypeCorrect`, `RepairKeepsPermutation`: exchanging two entries of an injective
  function leaves it injective.
- `OverflowIsSuffix`: no served item of a shuffled map is over the budget by more
  than the suffix.  A row either fits with its borrowed image or is redirected to
  its own, with which it fits by `KeptRow`.
- `SilenceMeansClean`: without violators nothing is redirected.
- `RepairIsMonotone`: an action property.  An exchange changes two rows, both of
  them allowed afterwards, so violators can only leave.

### CisGrpoProofs: the rewards

Assumptions: natural weights with the format's at most one, a response no longer than
the tensor, and the empty response without box and format.  Any number of rows,
prompts and responses, any grading: the order of the rows, the ties between answers
and the sizes of groups are all covered.  All three properties of the run are theorems.

The inductive invariant `RewardInv` is about lists.  `Grouping` says that every row is
once on the list of its kind in the group of its uid; `Tensor` that a row of a group
not yet shaped carries nothing and any other its shaped reward, at its last valid
token; `Exported` that the entries are those of some list of exactly the shaped rows,
which is what relates entries written group by group to rows; `Counted` that the
counters count those entries.

- `GroupsShapeRewards`: `MajorityIsMode` shows that `most_common(1)` returns one of the
  most frequent answers.  The `CHOOSE` behind it is only of use if an answer meets its
  condition: among the answers some has the largest count and, of those, one the
  smallest first index, by well-foundedness of the natural numbers (`LeastNumber`).
- `InfoComplete`: a set has as many elements as its list has places (`PlacesCount`), and
  joining lists adds (`PlacesJoined`).
- `EntriesOrdered`, with an invariant of its own, `OrderInv`: the lists of a group
  ascend (`RisingLists`), groups are in the order of their first rows (`FirstSeen`),
  and what has been shaped is a front part of the batch, row by row, if the batch is
  as the property asks (`FrontShaped`).  The next group then begins where the front
  part ends (`GroupIsNext`), and its real rows joined with its counterfactual ones
  are a rising list over an interval, which is the interval itself (`RisingInterval`).

### GrpoStepProofs

Assumptions: positive sizes, a batch no larger than the dataset, and rows that
divide among the workers, as `chunk` asserts.  Any dataset, number of rollouts,
workers, ranks and epochs, any integer scores.  All four properties of the run
are theorems.

The inductive invariant traces rows.  A loaded batch has different items and
different uids (`Loaded`); row i of the generation batch is row `Source(i)` of it
(`GenRowsOK`); an answer belongs to the row of the generation batch its worker and
its place in the chunk stand for (`Answered`).  `Grouped` says that numbering rows
by worker and place, or by prompt and rollout, is one to one, and so `GatheredRows`
and `CollectedRows` find each response beside its own prompt.  From then on rows
are whole and each item has `RolloutN` of them (`Aligned`), which any permutation
keeps (`TimesReordered`); that balancing is a permutation is `GlobalIdxFacts`.

`OrderIgnored` needs that the group of a uid is the set of an item's responses, and
that distances to the mean cancel out (`SumOfDistances`, by induction over sets as in
`SeqlenBalancingProofs`).  `ServedOnce` needs `Sampling`, that the sampler's rest, the
batch in hand and what is trained share no item, and `Progress`, that every batch of
the epoch is accounted for.

### PpoCheckpointProofs

Assumptions: a finite non-empty set of ranks, the roles actor or actor and
critic, natural numbers in the schedule.  Any number of ranks, launches, steps
and epochs, any save frequency and limits.

Three inductive invariants, in layers.

`Retention` is `TypeOK` with: `LoadersStarted` (a loader that yielded has drawn an
order, so a recorded batch is a batch), `Registered` (registered paths ascend, are
within the limit and complete), `NotAhead` (none is ahead of the current step) and
`Written` (what the save under way has put on disk so far).  The order of the
paths is what makes it inductive: rotation removes a prefix, and that the files of
the remaining ones survive needs that they are different steps.  It holds for all
limits and gives `TypeCorrect` and `RetentionHolds`.

`Durable`, on top of it, is: `Counted` (the weights' history is as long as the
steps counted, and ends where the dataloader stands), `TrackerBehind`,
`TrackedIsLast` (all registered paths but the last are not what the tracker
names), and the two properties themselves.  `TrackedIsLast` is the heart: rotation
spares the last registered path, so it spares the checkpoint the tracker names,
until the tracker has moved on.  With a limit of one, rotation does not spare
the last path and the invariant fails, which is finding 2; the theorems
`TrackedStaysComplete` and `OnlyTearingBlocks` therefore assume `KeepsLast`, that
no role has limit one.  Limits of zero (keep everything) and of two or more are
covered.

`Continuous`, on top of `Retention` alone, keeps step, epoch and dataloader in step
with the weights' history (`InStep`) and makes what the tracker names a prefix of
it: of its shards, those that are there hold the history up to that step, and its
dataloader stands where that prefix ends (`TrackedPrefix`).  It holds for every limit
and gives `FinishedIsTrained` (a
finished training has trained on every batch of every epoch once) and
`HistoryImplemented`, the step simulation of `TrainingHistory`.

The lemmas about trimming (`RoleFacts`, `Trimmed`, `RemovedPaths`, `Rotation*`) say
what `EnsureCapacity` and `Register` have in common: removing a prefix of a
strictly ascending list of steps leaves the files of the rest.

### SeqlenBalancingProofs

Assumptions: non-empty batches; for ranks a number of partitions that divides the
rows; for micro-batches no row longer than the limit, and other ranks that want at
most one micro-batch for each row.  Any rows, workloads, divisor, and any order of
equal sets and states.  All six properties of the runs are theorems.

The inductive invariant says of every state on the heap (`StateOK`) that its sets
share no row, that the sums are the true ones and decrease, and that the spread is
within the bound; of two states that they share no row.  Two parts are there for
the assertions of the code.  For ranks all sets of a state have as many rows
(`Level`).  For micro-batches, where most sets begin empty, `Sparse` says that as
long as one is empty none has two rows: empty sets are the lightest and so come
last, and a merge puts the first of one state with the last of the other, so two
empty sets meet only if no two full ones do.  Then the last state, with at
least as many rows as sets, has no empty set, and `NoneEmpty` and `LevelShare` give
the assertions.  `MergedNarrow` is why a merge never widens the spread: the sums of
one state decrease while the ones they are added to increase.

What folds compute is proved by induction over sets, from the fact that a set of
natural numbers has a least element (`LeastNumber`, from the well-foundedness
theorems of the library): `MapThenSumSet` is additive over disjoint sets
(`SumUnion`), `FlattenSeq` of sequences without repetition and in common has each
element once (`FlattenedOnce`), a sort has every element once (`InOrder`).

### ReplayQueueProofs

Assumption beyond those of the module: `ValBatches = 1`, in `BatchesWhole` only.
Two validation batches of one round share a partition and a step, and there the
property is false: finding 8 and the run `replay_queue_many_val`.  Any number of
steps, prompts, sessions, outputs and failures.

Rounds are ordered, and all that the buffer, the workers and the queue hold is of
the driver's round or an earlier one (`Working`, `Keyed`), so a new round begins
with prompts nobody has heard of.  `Whole` follows a round's trajectories: of a
prompt that has ended without raising all are in the queue; a reply of the poll that
tells the end has them too; the buffer, once it no longer has the prompt as running,
has them; and so has the batch that is sampled.  None of them leaves the queue
before the round is cleared.

### FullyAsyncProofs

Assumptions: positive sizes, as in the module.  Any staleness threshold, number of
tasks, dataset and any failures.

`Places` says that a sample is in one place at a time, `Bounded` how many are on
their way, counting those trained on since the staleness was last reset, `InOrder`
that a sample's place in the stream bounds the versions it can wait, `Control`
where rollouter, queue and trainer can be together, `Complete` that nothing is lost
silently, `Recorded` what is trained and saved.  Besides the invariants the runs
check, `StreamImplemented` is the step simulation of `SampleStream`: every step of
the three is one of the stream's or leaves it alone.

### WeightTransferProofs

Assumptions: a positive bucket, weights of at least one byte.  Any set of ranks.

A place in the stream of chunks is a weight and a byte of it.  `Chain` says that
what is packed, broadcast, arrived, yielded and merged are stretches of that stream
that join without a gap, each in a buffer that holds its bytes; `Numbered`, that a
rank holds consecutive weights from the ones loaded to where the stream is;
`Landing`, that a copy under way still finds its source, although both buffers are
in turn; `Readable`, that a server's worker reads what was sent.  `DeliveredInOrder`
is the safety half of `WeightsDelivered`: every step loads the next weight with the
trainer's bytes or loads nothing.

### RolloutServersProofs

Assumption: finite sets of requests and of standalone and hybrid servers, which are
disjoint, with a standalone one.  Any number of interruptions and updates, with and
without partial rollout.

`Rolling` says what the position in the trainer's script tells of the servers: who
is paused, who sleeps, whose weights are new.  `Placed` says where the requests
are.  Together: a server that generates has the weights of the present version, or,
before they are loaded, of the one before, and nobody generates while they change.
`Reported` needs that to follow `min_` and `max_global_steps` through interruptions.
`Counted` relates the balancer's counts to the requests and gives `LoadsTracked`.

### Only model-checked

- Liveness, fairness and `ENABLED` are out of the prover's reach: the liveness
  of `ReplayQueue`, `FullyAsync` (`TrainingEnds`) and `RolloutServers`, and the
  fairness part of `WeightsDelivered`.  Of the three refinements the proofs
  cover the steps.
- The deadlock checks.


## What is not covered

- Within the modelled components: the loading and single-image filter of the
  dataset's constructor (they only determine the set of rows); the regular
  expressions and the grader behind scores; the per-row hook `compute_score`,
  which is two formulas, and the two rates the manager exports; the check of
  `union` that columns in common are equal, which holds by the columns there
  are; log probabilities, values, KL terms and validation in a step (they add
  columns row by row); the estimators other than GRPO and REMAX;
  `greedy_partition`, which nothing calls, and the grouped balancing variants;
  Megatron's asynchronous save, HDFS, and explicit resume paths.
- Within asynchronous training: checkpoints and recovery of the rollouter, the
  early save before an instance expires, profiling, servers other than vLLM 0.12
  or later (older ones and SGLang do not pause on an abort), eviction from the
  routing cache, teacher models, the transports other than NCCL and the
  shared-memory variant of the second stage, set-up and tear-down of sockets and
  process groups.  Subscribers are taken to be known to the publisher after the
  barrier of `init_process_group`; ZeroMQ drops what is published earlier.
- Also there: the return of 0 when adding or removing a server raises, which only a
  dead actor can cause; a request woken up on a sleeping engine ("stranded"), which
  is exempt from `RequestsAnswered`; a weight of no bytes, which the assumption on
  sizes excludes, and a receiver that raises.
- Within the trainer over a transfer queue: the columns computed between sampling
  and cleanup, metrics and dumps, and a worker that dies (`ray.get` of a dispatch
  raises only then, and ends the driver).
- Failures inside one removal or one rank's write are not divided further, and
  the file system is taken to keep what was written in the order it was written.
- The components without a module, each with its reason in `PROJECT.json`.


## Plan

Done: the recipe's own path from dataset to checkpoint, the trainer over a
transfer queue, and asynchronous training with its queue, its weight transfer and
its request routing.  Next, in this order:

1. **One-step off-policy training**: the generation of the next batch overlapping
   with the update of this one, and which weights each batch was sampled with.
2. **Recovery of asynchronous training**: what is lost of the samples in flight when
   rollouter or trainer starts again.

The set of runs is kept at a dozen: modules that do not interact share one, so that
a disagreement between the code and what is written about it has a run of its own.
