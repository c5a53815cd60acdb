---------------------------- MODULE ReplayQueue ----------------------------
(***************************************************************************)
(* The synchronous trainer over a transfer queue, main_ppo_sync.py.  The   *)
(* driver marks the prompts of a batch as running in the replay buffer,    *)
(* hands them to the agent loop workers and samples the buffer when none   *)
(* of them is running any more.  The workers put trajectories and, when    *)
(* all sessions of a prompt are over or one has raised, the prompt's end   *)
(* into the transfer queue.  A thread of the driver polls the queue and    *)
(* merges the reply into the buffer; the driver clears what it has used    *)
(* first in the queue and then in the buffer.                              *)
(*                                                                         *)
(* The transfer queue is external: a call is one step, a reply is what the *)
(* queue holds at that step.  Starting the sessions of a batch is one      *)
(* step, the ray.get of the dispatch.  Evaluation of log probabilities and *)
(* the like reads and writes columns of the batch's keys only and is part  *)
(* of Update.                                                              *)
(***************************************************************************)
EXTENDS Integers, Sequences, FiniteSets, SequencesExt

CONSTANTS
    Steps,          \* total_training_steps
    TestFreq,       \* validate every so many steps
    ValBatches,     \* batches of the validation dataloader
    BatchSize,      \* prompts of a training batch
    ValBatchSize,   \* prompts of a validation batch
    Rollouts,       \* rollout.n
    ValRollouts,    \* rollout.val_kwargs.n
    BatchMultiple,  \* _get_required_batch_multiple
    MaxOutputs,     \* bound: outputs of an agent loop
    MaxFailures     \* bound: prompts with a session that raises

ASSUME QueueAssumption ==
    /\ {Steps, TestFreq, ValBatches, BatchSize, ValBatchSize} \subseteq Nat \ {0}
    /\ {Rollouts, ValRollouts, BatchMultiple} \subseteq Nat \ {0}
    /\ MaxOutputs \in Nat /\ MaxFailures \in Nat

\* What is done round by round: a batch of a step generated and used, validation batches, the clearing of the step's
\* batch after the validation.
Kinds == {"train", "val", "cleanup"}
Rounds == [kind : Kinds, step : 0 .. Steps, part : 1 .. ValBatches]
Round(kind, step, part) == [kind |-> kind, step |-> step, part |-> part]
LastRound == Round("cleanup", Steps, 1)

\* fit and _validate.
ValidatedAfter(step) == step % TestFreq = 0 \/ step = Steps
Following(r) ==
    IF r.kind = "val" /\ r.part < ValBatches THEN Round("val", r.step, r.part + 1)
    ELSE IF r.kind = "train" /\ ValidatedAfter(r.step) THEN Round("val", r.step, 1)
    ELSE IF r.kind = "cleanup" \/ r.step = 0 THEN Round("train", r.step + 1, 1)
    ELSE Round("cleanup", r.step, 1)

Partitions == {"train", "val"}
PartitionOf(key) == key.uid.round.kind
StepOf(key) == key.uid.round.step

VARIABLES
    remax,          \* adv_estimator is REMAX
    \* driver
    at,             \* round
    pc,             \* where it is in the round
    batch,          \* per partition, the keys of the batch in hand
    \* replay buffer
    running,        \* prompts whose status is "running"
    buffer,         \* trajectories, all of them "success"
    snapshot,       \* reply of the last kv_list, until it is merged
    \* agent loop workers
    open,           \* prompts whose _run_prompt goes on
    generating,     \* sessions that go on
    raised,         \* prompts of which a session has raised
    \* transfer queue
    stored,         \* trajectories
    ended           \* prompts with a status, "finished" or "failure"

driverVars == <<at, pc, batch>>
bufferVars == <<running, buffer>>
workerVars == <<open, generating, raised>>
queueVars == <<stored, ended>>
vars == <<remax, driverVars, bufferVars, snapshot, workerVars, queueVars>>

\* Prompts of a round; REMAX adds a greedy copy of each.
Uid(r, prompt, greedy) == [round |-> r, prompt |-> prompt, greedy |-> greedy]
Uids(r) ==
    IF r.kind = "val"
    THEN {Uid(r, prompt, FALSE) : prompt \in 1 .. ValBatchSize}
    ELSE {Uid(r, prompt, greedy) : prompt \in 1 .. BatchSize, greedy \in {FALSE, remax}}
Sessions(uid) == 1 .. IF uid.round.kind = "val" THEN ValRollouts
                      ELSE IF uid.greedy THEN 1 ELSE Rollouts
Key(uid, session, index) == [uid |-> uid, session |-> session, index |-> index]

Over == pc \in {"over", "error"}
Kind == at.kind
InHand == batch[Kind]

-----------------------------------------------------------------------------
(* The driver: a batch is generated and sampled. *)

\* Mutant of MarkRunning: the prompts are known by their results only.
MarkNothing ==
    /\ pc = "generate"
    /\ pc' = "dispatch"
    /\ UNCHANGED <<remax, at, batch, bufferVars, snapshot, workerVars, queueVars>>

\* generate_sequences of the manager: the prompts are marked before any worker hears of them.
MarkRunning ==
    /\ pc = "generate"
    /\ running' = running \union Uids(at)
    /\ pc' = "dispatch"
    /\ UNCHANGED <<remax, at, batch, buffer, snapshot, workerVars, queueVars>>

Dispatch ==
    /\ pc = "dispatch"
    /\ open' = open \union Uids(at)
    /\ generating' = generating \union UNION {{uid} \X Sessions(uid) : uid \in Uids(at)}
    /\ pc' = "sample"
    /\ UNCHANGED <<remax, at, batch, bufferVars, snapshot, raised, queueVars>>

OfRound(key) == PartitionOf(key) = Kind /\ StepOf(key) = at.step

\* sample: by partition and global step.
Sample ==
    /\ pc = "sample"
    /\ \A uid \in running : ~OfRound([uid |-> uid])
    /\ batch' = [batch EXCEPT ![Kind] = {key \in buffer : OfRound(key)}]
    /\ pc' = "sampled"
    /\ UNCHANGED <<remax, at, bufferVars, snapshot, workerVars, queueVars>>

-----------------------------------------------------------------------------
(* The driver: what it does with the batch. *)

\* _validate reads the batch; reading nothing, or what is not there, may raise.
Score ==
    /\ pc = "sampled" /\ Kind = "val"
    /\ \/ pc' = "clear"
       \/ InHand = {} /\ pc' = "error"
       \/ ~(InHand \subseteq stored) /\ pc' = "error"
    /\ UNCHANGED <<remax, at, batch, bufferVars, snapshot, workerVars, queueVars>>

Baselines == {key \in InHand : key.uid.greedy}

\* _add_remax_reward_baselines: each sampled trajectory gets the score of its prompt's greedy one, and the greedy ones
\* are cleared in the queue.
TakeBaselines ==
    /\ pc = "sampled" /\ Kind = "train" /\ remax
    /\ IF /\ Baselines # {}
          /\ \A key \in InHand \ Baselines : \E base \in Baselines : base.uid = [key.uid EXCEPT !.greedy = TRUE]
       THEN stored' = stored \ Baselines /\ pc' = "baselines"
       ELSE pc' = "error" /\ UNCHANGED stored
    /\ UNCHANGED <<remax, at, batch, bufferVars, snapshot, workerVars, ended>>

RemoveBaselines ==
    /\ pc = "baselines"
    /\ buffer' = buffer \ Baselines
    /\ batch' = [batch EXCEPT ![Kind] = @ \ Baselines]
    /\ pc' = "pad"
    /\ UNCHANGED <<remax, at, running, snapshot, workerVars, queueVars>>

\* upsample_batch_to_divisible_size: padding under a prompt of its own.  A batch of nothing cannot be partitioned.
Padding ==
    LET rest == Cardinality(InHand) % BatchMultiple
    IN  {Key(Uid(at, 0, FALSE), i, 1) : i \in 1 .. IF rest = 0 THEN 0 ELSE BatchMultiple - rest}

Pad ==
    /\ \/ pc = "sampled" /\ Kind = "train" /\ ~remax
       \/ pc = "pad"
    /\ IF InHand = {}
       THEN pc' = "error" /\ UNCHANGED <<batch, stored>>
       ELSE /\ stored' = stored \union Padding
            /\ batch' = [batch EXCEPT ![Kind] = @ \union Padding]
            /\ pc' = "update"
    /\ UNCHANGED <<remax, at, bufferVars, snapshot, workerVars, ended>>

\* The next round, or the end of fit.
NextRound ==
    /\ at' = IF at = LastRound THEN at ELSE Following(at)
    /\ pc' = IF at = LastRound THEN "over"
             ELSE IF Following(at).kind = "cleanup" THEN "clear" ELSE "generate"

\* Columns are added, actor and critic updated, the checkpoint saved, the new weights sent to the servers.
Update ==
    /\ pc = "update"
    /\ NextRound
    /\ UNCHANGED <<remax, batch, bufferVars, snapshot, workerVars, queueVars>>

Used == IF Kind = "val" THEN "val" ELSE "train"

ClearQueue ==
    /\ pc = "clear"
    /\ stored' = stored \ batch[Used]
    /\ pc' = "remove"
    /\ UNCHANGED <<remax, at, batch, bufferVars, snapshot, workerVars, ended>>

RemoveFromBuffer ==
    /\ pc = "remove"
    /\ buffer' = buffer \ batch[Used]
    /\ batch' = [batch EXCEPT ![Used] = {}]
    /\ NextRound
    /\ UNCHANGED <<remax, running, snapshot, workerVars, queueVars>>

-----------------------------------------------------------------------------
(* The poll thread. *)

Poll ==
    /\ ~Over
    /\ snapshot = <<>>
    /\ snapshot' = <<[stored |-> stored, ended |-> ended]>>
    /\ UNCHANGED <<remax, driverVars, bufferVars, workerVars, queueVars>>

\* add: new keys, and the prompts' new status.
Merge ==
    /\ snapshot # <<>>
    /\ buffer' = buffer \union snapshot[1].stored
    /\ running' = running \ snapshot[1].ended
    /\ snapshot' = <<>>
    /\ UNCHANGED <<remax, driverVars, workerVars, queueVars>>

-----------------------------------------------------------------------------
(* The agent loop workers. *)

\* _agent_loop_postprocess: the outputs of a session, none for an empty one, in one call.
PutOutputs(uid, session) ==
    /\ <<uid, session>> \in generating
    /\ generating' = generating \ {<<uid, session>>}
    /\ \E outputs \in 0 .. MaxOutputs : stored' = stored \union {Key(uid, session, i) : i \in 1 .. outputs}
    /\ UNCHANGED <<remax, driverVars, bufferVars, snapshot, open, raised, ended>>

Raise(uid, session) ==
    /\ <<uid, session>> \in generating
    /\ Cardinality(raised \union {uid}) <= MaxFailures
    /\ generating' = generating \ {<<uid, session>>}
    /\ raised' = raised \union {uid}
    /\ UNCHANGED <<remax, driverVars, bufferVars, snapshot, open, queueVars>>

\* Mutant of EndPrompt: the sessions are not gathered.
EndPromptEarly(uid) ==
    /\ uid \in open
    /\ open' = open \ {uid}
    /\ ended' = ended \union {uid}
    /\ UNCHANGED <<remax, driverVars, bufferVars, snapshot, generating, raised, stored>>

\* Mutant of EndPrompt: a prompt that failed has no status.
EndPromptFinished(uid) ==
    /\ uid \in open
    /\ \/ uid \in raised /\ UNCHANGED ended
       \/ uid \notin raised /\ ({uid} \X Sessions(uid)) \intersect generating = {} /\ ended' = ended \union {uid}
    /\ open' = open \ {uid}
    /\ UNCHANGED <<remax, driverVars, bufferVars, snapshot, generating, raised, stored>>

\* _run_prompt: when the sessions are over, or as soon as one has raised; the others go on then.
EndPrompt(uid) ==
    /\ uid \in open
    /\ uid \in raised \/ ({uid} \X Sessions(uid)) \intersect generating = {}
    /\ open' = open \ {uid}
    /\ ended' = ended \union {uid}
    /\ UNCHANGED <<remax, driverVars, bufferVars, snapshot, generating, raised, stored>>

-----------------------------------------------------------------------------
Init ==
    /\ remax \in BOOLEAN
    /\ at = Round("val", 0, 1) /\ pc = "generate" /\ batch = [p \in Partitions |-> {}]
    /\ running = {} /\ buffer = {} /\ snapshot = <<>>
    /\ open = {} /\ generating = {} /\ raised = {}
    /\ stored = {} /\ ended = {}

Driver ==
    \/ MarkRunning \/ Dispatch \/ Sample \/ Score
    \/ TakeBaselines \/ RemoveBaselines \/ Pad \/ Update \/ ClearQueue \/ RemoveFromBuffer

Poller == Poll \/ Merge

Workers ==
    \/ \E uid \in open : EndPrompt(uid)
    \/ \E task \in generating : PutOutputs(task[1], task[2])

Failure == \E task \in generating : Raise(task[1], task[2])

Stopped == Over /\ UNCHANGED vars

Next == Driver \/ Poller \/ Workers \/ Failure \/ Stopped

\* The threads and the workers' tasks go on with what they can do, and an agent loop ends.
Fairness == WF_vars(Driver) /\ WF_vars(Poller) /\ WF_vars(Workers)

Spec == Init /\ [][Next]_vars /\ Fairness

-----------------------------------------------------------------------------
IsKey(key) == key.uid.prompt = 0 \/ (key.uid \in Uids(key.uid.round) /\ key.session \in Sessions(key.uid))

\* Besides the types: a prompt that has been handed out runs in the buffer until its end has been put, and a
\* session that goes on belongs to a prompt that is open or has failed.
TypeOK ==
    /\ at \in Rounds
    /\ pc \in {"generate", "dispatch", "sample", "sampled", "baselines", "pad", "update", "clear", "remove", "over",
               "error"}
    /\ \A key \in buffer \union stored : IsKey(key)
    /\ \A p \in Partitions : \A key \in batch[p] : IsKey(key) /\ PartitionOf(key) = p
    /\ \A uid \in running \union ended : uid \in Uids(uid.round)
    /\ \A task \in generating : task[2] \in Sessions(task[1]) /\ task[1] \in open \union raised
    /\ open \subseteq running \ ended
    /\ Len(snapshot) <= 1

\* Every key that has been sampled is in the transfer queue: what was cleared does not come back.  (fit and _validate,
\* "cleanup transfer queue and replay buffer".)
SampledIsStored == pc = "sampled" => InHand \subseteq stored

\* The batch is whole although polls, ends of prompts and failures come in any order: of a prompt none of whose
\* sessions raised, all sessions are over and all their trajectories are in it.  (ReplayBuffer.sample: "wait until all
\* prompts of this global steps have finished".)  And it has only trajectories of its round that are in the queue.
BatchWhole ==
    pc = "sampled" =>
        /\ SampledIsStored
        /\ \A key \in InHand : key.uid \in Uids(at)
        /\ \A uid \in Uids(at) \ raised :
              /\ ({uid} \X Sessions(uid)) \intersect generating = {}
              /\ {key \in stored : key.uid = uid} \subseteq InHand

\* Training ends or gives up, whatever sessions raise: no prompt is waited for for ever.  (sample, _run_prompt.)
TrainingStops == <>Over
=============================================================================
