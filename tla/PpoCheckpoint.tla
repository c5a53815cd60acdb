--------------------------- MODULE PpoCheckpoint ---------------------------
(***************************************************************************)
(* Saving, crashing and resuming in RayPPOTrainer                          *)
(* (verl/trainer/ppo/ray_trainer.py) with the FSDP checkpoint manager      *)
(* (verl/utils/checkpoint).  The driver walks the dataloader epoch by      *)
(* epoch; after the update of a step it may save.  A save goes role by     *)
(* role (actor, then critic): rank 0 makes room, every rank writes its     *)
(* shard between two barriers, rank 0 registers the new path and rotates   *)
(* the old ones.  Then the driver writes data.pt and, last, the tracker    *)
(* file that a relaunch reads.  The process may die between any two of     *)
(* these steps; the disk survives, everything else is lost.                *)
(*                                                                         *)
(* Weights are represented by the batches they were trained on.  A removal *)
(* by shutil.rmtree is one step.  resume_mode is "auto", the default, and  *)
(* async_save, which only the Megatron manager implements, is off.         *)
(***************************************************************************)
EXTENDS Integers, Sequences, FiniteSets

CONSTANTS
    Ranks,          \* ranks of a worker group
    Roles,          \* the roles that save, in order: <<"actor">> or <<"actor", "critic">>
    Keep,           \* per role, max_{actor,critic}_ckpt_to_keep; 0 is null
    StepsPerEpoch,  \* len(train_dataloader)
    TotalEpochs,    \* trainer.total_epochs
    TotalSteps,     \* total_training_steps
    SaveFreq,       \* trainer.save_freq, 0 for "never"
    CriticWarmup,   \* trainer.critic_warmup
    EsiExpiry,      \* whether should_save_ckpt_esi may answer TRUE
    MaxLaunches     \* bound: times the job is started

ASSUME RanksAssumption == IsFiniteSet(Ranks) /\ Ranks # {}
ASSUME RolesAssumption ==
    /\ Roles \in {<<"actor">>, <<"actor", "critic">>}
    /\ Keep \in [{Roles[i] : i \in 1 .. Len(Roles)} -> Nat]
ASSUME ScheduleAssumption ==
    /\ StepsPerEpoch \in Nat \ {0}
    /\ TotalEpochs \in Nat
    /\ TotalSteps \in Nat
    /\ SaveFreq \in Nat
    /\ CriticWarmup \in Nat
    /\ EsiExpiry \subseteq BOOLEAN
    /\ MaxLaunches \in Nat

Role == {Roles[i] : i \in 1 .. Len(Roles)}

\* Contents of latest_checkpointed_iteration.txt other than a step number.
NoTracker == -1
EmptyTracker == -2

VARIABLES
    \* on disk
    shards,       \* shard files: <<role, step, rank>> to the weights saved
    dataFiles,    \* data.pt files: step to the dataloader state saved
    folders,      \* steps whose global_step_{n} folder exists
    tracker,      \* latest_checkpointed_iteration.txt
    \* in the process
    pc,           \* where the driver is
    launches,     \* times the job was started
    globalSteps,  \* self.global_steps
    epoch,        \* the epoch of fit's outer loop
    loader,       \* the dataloader: orders drawn, batches yielded in this epoch
    history,      \* the batches the weights were trained on
    roleIndex,    \* which role is being saved
    written,      \* ranks that wrote their shard of it
    saved,        \* per role, previous_saved_paths (as steps)
    \* history variable
    durable       \* the last step whose save finished, 0 if none

disk == <<shards, dataFiles, folders, tracker>>
fitVars == <<globalSteps, epoch, loader, history>>
checkpointVars == <<shards, dataFiles, folders, tracker, pc, launches, globalSteps, epoch, loader,
          history, roleIndex, written, saved, durable>>

FreshLoader == [draws |-> 0, yielded |-> 0]

SavingRole == Roles[roleIndex]

ElementsOf(s) == {s[i] : i \in 1 .. Len(s)}

\* The files of role r at the steps in S removed (remove_previous_save_local_path).
Without(r, S) ==
    [p \in {q \in DOMAIN shards : ~(q[1] = r /\ q[2] \in S)} |-> shards[p]]

\* All ranks of all roles have their shard of step k.
Complete(k) == \A r \in Role, n \in Ranks : <<r, k, n>> \in DOMAIN shards

-----------------------------------------------------------------------------
CheckpointInit ==
    /\ shards = <<>>
    /\ dataFiles = <<>>
    /\ folders = {}
    /\ tracker = NoTracker
    /\ pc = "off"
    /\ launches = 0
    /\ globalSteps = 0
    /\ epoch = 0
    /\ loader = FreshLoader
    /\ history = <<>>
    /\ roleIndex = 1
    /\ written = {}
    /\ saved = [r \in Role |-> <<>>]
    /\ durable = 0

-----------------------------------------------------------------------------
(* _load_checkpoint, and the prologue of fit.                              *)

Launch ==
    /\ pc \in {"off", "done"}
    /\ launches < MaxLaunches
    /\ launches' = launches + 1

\* find_latest_ckpt_path returns None.
NothingToResume == tracker = NoTracker \/ (tracker >= 0 /\ tracker \notin folders)

\* Mutants of ResumedLoader: the saved state is restored always, and never.
RestoredAlways(k) == IF k \in DOMAIN dataFiles THEN dataFiles[k] ELSE FreshLoader
RestoredNever(k) == FreshLoader

\* The dataloader state is not restored at an epoch boundary.
ResumedLoader(k) ==
    IF k \in DOMAIN dataFiles /\ k % StepsPerEpoch # 0 THEN dataFiles[k] ELSE FreshLoader

LaunchFresh ==
    /\ Launch
    /\ NothingToResume
    /\ globalSteps' = 1
    /\ epoch' = 0
    /\ loader' = FreshLoader
    /\ history' = <<>>
    /\ saved' = [r \in Role |-> <<>>]
    /\ pc' = "fit"
    /\ UNCHANGED <<disk, roleIndex, written, durable>>

\* Every rank loads its own shard: the weights are those of any rank's file.
LaunchResume ==
    /\ Launch
    /\ ~NothingToResume
    /\ tracker # EmptyTracker
    /\ Complete(tracker)
    /\ globalSteps' = tracker + 1
    /\ epoch' = tracker \div StepsPerEpoch
    /\ loader' = ResumedLoader(tracker)
    /\ \E n \in Ranks : history' = shards[<<"actor", tracker, n>>]
    /\ saved' = [r \in Role |-> <<>>]
    /\ pc' = "fit"
    /\ UNCHANGED <<disk, roleIndex, written, durable>>

\* int("") raises for a tracker file that was opened but not written, and
\* torch.load for a shard that is not there.
LaunchFails ==
    /\ Launch
    /\ ~NothingToResume
    /\ tracker = EmptyTracker \/ ~Complete(tracker)
    /\ pc' = "stuck"
    /\ UNCHANGED <<disk, fitVars, roleIndex, written, saved, durable>>

-----------------------------------------------------------------------------
(* The loops of fit.                                                       *)

IsLastStep == globalSteps >= TotalSteps

SaveDue(esi) ==
    /\ CriticWarmup <= globalSteps
    /\ SaveFreq > 0
    /\ IsLastStep \/ globalSteps % SaveFreq = 0 \/ esi

\* One step: the next batch, generation, and the updates.  An iterator that
\* starts a new epoch draws a new order.
NextLoader ==
    [draws |-> IF loader.yielded = 0 THEN loader.draws + 1 ELSE loader.draws,
     yielded |-> loader.yielded + 1]

TrainStep ==
    /\ pc = "fit"
    /\ epoch < TotalEpochs
    /\ loader.yielded < StepsPerEpoch
    /\ loader' = NextLoader
    /\ history' = Append(history, [order |-> NextLoader.draws, pos |-> NextLoader.yielded])
    /\ \E esi \in EsiExpiry : pc' = IF SaveDue(esi) THEN "capacity" ELSE "advance"
    /\ roleIndex' = 1
    /\ written' = {}
    /\ UNCHANGED <<disk, launches, globalSteps, epoch, saved, durable>>

\* The dataloader is exhausted: the outer loop goes on with the next epoch.
EndEpoch ==
    /\ pc = "fit"
    /\ epoch < TotalEpochs
    /\ loader.yielded = StepsPerEpoch
    /\ epoch' = epoch + 1
    /\ loader' = [loader EXCEPT !.yielded = 0]
    /\ UNCHANGED <<disk, pc, launches, globalSteps, history, roleIndex, written, saved, durable>>

EndOfEpochs ==
    /\ pc = "fit"
    /\ epoch >= TotalEpochs
    /\ pc' = "done"
    /\ UNCHANGED <<disk, launches, fitVars, roleIndex, written, saved, durable>>

\* The end of an iteration: fit returns after the last step.
Advance ==
    /\ pc = "advance"
    /\ globalSteps' = globalSteps + 1
    /\ pc' = IF IsLastStep THEN "done" ELSE "fit"
    /\ UNCHANGED <<disk, launches, epoch, loader, history, roleIndex, written, saved, durable>>

-----------------------------------------------------------------------------
(* _save_checkpoint.                                                       *)

\* Mutant of EnsureCapacity: one checkpoint too many makes room.
EnsureCapacityOneMore ==
    /\ pc = "capacity"
    /\ LET r == SavingRole
           n == Len(saved[r])
           drop == IF Keep[r] > 1 /\ n + 1 >= Keep[r] THEN n - Keep[r] + 2 ELSE 0
       IN  /\ shards' = Without(r, ElementsOf(SubSeq(saved[r], 1, drop)))
           /\ saved' = [saved EXCEPT ![r] = SubSeq(@, drop + 1, n)]
    /\ folders' = folders \cup {globalSteps}
    /\ pc' = "write"
    /\ UNCHANGED <<dataFiles, tracker, launches, fitVars, roleIndex, written, durable>>

\* Mutant of EnsureCapacity: the list keeps the paths whose files were removed.
EnsureCapacityWrongEnd ==
    /\ pc = "capacity"
    /\ LET r == SavingRole
           n == Len(saved[r])
           drop == IF Keep[r] > 1 /\ n >= Keep[r] THEN n - Keep[r] + 1 ELSE 0
       IN  /\ shards' = Without(r, ElementsOf(SubSeq(saved[r], 1, drop)))
           /\ saved' = [saved EXCEPT ![r] = SubSeq(@, 1, n - drop)]
    /\ folders' = folders \cup {globalSteps}
    /\ pc' = "write"
    /\ UNCHANGED <<dataFiles, tracker, launches, fitVars, roleIndex, written, durable>>

\* Rank 0, before the first barrier: ensure_checkpoint_capacity, which does
\* nothing for a limit of one, and the new folder.
EnsureCapacity ==
    /\ pc = "capacity"
    /\ LET r == SavingRole
           n == Len(saved[r])
           drop == IF Keep[r] > 1 /\ n >= Keep[r] THEN n - Keep[r] + 1 ELSE 0
       IN  /\ shards' = Without(r, ElementsOf(SubSeq(saved[r], 1, drop)))
           /\ saved' = [saved EXCEPT ![r] = SubSeq(@, drop + 1, n)]
    /\ folders' = folders \cup {globalSteps}
    /\ pc' = "write"
    /\ UNCHANGED <<dataFiles, tracker, launches, fitVars, roleIndex, written, durable>>

\* Every rank writes its own shard, in any order.
WriteShard(n) ==
    /\ pc = "write"
    /\ n \notin written
    /\ LET path == <<SavingRole, globalSteps, n>>
       IN  shards' = [p \in DOMAIN shards \cup {path} |-> IF p = path THEN history ELSE shards[p]]
    /\ written' = written \cup {n}
    /\ UNCHANGED <<dataFiles, folders, tracker, pc, launches, fitVars, roleIndex, saved, durable>>

\* Mutant of Register: rotates as soon as the limit is reached.
RegisterEager ==
    /\ pc = "write"
    /\ written = Ranks
    /\ LET r == SavingRole
           paths == Append(saved[r], globalSteps)
           drop == IF Keep[r] > 0 /\ Len(paths) >= Keep[r] THEN Len(paths) - Keep[r] + 1 ELSE 0
       IN  /\ shards' = Without(r, ElementsOf(SubSeq(paths, 1, drop)))
           /\ saved' = [saved EXCEPT ![r] = SubSeq(paths, drop + 1, Len(paths))]
    /\ written' = {}
    /\ IF roleIndex < Len(Roles)
       THEN roleIndex' = roleIndex + 1 /\ pc' = "capacity"
       ELSE roleIndex' = roleIndex /\ pc' = "data"
    /\ UNCHANGED <<dataFiles, folders, tracker, launches, fitVars, durable>>

\* Mutant of Register: the role index moves past the last role.
RegisterPastEnd ==
    /\ pc = "write"
    /\ written = Ranks
    /\ saved' = [saved EXCEPT ![SavingRole] = Append(@, globalSteps)]
    /\ written' = {}
    /\ roleIndex' = roleIndex + 1
    /\ pc' = IF roleIndex < Len(Roles) THEN "capacity" ELSE "data"
    /\ UNCHANGED <<shards, dataFiles, folders, tracker, launches, fitVars, durable>>

\* Rank 0, after the second barrier: register_checkpoint rotates; then the
\* next role, or the driver's own files.
Register ==
    /\ pc = "write"
    /\ written = Ranks
    /\ LET r == SavingRole
           paths == Append(saved[r], globalSteps)
           drop == IF Keep[r] > 0 /\ Len(paths) > Keep[r] THEN Len(paths) - Keep[r] ELSE 0
       IN  /\ shards' = Without(r, ElementsOf(SubSeq(paths, 1, drop)))
           /\ saved' = [saved EXCEPT ![r] = SubSeq(paths, drop + 1, Len(paths))]
    /\ written' = {}
    /\ IF roleIndex < Len(Roles)
       THEN roleIndex' = roleIndex + 1 /\ pc' = "capacity"
       ELSE roleIndex' = roleIndex /\ pc' = "data"
    /\ UNCHANGED <<dataFiles, folders, tracker, launches, fitVars, durable>>

SaveDataloader ==
    /\ pc = "data"
    /\ dataFiles' = [k \in DOMAIN dataFiles \cup {globalSteps} |->
                        IF k = globalSteps THEN loader ELSE dataFiles[k]]
    /\ pc' = "open"
    /\ UNCHANGED <<shards, folders, tracker, launches, fitVars, roleIndex, written, saved, durable>>

\* open(tracker, "w") truncates the file ...
OpenTracker ==
    /\ pc = "open"
    /\ tracker' = EmptyTracker
    /\ pc' = "number"
    /\ UNCHANGED <<shards, dataFiles, folders, launches, fitVars, roleIndex, written, saved, durable>>

\* ... and the number reaches it when it is closed.
WriteTracker ==
    /\ pc = "number"
    /\ tracker' = globalSteps
    /\ durable' = globalSteps
    /\ pc' = "advance"
    /\ UNCHANGED <<shards, dataFiles, folders, launches, fitVars, roleIndex, written, saved>>

-----------------------------------------------------------------------------
\* The process dies; what it kept in memory is void until the next launch.
Crash ==
    /\ pc \notin {"off", "done", "stuck"}
    /\ pc' = "off"
    /\ UNCHANGED <<disk, launches, fitVars, roleIndex, written, saved, durable>>

CheckpointNext ==
    \/ LaunchFresh
    \/ LaunchResume
    \/ LaunchFails
    \/ TrainStep
    \/ EndEpoch
    \/ EndOfEpochs
    \/ Advance
    \/ EnsureCapacity
    \/ \E n \in Ranks : WriteShard(n)
    \/ Register
    \/ SaveDataloader
    \/ OpenTracker
    \/ WriteTracker
    \/ Crash

CheckpointSpec == CheckpointInit /\ [][CheckpointNext]_checkpointVars

-----------------------------------------------------------------------------
(* Properties                                                              *)

Batch == [order : Nat \ {0}, pos : 1 .. StepsPerEpoch]
Loader == [draws : Nat, yielded : 0 .. StepsPerEpoch]

CheckpointTypeOK ==
    /\ DOMAIN shards \subseteq Role \X Nat \X Ranks
    /\ \A p \in DOMAIN shards : shards[p] \in Seq(Batch)
    /\ DOMAIN dataFiles \subseteq Nat
    /\ \A k \in DOMAIN dataFiles : dataFiles[k] \in Loader
    /\ folders \subseteq Nat
    /\ tracker \in Nat \cup {NoTracker, EmptyTracker}
    /\ pc \in {"off", "fit", "capacity", "write", "data", "open", "number", "advance", "done", "stuck"}
    /\ launches \in 0 .. MaxLaunches
    /\ globalSteps \in Nat
    /\ epoch \in Nat
    /\ loader \in Loader
    /\ history \in Seq(Batch)
    /\ roleIndex \in 1 .. Len(Roles)
    /\ written \subseteq Ranks
    /\ saved \in [Role -> Seq(Nat)]
    /\ durable \in Nat

\* The checkpoint the tracker names can be resumed from: every shard is there,
\* all of one training state, and the dataloader state saved with it stands
\* where that state stands.
TrackedIsComplete ==
    tracker >= 0 =>
        /\ tracker \in folders
        /\ Complete(tracker)
        /\ \A n \in Ranks : Len(shards[<<"actor", tracker, n>>]) = tracker
        /\ \A n, m \in Ranks : shards[<<"actor", tracker, n>>] = shards[<<"actor", tracker, m>>]
        /\ tracker \in DOMAIN dataFiles
        /\ \A n \in Ranks :
              LET h == shards[<<"actor", tracker, n>>]
              IN  h # <<>> => dataFiles[tracker] =
                                 [draws |-> h[tracker].order, yielded |-> h[tracker].pos]

\* Only the window in which the tracker file is being rewritten can leave a
\* run that does not start again.
OnlyTornTrackerBlocks == pc = "stuck" => tracker = EmptyTracker

\* Within a process, a role never has more registered checkpoints than its
\* limit, and every registered one is still complete on disk.
RetentionKept ==
    pc \in {"fit", "data", "open", "number", "advance"} =>
        \A r \in Role :
            /\ Keep[r] > 0 => Len(saved[r]) <= Keep[r]
            /\ \A i \in 1 .. Len(saved[r]) : \A n \in Ranks : <<r, saved[r][i], n>> \in DOMAIN shards

\* The job ends only when the weights were trained for the steps it was asked
\* for, or for all epochs if these are fewer: no resume skips part of an epoch.
FinishedMeansTrained ==
    pc = "done" => \/ Len(history) >= TotalSteps
                   \/ Len(history) >= StepsPerEpoch * TotalEpochs

\* Every life of the job trains on whole epochs in order and never loses a
\* finished save.
Promise == INSTANCE TrainingHistory WITH
    StepsPerEpoch <- StepsPerEpoch,
    history <- history,
    durable <- durable
TrainsOnWholeEpochs == Promise!Spec
=============================================================================
