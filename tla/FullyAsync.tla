---------------------------- MODULE FullyAsync ----------------------------
(***************************************************************************)
(* Fully asynchronous training, verl/experimental/fully_async_policy: a    *)
(* rollouter that generates sample by sample (feeder, processor, one task  *)
(* per sample, monitor, all coroutines of one event loop), a message queue *)
(* that drops its oldest entry when it is full, and a trainer that         *)
(* collects, trains and now and then brings new weights to the rollouter.  *)
(*                                                                         *)
(* One action is what a coroutine does between two awaits, or what the     *)
(* queue's actor does for one call.  Tasks that have put their sample stay *)
(* in active_tasks until the processor reaps them.  The feeder refills the *)
(* pending queue before the processor can find it empty, so a pending      *)
(* sample is there whenever the processor takes one.                       *)
(*                                                                         *)
(* Only the processor sets paused, and it stays in its drain until a       *)
(* resume has cleared it: the tests of paused before it asks for           *)
(* statistics and before it submits never find it set.                     *)
(***************************************************************************)
EXTENDS Integers, Sequences, FiniteSets

CONSTANTS
    Required,       \* required_samples: samples of a local step
    Trigger,        \* trigger_parameter_sync_step: local steps per version
    Extra,          \* samples the staleness threshold allows beyond a version
    MaxTasks,       \* 16 per replica: tasks the servers take at once
    Total,          \* total_rollout_steps: samples the feeder hands out
    TestFreq,       \* validate every so many versions
    SaveFreq,       \* save every so many versions
    MaxFailures     \* bound: generations that raise

ASSUME SizesAssumption ==
    /\ Required \in Nat \ {0} /\ Trigger \in Nat \ {0} /\ Extra \in Nat
    /\ MaxTasks \in Nat \ {0} /\ Total \in Nat \ {0}
    /\ TestFreq \in Nat \ {0} /\ SaveFreq \in Nat \ {0} /\ MaxFailures \in Nat

PerVersion == Required * Trigger
MaxRequired == PerVersion + Extra
MaxConcurrent == IF MaxTasks < MaxRequired THEN MaxTasks ELSE MaxRequired
MaxQueue == MaxRequired

Samples == 1 .. Total
None == 0       \* the end signal in the queue, and no sample in the hand

VARIABLES
    \* rollouter
    pc,             \* where _processor_worker is
    sawFull,        \* its last statistics reply showed a full queue
    taken,          \* samples taken from the pending queue
    hand,           \* the sample it holds and has not submitted
    running,        \* active_tasks that still generate
    finished,       \* active_tasks that are done and not reaped
    failed,         \* tasks that raised
    staleness,      \* staleness_samples
    paused,
    resume,         \* _resume_event is set
    lock,           \* who has the lock, and who waits for it in that order
    monitor,        \* where _async_monitor_loop is
    monitorSawFull,
    \* message queue
    queue,          \* entries: a sample and the rollouter's version when it came
    dropped,        \* samples dropped by a full queue
    \* trainer
    tpc,            \* where fit is
    collected,      \* queue_samples
    trained,        \* the sets of samples trained on
    localStep,      \* local_trigger_step
    version,        \* current_param_version
    counted,        \* reset_staleness: number of active tasks it has counted
    stopped,        \* the end signal was read
    savedVersion,   \* last_ckpt_version
    savedSteps,     \* steps trained when that checkpoint was written
    rolloutVersion  \* version of the weights the servers have

rollouterVars == <<pc, sawFull, taken, hand, running, finished, failed, staleness, paused, resume>>
monitorVars == <<monitor, monitorSawFull>>
queueVars == <<queue, dropped>>
savedVars == <<savedVersion, savedSteps>>
trainerVars == <<tpc, collected, trained, localStep, version, counted, stopped, savedVars, rolloutVersion>>
vars == <<rollouterVars, lock, monitorVars, queueVars, trainerVars>>

-----------------------------------------------------------------------------
(* asyncio.Lock hands itself to its waiters in the order they came. *)

Held(who) == lock # <<>> /\ Head(lock) = who
Request(who) == lock' = Append(lock, who)
Release == lock' = Tail(lock)
ReleaseAndRequest(who) == lock' = Append(Tail(lock), who)

active == running \union finished

\* Mutant of ShouldPause: only the queue's size counts.
ShouldPauseWhenFull(full) == full

\* _should_pause_generation, with the queue's size from the reply and the count read after it.
ShouldPause(full) == full \/ staleness >= MaxRequired

\* Mutant of Put: a full queue grows.
PutAlways(sample) ==
    /\ queue' = Append(queue, [sample |-> sample, version |-> rolloutVersion])
    /\ UNCHANGED dropped

\* Mutant of Put: the newest entry comes out first.
PutInFront(sample) ==
    LET entry == [sample |-> sample, version |-> rolloutVersion]
        full == Len(queue) >= MaxQueue
    IN  /\ queue' = <<entry>> \o IF full THEN Tail(queue) ELSE queue
        /\ dropped' = IF full THEN dropped \union {queue[1].sample} ELSE dropped

\* put_sample
Put(sample) ==
    LET entry == [sample |-> sample, version |-> rolloutVersion]
        full == Len(queue) >= MaxQueue
    IN  /\ queue' = Append(IF full THEN Tail(queue) ELSE queue, entry)
        /\ dropped' = IF full THEN dropped \union {queue[1].sample} ELSE dropped

-----------------------------------------------------------------------------
(* The processor. *)

AskStatistics ==
    /\ pc = "top"
    /\ ~paused
    /\ sawFull' = (Len(queue) >= MaxQueue)
    /\ pc' = "verdict"
    /\ UNCHANGED <<taken, hand, running, finished, failed, staleness, paused, resume, lock, monitorVars, queueVars,
                   trainerVars>>

DecideToPause ==
    /\ pc = "verdict"
    /\ ShouldPause(sawFull)
    /\ pc' = "pausing"
    /\ Request("processor")
    /\ UNCHANGED <<sawFull, taken, hand, running, finished, failed, staleness, paused, resume, monitorVars,
                   queueVars, trainerVars>>

Pause ==
    /\ pc = "pausing"
    /\ Held("processor")
    /\ paused' = TRUE
    /\ resume' = FALSE
    /\ pc' = "drain"
    /\ Release
    /\ UNCHANGED <<sawFull, taken, hand, running, finished, failed, staleness, monitorVars, queueVars, trainerVars>>

\* The tasks asyncio.wait returned as done are awaited; the first that raised ends the processor.
Reap(done, next) ==
    /\ finished' = finished \ done
    /\ pc' = IF done \intersect failed # {} THEN "closing" ELSE next

\* Others may get done while it waits for the lock.  Tasks are discarded one by one: those behind one that raised
\* stay, where the other two waits have replaced active_tasks before they await anything.
DrainReap ==
    /\ pc = "drain"
    /\ lock = <<>>
    /\ \E done \in SUBSET finished \ {{}} : Cardinality(done \intersect failed) <= 1 /\ Reap(done, "drain")
    /\ UNCHANGED <<sawFull, taken, hand, running, failed, staleness, paused, resume, lock, monitorVars, queueVars,
                   trainerVars>>

DrainResume ==
    /\ pc = "drain"
    /\ resume
    /\ pc' = "top"
    /\ UNCHANGED <<sawFull, taken, hand, running, finished, failed, staleness, paused, resume, lock, monitorVars,
                   queueVars, trainerVars>>

TakeSample ==
    /\ pc = "verdict"
    /\ ~ShouldPause(sawFull)
    /\ taken < Total
    /\ taken' = taken + 1
    /\ hand' = taken + 1
    /\ staleness' = staleness + 1
    /\ pc' = IF Cardinality(active) >= MaxConcurrent THEN "full" ELSE "submit"
    /\ Request("processor")
    /\ UNCHANGED <<sawFull, running, finished, failed, paused, resume, monitorVars, queueVars, trainerVars>>

\* Mutant of TakeEnd: the running tasks are not waited for.
TakeEndEager ==
    /\ pc = "verdict"
    /\ ~ShouldPause(sawFull)
    /\ taken = Total
    /\ staleness' = staleness + 1
    /\ pc' = "closing"
    /\ UNCHANGED <<sawFull, taken, hand, running, finished, failed, paused, resume, lock, monitorVars, queueVars,
                   trainerVars>>

TakeEnd ==
    /\ pc = "verdict"
    /\ ~ShouldPause(sawFull)
    /\ taken = Total
    /\ staleness' = staleness + 1
    /\ IF active = {}
       THEN pc' = "closing" /\ UNCHANGED lock
       ELSE pc' = "ending" /\ Request("processor")
    /\ UNCHANGED <<sawFull, taken, hand, running, finished, failed, paused, resume, monitorVars, queueVars,
                   trainerVars>>

FullReap ==
    /\ pc = "full"
    /\ Held("processor")
    /\ finished # {}
    /\ Reap(finished, "submit")
    /\ IF pc' = "submit" THEN ReleaseAndRequest("processor") ELSE Release
    /\ UNCHANGED <<sawFull, taken, hand, running, failed, staleness, paused, resume, monitorVars, queueVars,
                   trainerVars>>

Submit ==
    /\ pc = "submit"
    /\ Held("processor")
    /\ running' = running \union {hand}
    /\ hand' = None
    /\ pc' = "top"
    /\ Release
    /\ UNCHANGED <<sawFull, taken, finished, failed, staleness, paused, resume, monitorVars, queueVars, trainerVars>>

EndReap ==
    /\ pc = "ending"
    /\ Held("processor")
    /\ finished # {}
    /\ Reap(finished, IF running = {} THEN "closing" ELSE "ending")
    /\ IF pc' = "ending" THEN ReleaseAndRequest("processor") ELSE Release
    /\ UNCHANGED <<sawFull, taken, hand, running, failed, staleness, paused, resume, monitorVars, queueVars,
                   trainerVars>>

\* _streaming_generation_main, finally: the end signal, and running = False.
CloseStream ==
    /\ pc = "closing"
    /\ Put(None)
    /\ pc' = "closed"
    /\ UNCHANGED <<sawFull, taken, hand, running, finished, failed, staleness, paused, resume, lock, monitorVars,
                   trainerVars>>

-----------------------------------------------------------------------------
(* The tasks. *)

Finish(sample) ==
    /\ sample \in running
    /\ Put(sample)
    /\ running' = running \ {sample}
    /\ finished' = finished \union {sample}
    /\ UNCHANGED <<pc, sawFull, taken, hand, failed, staleness, paused, resume, lock, monitorVars, trainerVars>>

Fail(sample) ==
    /\ sample \in running
    /\ Cardinality(failed) < MaxFailures
    /\ running' = running \ {sample}
    /\ finished' = finished \union {sample}
    /\ failed' = failed \union {sample}
    /\ UNCHANGED <<pc, sawFull, taken, hand, staleness, paused, resume, lock, monitorVars, queueVars, trainerVars>>

-----------------------------------------------------------------------------
(* The monitor, every ten seconds while the rollouter runs. *)

MonitorAsk ==
    /\ monitor = "asleep"
    /\ paused
    /\ pc # "closed"
    /\ monitorSawFull' = (Len(queue) >= MaxQueue)
    /\ monitor' = "verdict"
    /\ UNCHANGED <<rollouterVars, lock, queueVars, trainerVars>>

\* Mutant of MonitorDecide: the monitor never resumes the rollouter.
MonitorDecideLogOnly ==
    /\ monitor = "verdict"
    /\ monitor' = "asleep"
    /\ UNCHANGED <<rollouterVars, monitorSawFull, lock, queueVars, trainerVars>>

MonitorDecide ==
    /\ monitor = "verdict"
    /\ IF ShouldPause(monitorSawFull)
       THEN monitor' = "asleep" /\ UNCHANGED lock
       ELSE monitor' = "resuming" /\ Request("monitor")
    /\ UNCHANGED <<rollouterVars, monitorSawFull, queueVars, trainerVars>>

MonitorResume ==
    /\ monitor = "resuming"
    /\ Held("monitor")
    /\ paused' = FALSE
    /\ resume' = TRUE
    /\ monitor' = "asleep"
    /\ Release
    /\ UNCHANGED <<pc, sawFull, taken, hand, running, finished, failed, staleness, monitorSawFull, queueVars,
                   trainerVars>>

-----------------------------------------------------------------------------
(* The trainer. *)

Collect ==
    /\ tpc = "collect"
    /\ queue # <<>>
    /\ Head(queue).sample # None
    /\ collected' = Append(collected, Head(queue))
    /\ queue' = Tail(queue)
    /\ tpc' = IF Len(collected) + 1 = Required THEN "train" ELSE "collect"
    /\ UNCHANGED <<rollouterVars, lock, monitorVars, dropped, trained, localStep, version, counted, stopped,
                   savedVars, rolloutVersion>>

\* The end signal: what has been collected is given up; the weights go to the servers once more unless the version
\* was validated already, and only when a version has just been completed.
CollectEnd ==
    /\ tpc = "collect"
    /\ queue # <<>>
    /\ Head(queue).sample = None
    /\ queue' = Tail(queue)
    /\ collected' = <<>>
    /\ stopped' = TRUE
    /\ tpc' = IF version % TestFreq # 0 /\ localStep = 1 THEN "sync" ELSE "save"
    /\ UNCHANGED <<rollouterVars, lock, monitorVars, dropped, trained, localStep, version, counted, savedVars,
                   rolloutVersion>>

TrainStep ==
    /\ tpc = "train"
    /\ trained' = trained \union {{collected[i].sample : i \in 1 .. Required}}
    /\ collected' = <<>>
    /\ IF localStep < Trigger
       THEN /\ localStep' = localStep + 1
            /\ tpc' = "save"
            /\ UNCHANGED version
       ELSE /\ localStep' = 1
            /\ version' = version + 1
            /\ tpc' = "sync"
    /\ UNCHANGED <<rollouterVars, lock, monitorVars, queueVars, counted, stopped, savedVars, rolloutVersion>>

UpdateWeights ==
    /\ tpc = "sync"
    /\ rolloutVersion' = version
    /\ tpc' = "reset"
    /\ Request("reset")
    /\ UNCHANGED <<rollouterVars, monitorVars, queueVars, collected, trained, localStep, version, counted, stopped,
                   savedVars>>

ResetBegin ==
    /\ tpc = "reset"
    /\ Held("reset")
    /\ paused' = FALSE
    /\ resume' = TRUE
    /\ counted' = Cardinality(active)
    /\ tpc' = "counting"
    /\ UNCHANGED <<pc, sawFull, taken, hand, running, finished, failed, staleness, lock, monitorVars, queueVars,
                   collected, trained, localStep, version, stopped, savedVars, rolloutVersion>>

ResetEnd ==
    /\ tpc = "counting"
    /\ staleness' = counted + Len(queue)
    /\ counted' = 0
    /\ tpc' = "save"
    /\ Release
    /\ UNCHANGED <<pc, sawFull, taken, hand, running, finished, failed, paused, resume, monitorVars, queueVars,
                   collected, trained, localStep, version, stopped, savedVars, rolloutVersion>>

\* Mutant of Save: the end of training is like any other step.
SaveUnforced ==
    /\ tpc = "save"
    /\ IF version # savedVersion /\ version % SaveFreq = 0
       THEN savedVersion' = version /\ savedSteps' = Cardinality(trained)
       ELSE UNCHANGED savedVars
    /\ tpc' = IF stopped THEN "done" ELSE "collect"
    /\ UNCHANGED <<rollouterVars, lock, monitorVars, queueVars, collected, trained, localStep, version, counted,
                   stopped,
                   rolloutVersion>>

\* _fit_save_checkpoint, forced at the end of training.
Save ==
    /\ tpc = "save"
    /\ IF version # savedVersion /\ (stopped \/ version % SaveFreq = 0)
       THEN savedVersion' = version /\ savedSteps' = Cardinality(trained)
       ELSE UNCHANGED savedVars
    /\ tpc' = IF stopped THEN "done" ELSE "collect"
    /\ UNCHANGED <<rollouterVars, lock, monitorVars, queueVars, collected, trained, localStep, version, counted,
                   stopped, rolloutVersion>>

-----------------------------------------------------------------------------
Init ==
    /\ pc = "top" /\ sawFull = FALSE /\ taken = 0 /\ hand = None
    /\ running = {} /\ finished = {} /\ failed = {}
    /\ staleness = 0 /\ paused = FALSE /\ resume = TRUE /\ lock = <<>>
    /\ monitor = "asleep" /\ monitorSawFull = FALSE
    /\ queue = <<>> /\ dropped = {}
    /\ tpc = "collect" /\ collected = <<>> /\ trained = {} /\ localStep = 1 /\ version = 0
    /\ counted = 0 /\ stopped = FALSE /\ savedVersion = 0 /\ savedSteps = 0 /\ rolloutVersion = 0

Processor ==
    \/ AskStatistics \/ DecideToPause \/ Pause \/ DrainReap \/ DrainResume
    \/ TakeSample \/ TakeEnd \/ FullReap \/ Submit \/ EndReap \/ CloseStream

Monitor == MonitorAsk \/ MonitorDecide \/ MonitorResume

Trainer == Collect \/ CollectEnd \/ TrainStep \/ UpdateWeights \/ ResetBegin \/ ResetEnd \/ Save

\* Training is over and nothing of the rollouter is left to run.
Over ==
    /\ tpc = "done" /\ pc = "closed" /\ running = {} /\ monitor = "asleep"
    /\ UNCHANGED vars

Next ==
    \/ Processor
    \/ \E sample \in Samples : Finish(sample) \/ Fail(sample)
    \/ Monitor
    \/ Trainer
    \/ Over

\* Event loops run what is ready, calls return, generation ends.
Fairness ==
    /\ WF_vars(Processor)
    /\ \A sample \in Samples : WF_vars(Finish(sample))
    /\ WF_vars(Monitor)
    /\ WF_vars(Trainer)

Spec == Init /\ [][Next]_vars /\ Fairness

-----------------------------------------------------------------------------
Queued == {queue[i].sample : i \in DOMAIN queue} \ {None}
Gathered == {collected[i].sample : i \in DOMAIN collected}
Outstanding == ({hand} \ {None}) \union running \union Queued

TypeOK ==
    /\ pc \in {"top", "verdict", "pausing", "drain", "full", "submit", "ending", "closing", "closed"}
    /\ sawFull \in BOOLEAN /\ monitorSawFull \in BOOLEAN /\ paused \in BOOLEAN /\ resume \in BOOLEAN
    /\ taken \in 0 .. Total
    /\ hand \in Samples \union {None}
    /\ running \subseteq Samples /\ finished \subseteq Samples /\ failed \subseteq Samples
    /\ dropped \subseteq Samples \union {None}
    /\ running \intersect finished = {}
    /\ staleness \in Nat /\ counted \in Nat
    /\ lock \in Seq({"processor", "monitor", "reset"})
    /\ monitor \in {"asleep", "verdict", "resuming"}
    /\ queue \in Seq([sample : Samples \union {None}, version : Nat])
    /\ Len(queue) <= MaxQueue
    /\ tpc \in {"collect", "train", "sync", "reset", "counting", "save", "done"}
    /\ collected \in Seq([sample : Samples, version : Nat])
    /\ trained \subseteq SUBSET Samples
    /\ localStep \in 1 .. Trigger
    /\ version \in Nat /\ rolloutVersion \in 0 .. version /\ savedVersion \in 0 .. version /\ savedSteps \in Nat
    /\ stopped \in BOOLEAN

\* Freshness: a sample waits in the queue for MaxRequired \div PerVersion weight updates at most, although the
\* rollouter never looks at the age of a sample.  (async_training.staleness_threshold, reset_staleness, put_sample.)
QueueAge == \A i \in DOMAIN collected : version - collected[i].version <= MaxRequired \div PerVersion

\* When training is over and no generation has failed, fewer samples than a step needs have been neither trained on
\* nor dropped by a full queue: the end signal overtakes nothing.  (_processor_worker, _streaming_generation_main,
\* _get_samples_from_queue.)
TrainedAllAtEnd == tpc = "done" /\ failed = {} => Total - Cardinality(UNION trained) - Cardinality(dropped) < Required

\* When training is over the servers have the last version, and the last checkpoint lacks fewer steps than make up a
\* version, whichever of the periodic and the forced saves and weight updates were skipped.
\* (fit, _fit_save_checkpoint.)
EndsSaved == tpc = "done" => rolloutVersion = version /\ Cardinality(trained) - savedSteps < Trigger

\* Training ends when the staleness threshold leaves room for all the tasks of the servers: neither the drain, the
\* waits with the lock held, nor a resume that comes before the pause it is meant for can stop it for good.
\* (_processor_worker, reset_staleness, _async_monitor_loop.)
TrainingEnds == MaxTasks <= Extra => <>(tpc = "done")

\* Training ends whatever the threshold, 0 included ("synchronous streaming training", README.md:198-203): the reset
\* after a weight update wakes the drain so that it can "resume submitting new samples"
\* (fully_async_rollouter.py:571-572).  The code does not keep it: the reset counts tasks that are done and not yet
\* taken off active_tasks (:575); the samples of these count twice or are trained on already, the allowance is used up
\* before the trainer has what it needs for the next version, and no other reset comes.
AlwaysEnds == <>(tpc = "done")

\* "Rollouter will generate at most (1+staleness_threshold)*(...) - num_staleness_sample samples between two parameter
\* updates" (README.md:136-138): when none is lost, the samples taken exceed those of the versions brought to the
\* servers by MaxRequired at most.  The code generates one more when a reset does not see the sample in the hand.
GeneratesAtMost == failed = {} /\ dropped = {} => taken <= PerVersion * rolloutVersion + MaxRequired

\* The promise about the samples, kept by rollouter, queue and trainer together: taken in order, each trained on at
\* most once, none lost but for the reasons SampleStream names.  Those on their way are bounded by what the code
\* keeps, the documented MaxRequired and the one sample that breaks GeneratesAtMost.
Stream == INSTANCE SampleStream WITH
    Batch <- Required,
    Limit <- MaxRequired + 1,
    Room <- MaxQueue,
    Failures <- MaxFailures,
    taken <- taken,
    flight <- Outstanding \union Gathered,
    failed <- failed,
    trained <- trained,
    closed <- stopped
StreamKept == Stream!Spec
=============================================================================
