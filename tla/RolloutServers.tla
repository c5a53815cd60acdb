-------------------------- MODULE RolloutServers --------------------------
(***************************************************************************)
(* Requests on their way to the rollout servers while the weights of the   *)
(* servers are replaced and servers join and leave.                        *)
(*                                                                         *)
(*   clients    FullyAsyncLLMServerClient: get a server from the balancer, *)
(*              have it generate, and start again with what there is when  *)
(*              the generation was aborted;                                *)
(*   balancer   GlobalRequestLoadBalancer: sticky, else least loaded;      *)
(*   servers    vLLMHttpServer with vLLM 0.12 or later: an abort pauses the *)
(*              engine, which makes new requests wait until it resumes;    *)
(*   trainer    update_weights of the CheckpointEngineManager on the       *)
(*              standalone servers, then _trainer_side_validate with the   *)
(*              hybrid servers, which sleep on the trainer's GPUs between. *)
(*                                                                         *)
(* The engine is external: what it does when a request reaches it asleep   *)
(* is undefined, such a request is counted as stranded and not followed    *)
(* further.  The routing cache is larger than the number of requests.      *)
(***************************************************************************)
EXTENDS Integers, Sequences, FiniteSets

CONSTANTS
    Standalone,     \* servers with GPUs of their own
    Hybrid,         \* servers on the trainer's GPUs, for validation
    Requests,
    PartialRollout, \* async_training.partial_rollout
    Updates         \* bound: weight updates

ASSUME ServersAssumption ==
    /\ Standalone # {} /\ IsFiniteSet(Standalone) /\ IsFiniteSet(Hybrid) /\ Standalone \intersect Hybrid = {}
    /\ IsFiniteSet(Requests)
    /\ PartialRollout \in BOOLEAN
    /\ Updates \in Nat

VARIABLES
    \* balancer
    pool,           \* servers in _inflight_requests
    inflight,       \* their counts
    sticky,         \* _request_id_to_server: the set holding the server of a request, or empty
    releasing,      \* requests whose release_server is under way
    \* clients
    phase,          \* "ready", "sent", "serving", "answered", "done" or "stranded"
    server,         \* the server acquired last
    result,         \* output of the last call: "completed" or "aborted", and the version it reports, 0 for none
    used,           \* weight versions that made tokens of the answer so far
    minSteps,       \* min_global_steps, 0 for None
    \* servers
    paused,         \* the engine makes requests wait
    asleep,
    weights,        \* version of the weights
    steps,          \* global_steps
    engine,         \* requests being generated
    waiting,        \* requests that wait for the engine to resume
    using,          \* weight versions the running generation of a request has seen
    \* trainer
    version,        \* current_param_version
    step,           \* where it is in the script
    left            \* servers the step is still to be done on

balancerVars == <<pool, inflight, sticky, releasing>>
clientVars == <<server, used, minSteps>>
weightVars == <<weights, steps>>
serverVars == <<paused, asleep, engine, waiting, using>>
trainerVars == <<version, step, left>>
vars == <<balancerVars, clientVars, phase, result, weightVars, serverVars, trainerVars>>

Servers == Standalone \union Hybrid
NoResult == [reason |-> "none", version |-> 0]

-----------------------------------------------------------------------------
(* A client. *)

LeastLoaded == {s \in pool : \A t \in pool : inflight[s] <= inflight[t]}

\* Mutant of Acquire: the count is forgotten when the sticky server is taken.
AcquireUncounted(r) ==
    /\ phase[r] = "ready" /\ r \notin releasing
    /\ \E s \in IF sticky[r] \subseteq pool /\ sticky[r] # {} THEN sticky[r] ELSE LeastLoaded :
          /\ server' = [server EXCEPT ![r] = s]
          /\ sticky' = [sticky EXCEPT ![r] = {s}]
          /\ inflight' = [inflight EXCEPT ![s] = IF sticky[r] = {s} THEN @ ELSE @ + 1]
    /\ phase' = [phase EXCEPT ![r] = "sent"]
    /\ UNCHANGED <<pool, releasing, used, minSteps, result, weightVars, serverVars, trainerVars>>

\* acquire_server: a sticky server that has left the pool is forgotten.
Acquire(r) ==
    /\ phase[r] = "ready" /\ r \notin releasing
    /\ \E s \in IF sticky[r] \subseteq pool /\ sticky[r] # {} THEN sticky[r] ELSE LeastLoaded :
          /\ server' = [server EXCEPT ![r] = s]
          /\ sticky' = [sticky EXCEPT ![r] = {s}]
          /\ inflight' = [inflight EXCEPT ![s] = @ + 1]
    /\ phase' = [phase EXCEPT ![r] = "sent"]
    /\ UNCHANGED <<pool, releasing, used, minSteps, result, weightVars, serverVars, trainerVars>>

\* The request reaches the server.
Arrive(r) ==
    /\ phase[r] = "sent"
    /\ LET s == server[r]
       IN  \/ /\ paused[s]
              /\ waiting' = [waiting EXCEPT ![s] = @ \union {r}]
              /\ phase' = [phase EXCEPT ![r] = "serving"]
              /\ UNCHANGED <<engine, using>>
           \/ /\ ~paused[s] /\ ~asleep[s]
              /\ engine' = [engine EXCEPT ![s] = @ \union {r}]
              /\ using' = [using EXCEPT ![r] = {weights[s]}]
              /\ phase' = [phase EXCEPT ![r] = "serving"]
              /\ UNCHANGED waiting
           \/ /\ ~paused[s] /\ asleep[s]
              /\ phase' = [phase EXCEPT ![r] = "stranded"]
              /\ UNCHANGED <<engine, using, waiting>>
    /\ UNCHANGED <<balancerVars, clientVars, result, weightVars, paused, asleep, trainerVars>>

\* The generation ends by itself; the version is read afterwards.
Complete(r) ==
    /\ phase[r] = "serving"
    /\ LET s == server[r]
       IN  /\ r \in engine[s]
           /\ engine' = [engine EXCEPT ![s] = @ \ {r}]
           /\ result' = [result EXCEPT ![r] = [reason |-> "completed", version |-> steps[s]]]
    /\ used' = [used EXCEPT ![r] = @ \union using[r]]
    /\ using' = [using EXCEPT ![r] = {}]
    /\ phase' = [phase EXCEPT ![r] = "answered"]
    /\ UNCHANGED <<balancerVars, server, minSteps, weightVars, paused, asleep, waiting, trainerVars>>

\* final_output with the output merged into it. The break for a response that has all its tokens, with stop_reason
\* "length" (fully_async_rollouter.py:135-139), is not told apart: an output that holds the last token is "completed".
FinalOutput(r) ==
    [stop_reason |-> result[r].reason,
     minSteps |-> IF minSteps[r] = 0 THEN result[r].version ELSE minSteps[r],
     maxSteps |-> result[r].version]

GoesOn(r) == result[r].reason = "aborted" /\ PartialRollout

\* The output is merged, the server released, and an aborted generation taken up again in partial rollout; else
\* final_output is returned and the client keeps nothing.
Merge(r) ==
    /\ phase[r] = "answered"
    /\ releasing' = releasing \union {r}
    /\ result' = [result EXCEPT ![r] = NoResult]
    /\ \/ /\ GoesOn(r)
          /\ phase' = [phase EXCEPT ![r] = "ready"]
          /\ minSteps' = [minSteps EXCEPT ![r] = FinalOutput(r).minSteps]
          /\ UNCHANGED used
       \/ /\ ~GoesOn(r)
          /\ phase' = [phase EXCEPT ![r] = "done"]
          /\ minSteps' = [minSteps EXCEPT ![r] = 0]
          /\ used' = [used EXCEPT ![r] = {}]
    /\ UNCHANGED <<pool, inflight, sticky, server, weightVars, serverVars, trainerVars>>

\* Mutant of Release: the count may go below zero.
ReleaseUnguarded(r) ==
    /\ r \in releasing
    /\ releasing' = releasing \ {r}
    /\ LET s == server[r]
       IN  inflight' = [inflight EXCEPT ![s] = IF s \in pool THEN @ - 1 ELSE @]
    /\ UNCHANGED <<pool, sticky, clientVars, phase, result, weightVars, serverVars, trainerVars>>

\* release_server, called without waiting for it, but executed before the next call of the same client.
Release(r) ==
    /\ r \in releasing
    /\ releasing' = releasing \ {r}
    /\ LET s == server[r]
       IN  inflight' = [inflight EXCEPT ![s] = IF s \in pool /\ @ > 0 THEN @ - 1 ELSE @]
    /\ UNCHANGED <<pool, sticky, clientVars, phase, result, weightVars, serverVars, trainerVars>>

-----------------------------------------------------------------------------
(* The trainer.  A step is done on each of its servers, in any order. *)

Do(act, servers) == [act |-> act, on |-> servers]

Synchronize ==
    <<Do("abort", Standalone), Do("drain", Standalone), Do("load", Standalone), Do("resume", Standalone)>>

TrainerSideValidate ==
    <<Do("wake", Hybrid), Do("abort", Standalone), Do("abort", Hybrid), Do("add", Hybrid),
      Do("resume", Standalone), Do("resume", Hybrid),
      Do("abort", Standalone), Do("abort", Hybrid), Do("remove", Hybrid), Do("sleep", Hybrid),
      Do("resume", Standalone), Do("resume", Hybrid)>>

Script == Synchronize \o IF Hybrid = {} THEN <<>> ELSE TrainerSideValidate

Doing(act) == step \in DOMAIN Script /\ Script[step].act = act

Finished(servers) ==
    IF left \subseteq servers
    THEN /\ step' = step + 1
         /\ left' = IF step' \in DOMAIN Script THEN Script[step'].on ELSE {}
         /\ UNCHANGED version
    ELSE /\ left' = left \ servers
         /\ UNCHANGED <<version, step>>

\* The next version has been trained.
BeginUpdate ==
    /\ step \notin DOMAIN Script
    /\ version < Updates
    /\ version' = version + 1
    /\ step' = 1
    /\ left' = Script[1].on
    /\ UNCHANGED <<balancerVars, clientVars, phase, result, weightVars, serverVars>>

\* Mutant of Abort: the engine goes on taking new requests.
AbortUnpaused(s) ==
    /\ Doing("abort") /\ s \in left
    /\ engine' = [engine EXCEPT ![s] = {}]
    /\ \E empty \in SUBSET engine[s] :
          /\ result' = [r \in Requests |->
                IF r \in engine[s]
                THEN [reason |-> "aborted", version |-> IF r \in empty THEN 0 ELSE steps[s]]
                ELSE result[r]]
          /\ used' = [r \in Requests |-> IF r \in engine[s] \ empty THEN used[r] \union using[r] ELSE used[r]]
    /\ phase' = [r \in Requests |-> IF r \in engine[s] THEN "answered" ELSE phase[r]]
    /\ using' = [r \in Requests |-> IF r \in engine[s] THEN {} ELSE using[r]]
    /\ Finished({s})
    /\ UNCHANGED <<balancerVars, server, minSteps, weightVars, paused, asleep, waiting>>

\* abort_all_requests: the engine pauses, and what it was generating comes back, with tokens or without any.
Abort(s) ==
    /\ Doing("abort") /\ s \in left
    /\ paused' = [paused EXCEPT ![s] = TRUE]
    /\ engine' = [engine EXCEPT ![s] = {}]
    /\ \E empty \in SUBSET engine[s] :
          /\ result' = [r \in Requests |->
                IF r \in engine[s]
                THEN [reason |-> "aborted", version |-> IF r \in empty THEN 0 ELSE steps[s]]
                ELSE result[r]]
          /\ used' = [r \in Requests |-> IF r \in engine[s] \ empty THEN used[r] \union using[r] ELSE used[r]]
    /\ phase' = [r \in Requests |-> IF r \in engine[s] THEN "answered" ELSE phase[r]]
    /\ using' = [r \in Requests |-> IF r \in engine[s] THEN {} ELSE using[r]]
    /\ Finished({s})
    /\ UNCHANGED <<balancerVars, server, minSteps, weightVars, asleep, waiting>>

\* release_kv_cache of the replica, for its wait: nothing is being generated.
Drain(s) ==
    /\ Doing("drain") /\ s \in left
    /\ engine[s] = {}
    /\ Finished({s})
    /\ UNCHANGED <<balancerVars, clientVars, phase, result, weightVars, serverVars>>

\* The weights, and then their version; a generation under way would go on with them.
Load(s) ==
    /\ Doing("load") /\ s \in left
    /\ weights' = [weights EXCEPT ![s] = version]
    /\ steps' = [steps EXCEPT ![s] = version]
    /\ using' = [r \in Requests |-> IF r \in engine[s] THEN using[r] \union {version} ELSE using[r]]
    /\ Finished({s})
    /\ UNCHANGED <<balancerVars, clientVars, phase, result, paused, asleep, engine, waiting>>

\* update_weights of the naive backend: a hybrid server is woken up with the new weights.
Wake(s) ==
    /\ Doing("wake") /\ s \in left
    /\ asleep' = [asleep EXCEPT ![s] = FALSE]
    /\ weights' = [weights EXCEPT ![s] = version]
    /\ steps' = [steps EXCEPT ![s] = version]
    /\ Finished({s})
    /\ UNCHANGED <<balancerVars, clientVars, phase, result, paused, engine, waiting, using>>

\* Mutant of Resume: the engine stays paused.
ResumeUnheard(s) ==
    /\ Doing("resume") /\ s \in left
    /\ Finished({s})
    /\ UNCHANGED <<balancerVars, clientVars, phase, result, weightVars, serverVars>>

\* resume_generation: the requests that wait go on, on whatever state the server is in.
Resume(s) ==
    /\ Doing("resume") /\ s \in left
    /\ paused' = [paused EXCEPT ![s] = FALSE]
    /\ waiting' = [waiting EXCEPT ![s] = {}]
    /\ IF asleep[s]
       THEN /\ phase' = [r \in Requests |-> IF r \in waiting[s] THEN "stranded" ELSE phase[r]]
            /\ UNCHANGED <<engine, using>>
       ELSE /\ engine' = [engine EXCEPT ![s] = @ \union waiting[s]]
            /\ using' = [r \in Requests |-> IF r \in waiting[s] THEN {weights[s]} ELSE using[r]]
            /\ UNCHANGED phase
    /\ Finished({s})
    /\ UNCHANGED <<balancerVars, clientVars, result, weightVars, asleep>>

\* add_replicas, add_servers: all of them join with a count of zero.
AddServers ==
    /\ Doing("add")
    /\ pool' = pool \union left
    /\ inflight' = [s \in Servers |-> IF s \in left THEN 0 ELSE inflight[s]]
    /\ Finished(left)
    /\ UNCHANGED <<sticky, releasing, clientVars, phase, result, weightVars, serverVars>>

\* remove_replicas, remove_servers.
RemoveServers ==
    /\ Doing("remove")
    /\ pool' = pool \ left
    /\ inflight' = [s \in Servers |-> IF s \in left THEN 0 ELSE inflight[s]]
    /\ Finished(left)
    /\ UNCHANGED <<sticky, releasing, clientVars, phase, result, weightVars, serverVars>>

\* sleep: when nothing is being generated.
Sleep(s) ==
    /\ Doing("sleep") /\ s \in left
    /\ engine[s] = {}
    /\ asleep' = [asleep EXCEPT ![s] = TRUE]
    /\ Finished({s})
    /\ UNCHANGED <<balancerVars, clientVars, phase, result, weightVars, paused, engine, waiting, using>>

-----------------------------------------------------------------------------
Init ==
    /\ pool = Standalone /\ inflight = [s \in Servers |-> 0]
    /\ sticky = [r \in Requests |-> {}] /\ releasing = {}
    /\ phase = [r \in Requests |-> "ready"] /\ server \in [Requests -> Standalone]
    /\ result = [r \in Requests |-> NoResult] /\ used = [r \in Requests |-> {}]
    /\ minSteps = [r \in Requests |-> 0]
    /\ paused = [s \in Servers |-> FALSE] /\ asleep = [s \in Servers |-> s \in Hybrid]
    /\ weights = [s \in Servers |-> 1] /\ steps = [s \in Servers |-> 1]
    /\ engine = [s \in Servers |-> {}] /\ waiting = [s \in Servers |-> {}] /\ using = [r \in Requests |-> {}]
    /\ version = 1 /\ step = Len(Script) + 1 /\ left = {}

Client(r) == Acquire(r) \/ Arrive(r) \/ Complete(r) \/ Merge(r) \/ Release(r)

Trainer ==
    \/ BeginUpdate \/ AddServers \/ RemoveServers
    \/ \E s \in Servers : Abort(s) \/ Drain(s) \/ Load(s) \/ Wake(s) \/ Resume(s) \/ Sleep(s)

Next == (\E r \in Requests : Client(r)) \/ Trainer

\* Calls arrive and return, generation ends.
Fairness ==
    /\ \A r \in Requests : WF_vars(Client(r))
    /\ WF_vars(Trainer)

Spec == Init /\ [][Next]_vars /\ Fairness

-----------------------------------------------------------------------------
TypeOK ==
    /\ pool \subseteq Servers /\ Standalone \subseteq pool
    /\ inflight \in [Servers -> Nat] /\ releasing \subseteq Requests
    /\ sticky \in [Requests -> {{}} \union {{s} : s \in Servers}]
    /\ phase \in [Requests -> {"ready", "sent", "serving", "answered", "done", "stranded"}]
    /\ server \in [Requests -> Servers]
    /\ result \in [Requests -> [reason : {"none", "completed", "aborted"}, version : 0 .. version]]
    /\ used \in [Requests -> SUBSET (1 .. version)] /\ using \in [Requests -> SUBSET (1 .. version)]
    /\ minSteps \in [Requests -> 0 .. version]
    /\ paused \in [Servers -> BOOLEAN] /\ asleep \in [Servers -> BOOLEAN]
    /\ weights \in [Servers -> 1 .. version] /\ steps \in [Servers -> 1 .. version]
    /\ engine \in [Servers -> SUBSET Requests] /\ waiting \in [Servers -> SUBSET Requests]
    /\ \A r \in Requests : phase[r] = "serving" <=> r \in engine[server[r]] \union waiting[server[r]]
    /\ left \subseteq Servers

\* The requests that a server was acquired for and not released.
Held(s) ==
    {r \in Requests : /\ server[r] = s
                      /\ phase[r] \in {"sent", "serving", "answered", "stranded"} \/ r \in releasing}

\* The balancer's counts: exact, but for releases under way, for a server that never leaves; never too high
\* for one that comes and goes, although old releases meet new counts.  (acquire_server, release_server, add_servers.)
LoadTracked ==
    \A s \in pool :
        /\ inflight[s] <= Cardinality(Held(s))
        /\ s \in Standalone => inflight[s] = Cardinality(Held(s))

\* The versions an answer carries are those of the oldest and the newest weights that made a token of it, over all the
\* interruptions and all the servers it went through.  (generate of client and server, abort_all_requests.)
VersionsReported ==
    \A r \in Requests : phase[r] = "answered" /\ ~GoesOn(r) /\ used[r] # {} =>
        LET answer == FinalOutput(r)
        IN  /\ answer.minSteps \in used[r] /\ \A v \in used[r] : answer.minSteps <= v
            /\ answer.maxSteps \in used[r] /\ \A v \in used[r] : v <= answer.maxSteps

\* No request is lost between the interruptions: each is answered, unless it went to a server put to
\* sleep; and the trainer gets through its updates whatever requests are under way.  (generate, update_weights, _trainer_side_validate.)
RequestsAnswered ==
    <>(/\ \A r \in Requests : phase[r] \in {"done", "stranded"}
       /\ version = Updates /\ step \notin DOMAIN Script)

\* README.md of fully_async_policy, without partial rollout: when parameters are synchronized, the rollouter waits for
\* the ongoing tasks to complete.  So every answer is a completed one.
AnswersComplete == \A r \in Requests : phase[r] = "answered" /\ ~GoesOn(r) => FinalOutput(r).stop_reason = "completed"
=============================================================================
