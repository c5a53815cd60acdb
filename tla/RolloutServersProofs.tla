------------------------ MODULE RolloutServersProofs ------------------------
(***************************************************************************)
(* Proofs about RolloutServers, for any servers, any number of requests    *)
(* and of weight updates, with and without partial rollout.                *)
(*                                                                         *)
(* Rolling says what the position in the trainer's script tells about the  *)
(* servers: who is paused, who sleeps, whose weights are new.  Placed says *)
(* where the requests are.  From the two, at any moment every server that  *)
(* generates has the weights of one version, and the versions only grow:   *)
(* that is what Reported needs to follow min_ and max_global_steps through *)
(* interruptions.  Counted relates the balancer's counts to the requests.  *)
(***************************************************************************)
EXTENDS RolloutServers, FiniteSetTheorems, SequenceTheorems, TLAPS

USE ServersAssumption

Busy == {"sent", "serving", "answered", "stranded"}

\* The steps of the script that are named by their number below: 1 and 2 abort
\* and drain the standalone servers, 3 loads their weights, 5 wakes the hybrid
\* servers up and 14 puts them to sleep.
Rolling ==
    /\ step \in 1 .. Len(Script) + 1
    /\ left \subseteq IF step \in DOMAIN Script THEN Script[step].on ELSE {}
    /\ version \in Nat \ {0}
    /\ steps = weights
    /\ \A s \in Standalone :
          /\ ~asleep[s]
          /\ step \in {2, 3} \/ (step = 1 /\ s \notin left) => paused[s]
          /\ weights[s] = IF step \in {1, 2} \/ (step = 3 /\ s \in left) THEN version - 1 ELSE version
    /\ \A s \in Hybrid :
          /\ asleep[s] <=> \/ step < 5 \/ step > 14
                           \/ step = 5 /\ s \in left
                           \/ step = 14 /\ s \notin left
          /\ ~asleep[s] => weights[s] = version

\* A paused server generates nothing and lets requests wait, a sleeping one
\* generates nothing; a request is at the server its client called.
Placed ==
    /\ \A s \in Servers : paused[s] \/ asleep[s] => engine[s] = {}
    /\ \A s \in Servers : ~paused[s] => waiting[s] = {}
    /\ \A s \in Servers : \A r \in engine[s] \union waiting[s] : server[r] = s /\ phase[r] = "serving"
    /\ \A s \in Servers : \A r \in engine[s] : using[r] = {weights[s]}

\* A request being released is not under way; the counts of the balancer.
Counted ==
    /\ \A r \in releasing : phase[r] \in {"ready", "done"}
    /\ LoadTracked

\* The version of the servers that generate, now or after the running update.
Newest == IF step \in {1, 2, 3} THEN version - 1 ELSE version

\* minSteps is the oldest version that made tokens, zero when none did.
Oldest(r) ==
    /\ minSteps[r] = 0 <=> used[r] = {}
    /\ used[r] # {} => minSteps[r] \in used[r] /\ \A v \in used[r] : minSteps[r] <= v

\* An answer with tokens reports the newest version that made them.
Answered(r) ==
    /\ result[r].reason \in {"completed", "aborted"}
    /\ result[r].reason = "completed" => result[r].version # 0
    /\ result[r].version = 0 => Oldest(r)
    /\ result[r].version # 0 =>
          /\ result[r].version \in used[r] /\ \A v \in used[r] : v <= result[r].version
          /\ minSteps[r] = 0 => used[r] = {result[r].version}
          /\ minSteps[r] # 0 => minSteps[r] \in used[r] /\ \A v \in used[r] : minSteps[r] <= v

Reported ==
    \A r \in Requests :
        /\ \A v \in used[r] : v <= Newest
        /\ phase[r] # "answered" => Oldest(r)
        /\ phase[r] = "answered" => Answered(r)
        /\ ~PartialRollout => minSteps[r] = 0

Inv == TypeOK /\ Rolling /\ Placed /\ Counted /\ Reported

-----------------------------------------------------------------------------
(* The trainer's script                                                    *)

LEMMA ScriptFacts ==
    /\ Len(Script) = IF Hybrid = {} THEN 4 ELSE 16
    /\ DOMAIN Script = 1 .. Len(Script)
    /\ Script[1] = Do("abort", Standalone) /\ Script[2] = Do("drain", Standalone)
    /\ Script[3] = Do("load", Standalone) /\ Script[4] = Do("resume", Standalone)
    /\ Hybrid # {} =>
          /\ Script[5] = Do("wake", Hybrid) /\ Script[6] = Do("abort", Standalone)
          /\ Script[7] = Do("abort", Hybrid) /\ Script[8] = Do("add", Hybrid)
          /\ Script[9] = Do("resume", Standalone) /\ Script[10] = Do("resume", Hybrid)
          /\ Script[11] = Do("abort", Standalone) /\ Script[12] = Do("abort", Hybrid)
          /\ Script[13] = Do("remove", Hybrid) /\ Script[14] = Do("sleep", Hybrid)
          /\ Script[15] = Do("resume", Standalone) /\ Script[16] = Do("resume", Hybrid)
<1>1. CASE Hybrid = {}
  <2>1. Script = Synchronize \o <<>>
    BY <1>1 DEF Script
  <2>2. Synchronize \o <<>> = Synchronize
    BY DEF Synchronize
  <2> QED
    BY <1>1, <2>1, <2>2 DEF Synchronize
<1>2. CASE Hybrid # {}
  <2>1. Script = Synchronize \o TrainerSideValidate
    BY <1>2 DEF Script
  <2> DEFINE E == {Do("abort", Standalone), Do("drain", Standalone), Do("load", Standalone), Do("resume", Standalone),
                   Do("wake", Hybrid), Do("abort", Hybrid), Do("add", Hybrid), Do("resume", Hybrid),
                   Do("remove", Hybrid), Do("sleep", Hybrid)}
  <2>2. /\ Synchronize \in Seq(E) /\ Len(Synchronize) = 4
        /\ TrainerSideValidate \in Seq(E) /\ Len(TrainerSideValidate) = 12
    <3>1. /\ Do("abort", Standalone) \in E /\ Do("drain", Standalone) \in E /\ Do("load", Standalone) \in E
          /\ Do("resume", Standalone) \in E /\ Do("resume", Hybrid) \in E /\ Do("abort", Hybrid) \in E
          /\ Do("wake", Hybrid) \in E /\ Do("add", Hybrid) \in E /\ Do("remove", Hybrid) \in E
          /\ Do("sleep", Hybrid) \in E
      OBVIOUS
    <3> HIDE DEF E
    <3>2. Len(Synchronize) = 4 /\ Len(TrainerSideValidate) = 12
      BY DEF Synchronize, TrainerSideValidate
    <3>3. Synchronize \in Seq(E)
      BY <3>1 DEF Synchronize
    <3>4. TrainerSideValidate \in Seq(E)
      BY <3>1 DEF TrainerSideValidate
    <3> QED
      BY <3>2, <3>3, <3>4
  <2> HIDE DEF E
  <2>3. /\ Script \in Seq(E) /\ Len(Script) = 16
        /\ \A i \in 1 .. 16 : Script[i] = IF i <= 4 THEN Synchronize[i] ELSE TrainerSideValidate[i - 4]
    <3> DEFINE S == Synchronize \o TrainerSideValidate
    <3>1. /\ S \in Seq(E) /\ Len(S) = Len(Synchronize) + Len(TrainerSideValidate)
          /\ \A i \in 1 .. Len(Synchronize) + Len(TrainerSideValidate) :
                S[i] = IF i <= Len(Synchronize) THEN Synchronize[i] ELSE TrainerSideValidate[i - Len(Synchronize)]
      BY <2>2, ConcatProperties
    <3>2. Len(Synchronize) + Len(TrainerSideValidate) = 16
      BY <2>2
    <3> HIDE DEF S
    <3>3. /\ S \in Seq(E) /\ Len(S) = 16
          /\ \A i \in 1 .. 16 : S[i] = IF i <= 4 THEN Synchronize[i] ELSE TrainerSideValidate[i - 4]
      BY <2>2, <3>1, <3>2
    <3> QED
      BY <2>1, <3>3 DEF S
  <2>4. DOMAIN Script = 1 .. 16
    BY <2>3
  <2>5. /\ \A i \in 1 .. 4 : Script[i] = Synchronize[i]
        /\ \A i \in 1 .. 12 : Script[i + 4] = TrainerSideValidate[i]
    BY <2>3
  <2>6. /\ Script[1] = Synchronize[1] /\ Script[2] = Synchronize[2]
        /\ Script[3] = Synchronize[3] /\ Script[4] = Synchronize[4]
    BY <2>5
  <2>7. /\ Script[5] = TrainerSideValidate[1] /\ Script[6] = TrainerSideValidate[2]
        /\ Script[7] = TrainerSideValidate[3] /\ Script[8] = TrainerSideValidate[4]
        /\ Script[9] = TrainerSideValidate[5] /\ Script[10] = TrainerSideValidate[6]
        /\ Script[11] = TrainerSideValidate[7] /\ Script[12] = TrainerSideValidate[8]
        /\ Script[13] = TrainerSideValidate[9] /\ Script[14] = TrainerSideValidate[10]
        /\ Script[15] = TrainerSideValidate[11] /\ Script[16] = TrainerSideValidate[12]
    BY <2>3
  <2>8. /\ Script[1] = Do("abort", Standalone) /\ Script[2] = Do("drain", Standalone)
        /\ Script[3] = Do("load", Standalone) /\ Script[4] = Do("resume", Standalone)
    BY <2>6 DEF Synchronize
  <2>9. /\ Script[5] = Do("wake", Hybrid) /\ Script[6] = Do("abort", Standalone)
        /\ Script[7] = Do("abort", Hybrid) /\ Script[8] = Do("add", Hybrid)
        /\ Script[9] = Do("resume", Standalone) /\ Script[10] = Do("resume", Hybrid)
        /\ Script[11] = Do("abort", Standalone) /\ Script[12] = Do("abort", Hybrid)
        /\ Script[13] = Do("remove", Hybrid) /\ Script[14] = Do("sleep", Hybrid)
        /\ Script[15] = Do("resume", Standalone) /\ Script[16] = Do("resume", Hybrid)
    BY <2>7 DEF TrainerSideValidate
  <2> QED
    BY <1>2, <2>3, <2>4, <2>8, <2>9
<1> QED
  BY <1>1, <1>2

\* Where an operation stands in the script, and which servers it is done on.
LEMMA Places ==
    ASSUME NEW act, Doing(act)
    PROVE  /\ step \in 1 .. 16 /\ step \in DOMAIN Script
           /\ act = "abort" => \/ step = 1 /\ Script[step].on = Standalone
                              \/ step \in 6 .. 12
           /\ act = "drain" => step = 2 /\ Script[step].on = Standalone
           /\ act = "load" => step = 3 /\ Script[step].on = Standalone
           /\ act = "wake" => step = 5 /\ Script[step].on = Hybrid
           /\ act = "add" => step = 8 /\ Script[step].on = Hybrid
           /\ act = "remove" => step = 13 /\ Script[step].on = Hybrid
           /\ act = "sleep" => step = 14 /\ Script[step].on = Hybrid
           /\ act = "resume" => \/ step = 4 /\ Script[step].on = Standalone
                               \/ step \in {9, 10, 15, 16}
<1>1. step \in DOMAIN Script /\ Script[step].act = act
  BY DEF Doing
<1>2. step \in 1 .. 16 /\ (Hybrid = {} => step \in 1 .. 4)
  BY <1>1, ScriptFacts
<1>3. CASE step \in 1 .. 4
  BY <1>1, <1>2, <1>3, ScriptFacts DEF Do
<1>4. CASE step \in 5 .. 10
  BY <1>1, <1>2, <1>4, ScriptFacts DEF Do
<1>5. CASE step \in 11 .. 16
  BY <1>1, <1>2, <1>5, ScriptFacts DEF Do
<1> QED
  BY <1>2, <1>3, <1>4, <1>5

-----------------------------------------------------------------------------
(* Rolling is inductive                                                    *)

\* The trainer goes on with the rest of the servers, or to the next step.
LEMMA GoesOnScript ==
    ASSUME Rolling, NEW act, Doing(act), NEW S, Finished(S)
    PROVE  /\ version' = version /\ step' \in 1 .. Len(Script) + 1
           /\ left' \subseteq IF step' \in DOMAIN Script THEN Script[step'].on ELSE {}
           /\ \/ left \subseteq S /\ step' = step + 1 /\ left' = IF step + 1 \in DOMAIN Script THEN Script[step + 1].on ELSE {}
              \/ step' = step /\ left' = left \ S
<1>1. step \in DOMAIN Script /\ DOMAIN Script = 1 .. Len(Script) /\ Len(Script) \in Nat
  BY ScriptFacts DEF Doing
<1>2. CASE left \subseteq S
  <2>1. version' = version /\ step' = step + 1 /\ left' = IF step' \in DOMAIN Script THEN Script[step'].on ELSE {}
    BY <1>2 DEF Finished
  <2>2. step' \in 1 .. Len(Script) + 1
    BY <1>1, <2>1
  <2> QED
    BY <1>2, <2>1, <2>2
<1>3. CASE ~(left \subseteq S)
  <2>1. version' = version /\ step' = step /\ left' = left \ S
    BY <1>3 DEF Finished
  <2> QED
    BY <1>1, <2>1 DEF Rolling
<1> QED
  BY <1>2, <1>3

\* What is not about loading, waking up or putting to sleep disturbs little.
LEMMA Elsewhere ==
    ASSUME Rolling, NEW act, Doing(act), NEW S, Finished(S), step \in 4 .. 16, step \notin {5, 14},
           UNCHANGED <<weights, steps, asleep>>
    PROVE  Rolling'
<1>1. /\ version' = version /\ step' \in 1 .. Len(Script) + 1 /\ step' \in {step, step + 1}
      /\ left' \subseteq IF step' \in DOMAIN Script THEN Script[step'].on ELSE {}
      /\ step' = step + 1 => left' = IF step + 1 \in DOMAIN Script THEN Script[step + 1].on ELSE {}
      /\ step \in DOMAIN Script
  BY GoesOnScript DEF Doing
<1>2. \A s \in Standalone : ~asleep[s] /\ weights[s] = version
  BY DEF Rolling
<1>3. \A s \in Hybrid : asleep'[s] <=> \/ step' < 5 \/ step' > 14
                                       \/ step' = 5 /\ s \in left'
                                       \/ step' = 14 /\ s \notin left'
  <2> TAKE s \in Hybrid
  <2>1. 5 \in DOMAIN Script /\ Script[5].on = Hybrid /\ 14 \in DOMAIN Script /\ Script[14].on = Hybrid
    BY ScriptFacts DEF Do
  <2>2. asleep'[s] <=> step \in {4, 15, 16}
    BY DEF Rolling
  <2>3. step' = 5 => step = 4 /\ left' = Hybrid
    BY <1>1, <2>1
  <2>4. step' = 14 => step = 13 /\ left' = Hybrid
    BY <1>1, <2>1
  <2> QED
    BY <1>1, <2>2, <2>3, <2>4
<1>4. \A s \in Hybrid : ~asleep[s] => weights[s] = version
  BY DEF Rolling
<1>5. step' \notin {1, 2, 3}
  BY <1>1
<1> QED
  BY <1>1, <1>2, <1>3, <1>4, <1>5 DEF Rolling

LEMMA RollingStep ==
    ASSUME TypeOK, Rolling, [Next]_vars
    PROVE  Rolling'
<1>0. /\ step \in 1 .. Len(Script) + 1 /\ Len(Script) \in Nat /\ DOMAIN Script = 1 .. Len(Script)
      /\ version \in Nat \ {0} /\ steps = weights
      /\ weights \in [Servers -> Nat] /\ paused \in [Servers -> BOOLEAN] /\ asleep \in [Servers -> BOOLEAN]
      /\ Standalone \subseteq Servers /\ Hybrid \subseteq Servers
  BY ScriptFacts DEF Rolling, TypeOK, Servers
<1>1. ASSUME NEW r \in Requests, Client(r) PROVE Rolling'
  <2>1. UNCHANGED <<step, left, version, weights, steps, paused, asleep>>
    BY <1>1 DEF Client, Acquire, Arrive, Complete, Merge, Release, trainerVars, weightVars, serverVars
  <2> QED
    BY <2>1 DEF Rolling
<1>2. CASE BeginUpdate
  <2>1. /\ step \notin DOMAIN Script /\ version' = version + 1 /\ step' = 1 /\ left' = Script[1].on
        /\ UNCHANGED <<weights, steps, paused, asleep>>
    BY <1>2 DEF BeginUpdate, weightVars, serverVars
  <2>2. /\ Script[1].on = Standalone /\ 1 \in DOMAIN Script
        /\ step > 4 /\ (Hybrid # {} => step > 14)
    BY <1>0, <2>1, ScriptFacts DEF Do
  <2>3. \A s \in Standalone : ~asleep[s] /\ weights[s] = version
    BY <2>2 DEF Rolling
  <2>4. \A s \in Hybrid : asleep[s]
    BY <2>2 DEF Rolling
  <2>5. version' \in Nat \ {0} /\ version' - 1 = version
    BY <1>0, <2>1
  <2> QED
    BY <1>0, <2>1, <2>2, <2>3, <2>4, <2>5 DEF Rolling
<1>3. CASE AddServers \/ RemoveServers
  <2>1. /\ (Doing("add") \/ Doing("remove")) /\ Finished(left)
        /\ UNCHANGED <<weights, steps, asleep>>
    BY <1>3 DEF AddServers, RemoveServers, weightVars, serverVars
  <2>2. step \in {8, 13}
    BY <2>1, Places
  <2> QED
    BY <2>1, <2>2, Elsewhere
<1>4. ASSUME NEW s \in Servers, Abort(s) PROVE Rolling'
  <2>1. /\ Doing("abort") /\ s \in left /\ Finished({s}) /\ paused' = [paused EXCEPT ![s] = TRUE]
        /\ UNCHANGED <<weights, steps, asleep>>
    BY <1>4 DEF Abort, weightVars
  <2>2. CASE step = 1
    <3>1. left \subseteq Standalone /\ Script[2].on = Standalone /\ 2 \in DOMAIN Script /\ Script[1].on = Standalone
      BY <1>0, <2>2, ScriptFacts DEF Do, Rolling
    <3>2. /\ version' = version /\ step' \in 1 .. Len(Script) + 1
          /\ \/ left \subseteq {s} /\ step' = 2 /\ left' = Standalone
             \/ step' = 1 /\ left' = left \ {s}
      BY <2>1, <2>2, <3>1, GoesOnScript
    <3>3. left' \subseteq IF step' \in DOMAIN Script THEN Script[step'].on ELSE {}
      BY <2>1, GoesOnScript
    <3>4. \A q \in Standalone : q \notin left \/ q = s => paused'[q]
      BY <1>0, <2>1, <2>2 DEF Rolling
    <3>5. \A q \in Standalone : step' = 2 \/ q \notin left' => paused'[q]
      BY <3>2, <3>4
    <3> QED
      BY <1>0, <2>1, <2>2, <3>2, <3>3, <3>5 DEF Rolling
  <2>3. CASE step \in 6 .. 12
    BY <2>1, <2>3, Elsewhere
  <2> QED
    BY <2>1, <2>2, <2>3, Places
<1>5. ASSUME NEW s \in Servers, Drain(s) PROVE Rolling'
  <2>1. /\ Doing("drain") /\ Finished({s}) /\ UNCHANGED <<weights, steps, asleep, paused>>
    BY <1>5 DEF Drain, weightVars, serverVars
  <2>2. step = 2 /\ Script[3].on = Standalone /\ 3 \in DOMAIN Script
    BY <1>0, <2>1, Places, ScriptFacts DEF Do
  <2>3. /\ version' = version /\ step' \in 1 .. Len(Script) + 1
        /\ \/ step' = 3 /\ left' = Standalone
           \/ step' = 2
    BY <2>1, <2>2, GoesOnScript
  <2>4. left' \subseteq IF step' \in DOMAIN Script THEN Script[step'].on ELSE {}
    BY <2>1, GoesOnScript
  <2> QED
    BY <1>0, <2>1, <2>2, <2>3, <2>4 DEF Rolling
<1>6. ASSUME NEW s \in Servers, Load(s) PROVE Rolling'
  <2>1. /\ Doing("load") /\ s \in left /\ Finished({s}) /\ UNCHANGED <<asleep, paused>>
        /\ weights' = [weights EXCEPT ![s] = version] /\ steps' = [steps EXCEPT ![s] = version]
    BY <1>6 DEF Load
  <2>2. step = 3 /\ left \subseteq Standalone
    <3>1. step = 3 /\ step \in DOMAIN Script /\ Script[step].on = Standalone
      BY <2>1, Places
    <3> QED
      BY <3>1 DEF Rolling
  <2>3. /\ version' = version /\ step' \in 1 .. Len(Script) + 1
        /\ \/ left \subseteq {s} /\ step' = 4
           \/ step' = 3 /\ left' = left \ {s}
    BY <2>1, <2>2, GoesOnScript
  <2>4. left' \subseteq IF step' \in DOMAIN Script THEN Script[step'].on ELSE {}
    BY <2>1, GoesOnScript
  <2>5. \A q \in Standalone : weights'[q] = IF q \in left /\ q # s THEN version - 1 ELSE version
    BY <1>0, <2>1, <2>2 DEF Rolling
  <2>6. \A q \in Hybrid : weights'[q] = weights[q]
    BY <1>0, <2>1, <2>2
  <2>7. steps' = weights'
    BY <1>0, <2>1
  <2>8. \A q \in Standalone : weights'[q] = IF step' = 3 /\ q \in left' THEN version - 1 ELSE version
    BY <2>3, <2>5
  <2> QED
    BY <1>0, <2>1, <2>2, <2>3, <2>4, <2>6, <2>7, <2>8 DEF Rolling
<1>7. ASSUME NEW s \in Servers, Wake(s) PROVE Rolling'
  <2>1. /\ Doing("wake") /\ s \in left /\ Finished({s}) /\ asleep' = [asleep EXCEPT ![s] = FALSE]
        /\ weights' = [weights EXCEPT ![s] = version] /\ steps' = [steps EXCEPT ![s] = version]
    BY <1>7 DEF Wake
  <2>2. step = 5 /\ left \subseteq Hybrid
    <3>1. step = 5 /\ step \in DOMAIN Script /\ Script[step].on = Hybrid
      BY <2>1, Places
    <3> QED
      BY <3>1 DEF Rolling
  <2>3. /\ version' = version /\ step' \in 1 .. Len(Script) + 1
        /\ \/ left \subseteq {s} /\ step' = 6
           \/ step' = 5 /\ left' = left \ {s}
    BY <2>1, <2>2, GoesOnScript
  <2>4. left' \subseteq IF step' \in DOMAIN Script THEN Script[step'].on ELSE {}
    BY <2>1, GoesOnScript
  <2>5. \A q \in Standalone : weights'[q] = version /\ ~asleep'[q]
    BY <1>0, <2>1, <2>2 DEF Rolling
  <2>6. \A q \in Hybrid : (asleep'[q] <=> q \in left /\ q # s) /\ (~asleep'[q] => weights'[q] = version)
    BY <1>0, <2>1, <2>2 DEF Rolling
  <2>7. steps' = weights'
    BY <1>0, <2>1
  <2>8. \A q \in Hybrid : asleep'[q] <=> step' = 5 /\ q \in left'
    BY <2>3, <2>6
  <2> QED
    BY <1>0, <2>1, <2>2, <2>3, <2>4, <2>5, <2>6, <2>7, <2>8 DEF Rolling
<1>8. ASSUME NEW s \in Servers, Resume(s) PROVE Rolling'
  <2>1. Doing("resume") /\ Finished({s}) /\ UNCHANGED <<weights, steps, asleep>>
    BY <1>8 DEF Resume, weightVars
  <2>2. step \in {4, 9, 10, 15, 16}
    BY <2>1, Places
  <2> QED
    BY <2>1, <2>2, Elsewhere
<1>9. ASSUME NEW s \in Servers, Sleep(s) PROVE Rolling'
  <2>1. /\ Doing("sleep") /\ s \in left /\ Finished({s}) /\ asleep' = [asleep EXCEPT ![s] = TRUE]
        /\ UNCHANGED <<weights, steps>>
    BY <1>9 DEF Sleep, weightVars
  <2>2. step = 14 /\ left \subseteq Hybrid
    <3>1. step = 14 /\ step \in DOMAIN Script /\ Script[step].on = Hybrid
      BY <2>1, Places
    <3> QED
      BY <3>1 DEF Rolling
  <2>3. /\ version' = version /\ step' \in 1 .. Len(Script) + 1
        /\ \/ left \subseteq {s} /\ step' = 15
           \/ step' = 14 /\ left' = left \ {s}
    BY <2>1, <2>2, GoesOnScript
  <2>4. left' \subseteq IF step' \in DOMAIN Script THEN Script[step'].on ELSE {}
    BY <2>1, GoesOnScript
  <2>5. \A q \in Standalone : weights'[q] = version /\ ~asleep'[q]
    BY <1>0, <2>1, <2>2 DEF Rolling
  <2>6. \A q \in Hybrid : (asleep'[q] <=> q \notin left \/ q = s) /\ (~asleep[q] => weights'[q] = version)
    BY <1>0, <2>1, <2>2 DEF Rolling
  <2>7. \A q \in Hybrid : asleep'[q] <=> step' = 15 \/ q \notin left'
    BY <2>3, <2>6
  <2>8. \A q \in Hybrid : ~asleep'[q] => ~asleep[q]
    BY <1>0, <2>1
  <2> QED
    BY <1>0, <2>1, <2>2, <2>3, <2>4, <2>5, <2>6, <2>7, <2>8 DEF Rolling
<1>10. CASE UNCHANGED vars
  BY <1>10 DEF vars, trainerVars, weightVars, serverVars, Rolling
<1> QED
  BY <1>1, <1>2, <1>3, <1>4, <1>5, <1>6, <1>7, <1>8, <1>9, <1>10 DEF Next, Trainer

-----------------------------------------------------------------------------
(* Types, and where the requests are                                       *)

BalancerTypes ==
    /\ pool \subseteq Servers /\ Standalone \subseteq pool
    /\ inflight \in [Servers -> Nat] /\ releasing \subseteq Requests
    /\ sticky \in [Requests -> {{}} \union {{s} : s \in Servers}]

ClientTypes ==
    /\ phase \in [Requests -> {"ready", "sent", "serving", "answered", "done", "stranded"}]
    /\ server \in [Requests -> Servers]
    /\ result \in [Requests -> [reason : {"none", "completed", "aborted"}, version : 0 .. version]]
    /\ used \in [Requests -> SUBSET (1 .. version)] /\ using \in [Requests -> SUBSET (1 .. version)]
    /\ minSteps \in [Requests -> 0 .. version]

ServerTypes ==
    /\ paused \in [Servers -> BOOLEAN] /\ asleep \in [Servers -> BOOLEAN]
    /\ weights \in [Servers -> 1 .. version] /\ steps \in [Servers -> 1 .. version]
    /\ engine \in [Servers -> SUBSET Requests] /\ waiting \in [Servers -> SUBSET Requests]

Located == \A r \in Requests : phase[r] = "serving" => r \in engine[server[r]] \union waiting[server[r]]

LEMMA TypeParts ==
    ASSUME Rolling, Placed
    PROVE  TypeOK <=> BalancerTypes /\ ClientTypes /\ ServerTypes /\ Located /\ left \subseteq Servers
<1>1. ASSUME ClientTypes, ServerTypes
      PROVE  Located <=> \A r \in Requests : phase[r] = "serving" <=> r \in engine[server[r]] \union waiting[server[r]]
  BY <1>1 DEF Located, Placed, ClientTypes
<1>2. TypeOK => BalancerTypes /\ ClientTypes /\ ServerTypes /\ left \subseteq Servers
  BY DEF TypeOK, BalancerTypes, ClientTypes, ServerTypes
<1>3. BalancerTypes /\ ClientTypes /\ ServerTypes /\ left \subseteq Servers
      /\ (\A r \in Requests : phase[r] = "serving" <=> r \in engine[server[r]] \union waiting[server[r]])
      => TypeOK
  BY DEF TypeOK, BalancerTypes, ClientTypes, ServerTypes
<1>4. TypeOK => Located
  BY DEF TypeOK, Located
<1> QED
  BY <1>1, <1>2, <1>3, <1>4

LEMMA TypeWhole ==
    Rolling /\ Placed /\ BalancerTypes /\ ClientTypes /\ ServerTypes /\ Located /\ left \subseteq Servers => TypeOK
  BY TypeParts

LEMMA LeftServers == ASSUME Rolling PROVE left \subseteq Servers
<1>1. DOMAIN Script = 1 .. Len(Script) /\ Len(Script) = IF Hybrid = {} THEN 4 ELSE 16
  BY ScriptFacts
<1>2. ASSUME step \in DOMAIN Script PROVE Script[step].on \subseteq Servers
  <2>1. step \in 1 .. 16 /\ (Hybrid = {} => step \in 1 .. 4)
    BY <1>1, <1>2
  <2>2. CASE step \in 1 .. 8
    BY <2>1, <2>2, ScriptFacts DEF Do, Servers
  <2>3. CASE step \in 9 .. 16
    BY <2>1, <2>3, ScriptFacts DEF Do, Servers
  <2> QED
    BY <2>1, <2>2, <2>3
<1> QED
  BY <1>2 DEF Rolling

\* A server is acquired among those in the pool.
LEMMA Acquired ==
    ASSUME BalancerTypes, NEW r \in Requests, Acquire(r)
    PROVE  \E s \in pool : /\ server' = [server EXCEPT ![r] = s]
                           /\ sticky' = [sticky EXCEPT ![r] = {s}]
                           /\ inflight' = [inflight EXCEPT ![s] = @ + 1]
<1>1. PICK s \in IF sticky[r] \subseteq pool /\ sticky[r] # {} THEN sticky[r] ELSE LeastLoaded :
          /\ server' = [server EXCEPT ![r] = s]
          /\ sticky' = [sticky EXCEPT ![r] = {s}]
          /\ inflight' = [inflight EXCEPT ![s] = @ + 1]
  BY DEF Acquire
<1>2. s \in pool
  BY <1>1 DEF LeastLoaded
<1> QED
  BY <1>1, <1>2

\* The count of the server goes down, but never below zero.
LEMMA Released ==
    ASSUME BalancerTypes, NEW r \in Requests, Release(r)
    PROVE  /\ inflight' \in [Servers -> Nat]
           /\ \A s \in Servers : inflight'[s] = IF s = server[r] /\ s \in pool /\ inflight[s] > 0
                                           THEN inflight[s] - 1 ELSE inflight[s]
<1> DEFINE count(s) == IF s \in pool /\ inflight[s] > 0 THEN inflight[s] - 1 ELSE inflight[s]
<1>1. inflight \in [Servers -> Nat]
  BY DEF BalancerTypes
<1>2. inflight' = [inflight EXCEPT ![server[r]] = count(server[r])]
  BY DEF Release
<1>3. \A s \in Servers : count(s) \in Nat
  BY <1>1
<1> HIDE DEF count
<1>4. /\ inflight' \in [Servers -> Nat]
      /\ \A s \in Servers : inflight'[s] = IF s = server[r] THEN count(s) ELSE inflight[s]
  BY <1>1, <1>2, <1>3
<1> QED
  BY <1>4 DEF count

LEMMA BalancerStep ==
    ASSUME BalancerTypes, Rolling, [Next]_vars
    PROVE  BalancerTypes'
<1>1. ASSUME NEW r \in Requests, Acquire(r) PROVE BalancerTypes'
  <2>1. PICK s \in pool : /\ server' = [server EXCEPT ![r] = s]
                          /\ sticky' = [sticky EXCEPT ![r] = {s}]
                          /\ inflight' = [inflight EXCEPT ![s] = @ + 1]
    BY <1>1, Acquired
  <2>2. UNCHANGED <<pool, releasing>> /\ s \in Servers
    BY <1>1 DEF Acquire, BalancerTypes
  <2> QED
    BY <2>1, <2>2 DEF BalancerTypes
<1>2. ASSUME NEW r \in Requests, Arrive(r) \/ Complete(r) PROVE BalancerTypes'
  BY <1>2 DEF Arrive, Complete, balancerVars, BalancerTypes
<1>3. ASSUME NEW r \in Requests, Merge(r) PROVE BalancerTypes'
  BY <1>3 DEF Merge, BalancerTypes
<1>4. ASSUME NEW r \in Requests, Release(r) PROVE BalancerTypes'
  <2>1. inflight' \in [Servers -> Nat]
    BY <1>4, Released
  <2> QED
    BY <1>4, <2>1 DEF Release, BalancerTypes
<1>5. CASE AddServers
  BY <1>5, LeftServers DEF AddServers, BalancerTypes
<1>6. CASE RemoveServers
  <2>1. Doing("remove")
    BY <1>6 DEF RemoveServers
  <2>2. step \in DOMAIN Script /\ Script[step].on = Hybrid
    BY <2>1, Places
  <2>3. left \subseteq Hybrid
    BY <2>2 DEF Rolling
  <2> QED
    BY <1>6, <2>3 DEF RemoveServers, BalancerTypes
<1>7. CASE BeginUpdate \/ \E s \in Servers : Abort(s) \/ Drain(s) \/ Load(s) \/ Wake(s) \/ Resume(s) \/ Sleep(s)
  <2>1. UNCHANGED balancerVars
    BY <1>7 DEF BeginUpdate, Abort, Drain, Load, Wake, Resume, Sleep
  <2> QED
    BY <2>1 DEF balancerVars, BalancerTypes
<1>8. CASE UNCHANGED vars
  BY <1>8 DEF vars, balancerVars, BalancerTypes
<1> QED
  BY <1>1, <1>2, <1>3, <1>4, <1>5, <1>6, <1>7, <1>8 DEF Next, Client, Trainer

\* Only the beginning of an update changes the version.
LEMMA VersionKept ==
    /\ \A r \in Requests : Client(r) => UNCHANGED version
    /\ AddServers \/ RemoveServers => UNCHANGED version
    /\ \A s \in Servers : Abort(s) \/ Drain(s) \/ Load(s) \/ Wake(s) \/ Resume(s) \/ Sleep(s) => UNCHANGED version
<1>1. ASSUME NEW S, Finished(S) PROVE UNCHANGED version
  BY <1>1 DEF Finished
<1>2. ASSUME NEW r \in Requests, Client(r) PROVE UNCHANGED version
  BY <1>2 DEF Client, Acquire, Arrive, Complete, Merge, Release, trainerVars
<1>3. ASSUME AddServers \/ RemoveServers PROVE UNCHANGED version
  BY <1>1, <1>3 DEF AddServers, RemoveServers
<1>4. ASSUME NEW s \in Servers, Abort(s) \/ Drain(s) \/ Load(s) \/ Wake(s) \/ Resume(s) \/ Sleep(s)
      PROVE  UNCHANGED version
  BY <1>1, <1>4 DEF Abort, Drain, Load, Wake, Resume, Sleep
<1> QED
  BY <1>2, <1>3, <1>4

LEMMA ClientStep ==
    ASSUME BalancerTypes, ClientTypes, ServerTypes, Rolling, [Next]_vars
    PROVE  ClientTypes'
<1> DEFINE Result == [reason : {"none", "completed", "aborted"}, version : 0 .. version]
<1>0. /\ version \in Nat /\ version > 0
      /\ \A s \in Servers : weights[s] \in 1 .. version /\ steps[s] \in 1 .. version
      /\ \A r \in Requests : server[r] \in Servers /\ minSteps[r] \in 0 .. version /\ result[r] \in Result
      /\ NoResult \in Result
  BY DEF Rolling, ClientTypes, ServerTypes, NoResult
<1>1. ASSUME NEW r \in Requests, Acquire(r) PROVE ClientTypes'
  <2>1. PICK s \in pool : server' = [server EXCEPT ![r] = s]
    BY <1>1, Acquired
  <2>2. s \in Servers /\ UNCHANGED <<result, used, using, minSteps, version>>
    BY <1>1 DEF Acquire, BalancerTypes, serverVars, trainerVars
  <2>3. phase' = [phase EXCEPT ![r] = "sent"]
    BY <1>1 DEF Acquire
  <2> QED
    BY <2>1, <2>2, <2>3 DEF ClientTypes
<1>2. ASSUME NEW r \in Requests, Arrive(r) PROVE ClientTypes'
  <2>1. /\ phase' = [phase EXCEPT ![r] = "serving"] \/ phase' = [phase EXCEPT ![r] = "stranded"]
        /\ using' = using \/ using' = [using EXCEPT ![r] = {weights[server[r]]}]
        /\ UNCHANGED <<server, result, used, minSteps, version>>
    BY <1>2 DEF Arrive, clientVars, trainerVars
  <2>2. {weights[server[r]]} \in SUBSET (1 .. version)
    BY <1>0
  <2> QED
    BY <2>1, <2>2 DEF ClientTypes
<1>3. ASSUME NEW r \in Requests, Complete(r) PROVE ClientTypes'
  <2>1. /\ result' = [result EXCEPT ![r] = [reason |-> "completed", version |-> steps[server[r]]]]
        /\ used' = [used EXCEPT ![r] = @ \union using[r]] /\ using' = [using EXCEPT ![r] = {}]
        /\ phase' = [phase EXCEPT ![r] = "answered"]
        /\ UNCHANGED <<server, minSteps, version>>
    BY <1>3 DEF Complete, trainerVars
  <2>2. [reason |-> "completed", version |-> steps[server[r]]] \in Result
    BY <1>0
  <2> HIDE DEF Result
  <2>3. result' \in [Requests -> Result]
    BY <2>1, <2>2 DEF ClientTypes, Result
  <2> QED
    BY <2>1, <2>3 DEF ClientTypes, Result
<1>4. ASSUME NEW r \in Requests, Merge(r) PROVE ClientTypes'
  <2>1. /\ result' = [result EXCEPT ![r] = NoResult]
        /\ phase' = [phase EXCEPT ![r] = "ready"] \/ phase' = [phase EXCEPT ![r] = "done"]
        /\ minSteps' = [minSteps EXCEPT ![r] = FinalOutput(r).minSteps] \/ minSteps' = [minSteps EXCEPT ![r] = 0]
        /\ used' = used \/ used' = [used EXCEPT ![r] = {}]
        /\ UNCHANGED <<server, using, version>>
    BY <1>4 DEF Merge, serverVars, trainerVars
  <2>2. FinalOutput(r).minSteps \in 0 .. version /\ 0 \in 0 .. version
    BY <1>0 DEF FinalOutput
  <2>3. result' \in [Requests -> Result]
    BY <1>0, <2>1 DEF ClientTypes
  <2>4. minSteps' \in [Requests -> 0 .. version]
    BY <2>1, <2>2 DEF ClientTypes
  <2> QED
    BY <2>1, <2>3, <2>4 DEF ClientTypes
<1>5. ASSUME NEW r \in Requests, Release(r) PROVE ClientTypes'
  BY <1>5 DEF Release, clientVars, serverVars, trainerVars, ClientTypes
<1>6. CASE BeginUpdate
  <2>1. version' = version + 1 /\ UNCHANGED <<phase, server, result, used, using, minSteps>>
    BY <1>6 DEF BeginUpdate, clientVars, serverVars
  <2>2. 0 .. version \subseteq 0 .. (version + 1) /\ 1 .. version \subseteq 1 .. (version + 1)
    BY <1>0
  <2> QED
    BY <2>1, <2>2 DEF ClientTypes
<1>7. CASE AddServers \/ RemoveServers \/ \E s \in Servers : Drain(s) \/ Wake(s) \/ Sleep(s)
  <2>1. UNCHANGED <<phase, server, result, used, using, minSteps>>
    BY <1>7 DEF AddServers, RemoveServers, Drain, Wake, Sleep, clientVars, serverVars
  <2> QED
    BY <1>7, <2>1, VersionKept DEF ClientTypes
<1>8. ASSUME NEW s \in Servers, Abort(s) PROVE ClientTypes'
  <2>1. PICK empty \in SUBSET engine[s] :
          /\ result' = [r \in Requests |->
                IF r \in engine[s]
                THEN [reason |-> "aborted", version |-> IF r \in empty THEN 0 ELSE steps[s]]
                ELSE result[r]]
          /\ used' = [r \in Requests |-> IF r \in engine[s] \ empty THEN used[r] \union using[r] ELSE used[r]]
    BY <1>8 DEF Abort
  <2>2. /\ phase' = [r \in Requests |-> IF r \in engine[s] THEN "answered" ELSE phase[r]]
        /\ using' = [r \in Requests |-> IF r \in engine[s] THEN {} ELSE using[r]]
        /\ UNCHANGED <<server, minSteps>>
    BY <1>8 DEF Abort
  <2>3. version' = version
    BY <1>8, VersionKept
  <2>4. [reason |-> "aborted", version |-> 0] \in Result /\ [reason |-> "aborted", version |-> steps[s]] \in Result
    BY <1>0
  <2>5. result' \in [Requests -> Result]
    BY <1>0, <2>1, <2>4
  <2>6. used' \in [Requests -> SUBSET (1 .. version)]
    BY <2>1 DEF ClientTypes
  <2> QED
    BY <2>2, <2>3, <2>5, <2>6 DEF ClientTypes
<1>9. ASSUME NEW s \in Servers, Load(s) PROVE ClientTypes'
  <2>1. /\ using' = [r \in Requests |-> IF r \in engine[s] THEN using[r] \union {version} ELSE using[r]]
        /\ UNCHANGED <<phase, server, result, used, minSteps>>
    BY <1>9 DEF Load, clientVars
  <2>2. version' = version /\ version \in 1 .. version
    BY <1>0, <1>9, VersionKept
  <2> QED
    BY <2>1, <2>2 DEF ClientTypes
<1>10. ASSUME NEW s \in Servers, Resume(s) PROVE ClientTypes'
  <2>1. /\ \/ using' = using
           \/ using' = [r \in Requests |-> IF r \in waiting[s] THEN {weights[s]} ELSE using[r]]
        /\ \/ phase' = phase
           \/ phase' = [r \in Requests |-> IF r \in waiting[s] THEN "stranded" ELSE phase[r]]
        /\ UNCHANGED <<server, result, used, minSteps>>
    BY <1>10 DEF Resume, clientVars
  <2>2. version' = version /\ {weights[s]} \in SUBSET (1 .. version)
    BY <1>0, <1>10, VersionKept
  <2> QED
    BY <2>1, <2>2 DEF ClientTypes
<1>11. CASE UNCHANGED vars
  BY <1>11 DEF vars, clientVars, serverVars, trainerVars, ClientTypes
<1> QED
  BY <1>1, <1>2, <1>3, <1>4, <1>5, <1>6, <1>7, <1>8, <1>9, <1>10, <1>11 DEF Next, Client, Trainer

LEMMA ServerStep ==
    ASSUME ClientTypes, ServerTypes, Rolling, [Next]_vars
    PROVE  ServerTypes'
<1>0. version \in Nat /\ version > 0 /\ version \in 1 .. version
  BY DEF Rolling
<1>1. ASSUME NEW r \in Requests, Client(r) PROVE ServerTypes'
  <2>1. CASE Acquire(r) \/ Merge(r) \/ Release(r)
    BY <2>1 DEF Acquire, Merge, Release, weightVars, serverVars, trainerVars, ServerTypes
  <2>2. CASE Arrive(r)
    <3>1. /\ waiting' = waiting \/ waiting' = [waiting EXCEPT ![server[r]] = @ \union {r}]
          /\ engine' = engine \/ engine' = [engine EXCEPT ![server[r]] = @ \union {r}]
          /\ UNCHANGED <<paused, asleep, weights, steps, version>>
      BY <2>2 DEF Arrive, weightVars, trainerVars
    <3> QED
      BY <3>1 DEF ServerTypes
  <2>3. CASE Complete(r)
    <3>1. engine' = [engine EXCEPT ![server[r]] = @ \ {r}] /\ UNCHANGED <<paused, asleep, weights, steps, waiting, version>>
      BY <2>3 DEF Complete, weightVars, trainerVars
    <3> QED
      BY <3>1 DEF ServerTypes
  <2> QED
    BY <1>1, <2>1, <2>2, <2>3 DEF Client
<1>2. CASE BeginUpdate
  <2>1. version' = version + 1 /\ UNCHANGED <<paused, asleep, weights, steps, engine, waiting>>
    BY <1>2 DEF BeginUpdate, weightVars, serverVars
  <2>2. 1 .. version \subseteq 1 .. (version + 1)
    BY <1>0
  <2> QED
    BY <2>1, <2>2 DEF ServerTypes
<1>3. CASE AddServers \/ RemoveServers \/ \E s \in Servers : Drain(s)
  <2>1. UNCHANGED <<paused, asleep, weights, steps, engine, waiting>>
    BY <1>3 DEF AddServers, RemoveServers, Drain, weightVars, serverVars
  <2> QED
    BY <1>3, <2>1, VersionKept DEF ServerTypes
<1>4. ASSUME NEW s \in Servers, Abort(s) \/ Load(s) \/ Wake(s) \/ Sleep(s) PROVE ServerTypes'
  <2>1. /\ paused' = paused \/ paused' = [paused EXCEPT ![s] = TRUE]
        /\ asleep' = asleep \/ asleep' = [asleep EXCEPT ![s] = FALSE] \/ asleep' = [asleep EXCEPT ![s] = TRUE]
        /\ engine' = engine \/ engine' = [engine EXCEPT ![s] = {}]
        /\ weights' = weights \/ weights' = [weights EXCEPT ![s] = version]
        /\ steps' = steps \/ steps' = [steps EXCEPT ![s] = version]
        /\ waiting' = waiting
    BY <1>4 DEF Abort, Load, Wake, Sleep, weightVars
  <2>2. version' = version
    BY <1>4, VersionKept
  <2>3. weights' \in [Servers -> 1 .. version] /\ steps' \in [Servers -> 1 .. version]
    BY <1>0, <2>1 DEF ServerTypes
  <2>4. paused' \in [Servers -> BOOLEAN] /\ asleep' \in [Servers -> BOOLEAN]
    BY <2>1 DEF ServerTypes
  <2>5. engine' \in [Servers -> SUBSET Requests]
    BY <2>1 DEF ServerTypes
  <2> QED
    BY <2>1, <2>2, <2>3, <2>4, <2>5 DEF ServerTypes
<1>5. ASSUME NEW s \in Servers, Resume(s) PROVE ServerTypes'
  <2>1. /\ paused' = [paused EXCEPT ![s] = FALSE] /\ waiting' = [waiting EXCEPT ![s] = {}]
        /\ engine' = engine \/ engine' = [engine EXCEPT ![s] = @ \union waiting[s]]
        /\ UNCHANGED <<asleep, weights, steps>>
    BY <1>5 DEF Resume, weightVars
  <2>2. version' = version /\ waiting[s] \subseteq Requests
    BY <1>5, VersionKept DEF ServerTypes
  <2> QED
    BY <2>1, <2>2 DEF ServerTypes
<1>6. CASE UNCHANGED vars
  BY <1>6 DEF vars, weightVars, serverVars, trainerVars, ServerTypes
<1> QED
  BY <1>1, <1>2, <1>3, <1>4, <1>5, <1>6 DEF Next, Trainer

\* A server whose weights are replaced generates nothing.
LEMMA LoadedIdle ==
    ASSUME Rolling, Placed, NEW s \in Servers, Load(s) \/ Wake(s)
    PROVE  engine[s] = {}
<1>1. CASE Load(s)
  <2>1. Doing("load") /\ s \in left
    BY <1>1 DEF Load
  <2>2. step = 3 /\ step \in DOMAIN Script /\ Script[step].on = Standalone
    BY <2>1, Places
  <2>3. s \in Standalone
    BY <2>1, <2>2 DEF Rolling
  <2> QED
    BY <2>2, <2>3 DEF Rolling, Placed
<1>2. CASE Wake(s)
  <2>1. Doing("wake") /\ s \in left
    BY <1>2 DEF Wake
  <2>2. step = 5 /\ step \in DOMAIN Script /\ Script[step].on = Hybrid
    BY <2>1, Places
  <2>3. s \in Hybrid
    BY <2>1, <2>2 DEF Rolling
  <2> QED
    BY <2>1, <2>2, <2>3 DEF Rolling, Placed
<1> QED
  BY <1>1, <1>2

LEMMA PlacedStep ==
    ASSUME ClientTypes, ServerTypes, Located, Rolling, Placed, [Next]_vars
    PROVE  Placed' /\ Located'
<1>0. /\ paused \in [Servers -> BOOLEAN] /\ asleep \in [Servers -> BOOLEAN]
      /\ engine \in [Servers -> SUBSET Requests] /\ waiting \in [Servers -> SUBSET Requests]
      /\ DOMAIN phase = Requests /\ DOMAIN server = Requests /\ DOMAIN using = Requests /\ DOMAIN weights = Servers
      /\ \A r \in Requests : server[r] \in Servers
  BY DEF ClientTypes, ServerTypes
<1>1. ASSUME NEW r \in Requests, Acquire(r) PROVE Placed' /\ Located'
  <2>1. phase[r] = "ready" /\ phase' = [phase EXCEPT ![r] = "sent"] /\ UNCHANGED <<weights, serverVars>>
        /\ \E s : server' = [server EXCEPT ![r] = s]
    BY <1>1 DEF Acquire, weightVars
  <2>2. \A s \in Servers : r \notin engine[s] \union waiting[s]
    BY <2>1 DEF Placed
  <2>3. \A q \in Requests : q # r => phase'[q] = phase[q] /\ server'[q] = server[q]
    BY <1>0, <2>1
  <2> QED
    BY <1>0, <2>1, <2>2, <2>3 DEF Placed, Located, serverVars
<1>2. ASSUME NEW r \in Requests, Arrive(r) PROVE Placed' /\ Located'
  <2> DEFINE s == server[r]
  <2>1. phase[r] = "sent" /\ UNCHANGED <<server, weights, paused, asleep>> /\ s \in Servers
    BY <1>0, <1>2 DEF Arrive, clientVars, weightVars
  <2>2. \A q \in Servers : r \notin engine[q] \union waiting[q]
    BY <2>1 DEF Placed
  <2>3. CASE paused[s] /\ waiting' = [waiting EXCEPT ![s] = @ \union {r}] /\ phase' = [phase EXCEPT ![r] = "serving"]
             /\ UNCHANGED <<engine, using>>
    BY <1>0, <2>1, <2>2, <2>3 DEF Placed, Located
  <2>4. CASE /\ ~paused[s] /\ ~asleep[s] /\ engine' = [engine EXCEPT ![s] = @ \union {r}]
             /\ using' = [using EXCEPT ![r] = {weights[s]}] /\ phase' = [phase EXCEPT ![r] = "serving"]
             /\ UNCHANGED waiting
    BY <1>0, <2>1, <2>2, <2>4 DEF Placed, Located
  <2>5. CASE phase' = [phase EXCEPT ![r] = "stranded"] /\ UNCHANGED <<engine, using, waiting>>
    BY <1>0, <2>1, <2>2, <2>5 DEF Placed, Located
  <2> QED
    BY <1>2, <2>3, <2>4, <2>5 DEF Arrive
<1>3. ASSUME NEW r \in Requests, Complete(r) PROVE Placed' /\ Located'
  <2> DEFINE s == server[r]
  <2>1. /\ r \in engine[s] /\ engine' = [engine EXCEPT ![s] = @ \ {r}] /\ using' = [using EXCEPT ![r] = {}]
        /\ phase' = [phase EXCEPT ![r] = "answered"] /\ UNCHANGED <<server, weights, paused, asleep, waiting>>
        /\ s \in Servers
    BY <1>0, <1>3 DEF Complete, weightVars
  <2>2. waiting[s] = {}
    BY <1>0, <2>1 DEF Placed
  <2>3. \A q \in Servers : q # s => r \notin engine[q] \union waiting[q]
    BY <2>1 DEF Placed
  <2> QED
    BY <1>0, <2>1, <2>2, <2>3 DEF Placed, Located
<1>4. ASSUME NEW r \in Requests, Merge(r) PROVE Placed' /\ Located'
  <2>1. /\ phase[r] = "answered" /\ UNCHANGED <<server, weights, serverVars>>
        /\ phase' = [phase EXCEPT ![r] = "ready"] \/ phase' = [phase EXCEPT ![r] = "done"]
    BY <1>4 DEF Merge, weightVars
  <2>2. \A s \in Servers : r \notin engine[s] \union waiting[s]
    BY <2>1 DEF Placed
  <2> QED
    BY <1>0, <2>1, <2>2 DEF Placed, Located, serverVars
<1>5. CASE (\E r \in Requests : Release(r)) \/ BeginUpdate \/ AddServers \/ RemoveServers \/ (\E s \in Servers : Drain(s))
           \/ UNCHANGED vars
  <2>1. UNCHANGED <<phase, server, weights, serverVars>>
    BY <1>5 DEF Release, BeginUpdate, AddServers, RemoveServers, Drain, vars, clientVars, weightVars
  <2> QED
    BY <2>1 DEF Placed, Located, serverVars
<1>6. ASSUME NEW s \in Servers, Abort(s) PROVE Placed' /\ Located'
  <2>1. /\ paused' = [paused EXCEPT ![s] = TRUE] /\ engine' = [engine EXCEPT ![s] = {}]
        /\ phase' = [r \in Requests |-> IF r \in engine[s] THEN "answered" ELSE phase[r]]
        /\ using' = [r \in Requests |-> IF r \in engine[s] THEN {} ELSE using[r]]
        /\ UNCHANGED <<server, weights, asleep, waiting>>
    BY <1>6 DEF Abort, weightVars
  <2>2. \A q \in Servers : q # s => (engine[q] \union waiting[q]) \intersect engine[s] = {}
    BY <1>0 DEF Placed
  <2>3. engine[s] # {} => waiting[s] = {}
    BY <1>0 DEF Placed
  <2> QED
    BY <1>0, <2>1, <2>2, <2>3 DEF Placed, Located
<1>7. ASSUME NEW s \in Servers, Load(s) PROVE Placed' /\ Located'
  <2>1. /\ weights' = [weights EXCEPT ![s] = version]
        /\ using' = [r \in Requests |-> IF r \in engine[s] THEN using[r] \union {version} ELSE using[r]]
        /\ UNCHANGED <<phase, server, paused, asleep, engine, waiting>>
    BY <1>7 DEF Load, clientVars
  <2>2. engine[s] = {}
    BY <1>7, LoadedIdle
  <2> QED
    BY <1>0, <2>1, <2>2 DEF Placed, Located
<1>8. ASSUME NEW s \in Servers, Wake(s) PROVE Placed' /\ Located'
  <2>1. /\ weights' = [weights EXCEPT ![s] = version] /\ asleep' = [asleep EXCEPT ![s] = FALSE]
        /\ UNCHANGED <<phase, server, paused, engine, waiting, using>>
    BY <1>8 DEF Wake, clientVars
  <2>2. engine[s] = {}
    BY <1>8, LoadedIdle
  <2> QED
    BY <1>0, <2>1, <2>2 DEF Placed, Located
<1>9. ASSUME NEW s \in Servers, Resume(s) PROVE Placed' /\ Located'
  <2>1. /\ paused' = [paused EXCEPT ![s] = FALSE] /\ waiting' = [waiting EXCEPT ![s] = {}]
        /\ UNCHANGED <<server, weights, asleep>>
    BY <1>9 DEF Resume, clientVars, weightVars
  <2>2. \A q \in Servers : q # s => (engine[q] \union waiting[q]) \intersect waiting[s] = {}
    BY <1>0 DEF Placed
  <2>3. CASE asleep[s]
    <3>1. phase' = [r \in Requests |-> IF r \in waiting[s] THEN "stranded" ELSE phase[r]] /\ UNCHANGED <<engine, using>>
      BY <1>9, <2>3 DEF Resume
    <3>2. engine[s] = {}
      BY <2>3 DEF Placed
    <3> QED
      BY <1>0, <2>1, <2>2, <2>3, <3>1, <3>2 DEF Placed, Located
  <2>4. CASE ~asleep[s]
    <3>1. /\ engine' = [engine EXCEPT ![s] = @ \union waiting[s]]
          /\ using' = [r \in Requests |-> IF r \in waiting[s] THEN {weights[s]} ELSE using[r]]
          /\ phase' = phase
      BY <1>9, <2>4 DEF Resume
    <3>2. engine'[s] = engine[s] \union waiting[s] /\ \A q \in Servers : q # s => engine'[q] = engine[q]
      BY <1>0, <3>1
    <3>3. \A q \in Servers : \A r \in engine'[q] : using'[r] = {weights[q]}
      <4> TAKE q \in Servers
      <4> TAKE r \in engine'[q]
      <4>1. r \in Requests
        BY <1>0, <3>2
      <4>2. CASE r \in waiting[s]
        BY <2>2, <3>1, <3>2, <4>1, <4>2
      <4>3. CASE r \notin waiting[s]
        BY <3>1, <3>2, <4>1, <4>3 DEF Placed
      <4> QED
        BY <4>2, <4>3
    <3> QED
      BY <1>0, <2>1, <2>4, <3>1, <3>2, <3>3 DEF Placed, Located
  <2> QED
    BY <2>3, <2>4
<1>10. ASSUME NEW s \in Servers, Sleep(s) PROVE Placed' /\ Located'
  <2>1. /\ engine[s] = {} /\ asleep' = [asleep EXCEPT ![s] = TRUE]
        /\ UNCHANGED <<phase, server, weights, paused, engine, waiting, using>>
    BY <1>10 DEF Sleep, clientVars, weightVars
  <2> QED
    BY <1>0, <2>1 DEF Placed, Located
<1> QED
  BY <1>1, <1>2, <1>3, <1>4, <1>5, <1>6, <1>7, <1>8, <1>9, <1>10 DEF Next, Client, Trainer

-----------------------------------------------------------------------------
(* The balancer's counts                                                   *)

LEMMA HeldFinite == ASSUME NEW s PROVE IsFiniteSet(Held(s)) /\ Cardinality(Held(s)) \in Nat
<1>1. Held(s) \subseteq Requests
  BY DEF Held
<1> QED
  BY <1>1, FS_Subset, FS_CardinalityType

\* The requests of a server are those whose client is under way or whose
\* release is.
HeldBy(r) == phase[r] \in {"sent", "serving", "answered", "stranded"} \/ r \in releasing

LEMMA HeldKept ==
    ASSUME UNCHANGED server, \A r \in Requests : HeldBy(r)' <=> HeldBy(r)
    PROVE  \A s : Held(s)' = Held(s)
<1> TAKE s
<1>1. Held(s) = {r \in Requests : server[r] = s /\ HeldBy(r)}
  BY DEF Held, HeldBy
<1>2. Held(s)' = {r \in Requests : server'[r] = s /\ HeldBy(r)'}
  BY DEF Held, HeldBy
<1> QED
  BY <1>1, <1>2

\* The calls of a request come and go with the client's phases.
LEMMA HeldStep ==
    ASSUME BalancerTypes, ClientTypes, ServerTypes, Placed, Counted, [Next]_vars,
           ~ \E r \in Requests : Acquire(r) \/ Release(r)
    PROVE  /\ \A s : Held(s)' = Held(s)
           /\ \A r \in releasing' : phase'[r] \in {"ready", "done"}
<1>0. DOMAIN phase = Requests /\ \A r \in releasing : phase[r] \in {"ready", "done"}
  BY DEF ClientTypes, Counted
<1>b. releasing \subseteq Requests
  BY DEF BalancerTypes
<1> DEFINE Held4 == {"sent", "serving", "answered", "stranded"}
\* It is enough that the requests that move keep being held.
<1> SUFFICES \E R \in SUBSET Requests :
                /\ UNCHANGED server
                /\ \A r \in Requests \ R : phase'[r] = phase[r] /\ (r \in releasing' <=> r \in releasing)
                /\ \A r \in R : /\ phase[r] \in Held4 /\ (phase'[r] \in Held4 \/ r \in releasing')
                                /\ r \in releasing' => phase'[r] \in {"ready", "done"}
                /\ releasing' \subseteq Requests
  <2>1. PICK R \in SUBSET Requests :
                /\ UNCHANGED server
                /\ \A r \in Requests \ R : phase'[r] = phase[r] /\ (r \in releasing' <=> r \in releasing)
                /\ \A r \in R : /\ phase[r] \in Held4 /\ (phase'[r] \in Held4 \/ r \in releasing')
                                /\ r \in releasing' => phase'[r] \in {"ready", "done"}
                /\ releasing' \subseteq Requests
    OBVIOUS
  <2>2. \A r \in Requests : HeldBy(r)' <=> HeldBy(r)
    BY <2>1 DEF HeldBy
  <2>3. \A r \in releasing' : phase'[r] \in {"ready", "done"}
    BY <1>0, <2>1
  <2> QED
    BY <2>1, <2>2, <2>3, HeldKept
<1>1. ASSUME NEW r \in Requests, Arrive(r) \/ Complete(r)
      PROVE  /\ UNCHANGED <<server, releasing>> /\ phase[r] \in {"sent", "serving"}
             /\ \/ phase' = [phase EXCEPT ![r] = "serving"]
                \/ phase' = [phase EXCEPT ![r] = "stranded"]
                \/ phase' = [phase EXCEPT ![r] = "answered"]
  BY <1>1 DEF Arrive, Complete, clientVars, balancerVars
<1>2. CASE \E r \in Requests : Arrive(r) \/ Complete(r)
  <2>1. PICK r \in Requests : Arrive(r) \/ Complete(r)
    BY <1>2
  <2>2. UNCHANGED <<server, releasing>> /\ phase[r] \in Held4 /\ r \notin releasing
    BY <1>0, <1>1, <2>1
  <2>3. phase'[r] \in Held4 /\ \A q \in Requests \ {r} : phase'[q] = phase[q]
    BY <1>0, <1>1, <2>1
  <2> WITNESS {r} \in SUBSET Requests
  <2> QED
    BY <1>b, <2>2, <2>3
<1>3. CASE \E r \in Requests : Merge(r)
  <2>1. PICK r \in Requests : Merge(r)
    BY <1>3
  <2>2. /\ phase[r] = "answered" /\ releasing' = releasing \union {r} /\ UNCHANGED server
        /\ phase' = [phase EXCEPT ![r] = "ready"] \/ phase' = [phase EXCEPT ![r] = "done"]
    BY <2>1 DEF Merge
  <2>3. phase'[r] \in {"ready", "done"} /\ \A q \in Requests \ {r} : phase'[q] = phase[q]
    BY <1>0, <2>2
  <2> WITNESS {r} \in SUBSET Requests
  <2> QED
    BY <1>b, <2>2, <2>3
<1>4. CASE \E s \in Servers : Abort(s)
  <2>1. PICK s \in Servers : Abort(s)
    BY <1>4
  <2>2. /\ \A r \in engine[s] : phase[r] = "serving" /\ r \notin releasing
        /\ phase' = [r \in Requests |-> IF r \in engine[s] THEN "answered" ELSE phase[r]]
        /\ UNCHANGED <<server, releasing>> /\ engine[s] \in SUBSET Requests
    BY <1>0, <2>1 DEF Abort, balancerVars, Placed, ServerTypes
  <2> USE <2>2
  <2> WITNESS engine[s] \in SUBSET Requests
  <2> QED
    BY <1>b, <2>2
<1>5. CASE \E s \in Servers : Resume(s)
  <2>1. PICK s \in Servers : Resume(s)
    BY <1>5
  <2>2. /\ \A r \in waiting[s] : phase[r] = "serving" /\ r \notin releasing
        /\ \/ phase' = phase
           \/ phase' = [r \in Requests |-> IF r \in waiting[s] THEN "stranded" ELSE phase[r]]
        /\ UNCHANGED <<server, releasing>> /\ waiting[s] \in SUBSET Requests
    BY <1>0, <2>1 DEF Resume, balancerVars, clientVars, Placed, ServerTypes
  <2>3. \A r \in waiting[s] : phase'[r] \in Held4
    BY <2>2
  <2>4. \A r \in Requests \ waiting[s] : phase'[r] = phase[r]
    BY <2>2
  <2> USE <2>2
  <2> WITNESS waiting[s] \in SUBSET Requests
  <2> QED
    BY <1>b, <2>2, <2>3, <2>4
<1>6. CASE BeginUpdate \/ AddServers \/ RemoveServers \/ (\E s \in Servers : Drain(s) \/ Load(s) \/ Wake(s) \/ Sleep(s))
           \/ UNCHANGED vars
  <2>1. UNCHANGED <<server, phase, releasing>>
    BY <1>6 DEF BeginUpdate, AddServers, RemoveServers, Drain, Load, Wake, Sleep, vars, clientVars, balancerVars
  <2> WITNESS {} \in SUBSET Requests
  <2> QED
    BY <1>b, <2>1
<1> QED
  BY <1>2, <1>3, <1>4, <1>5, <1>6 DEF Next, Client, Trainer

LEMMA CountedStep ==
    ASSUME BalancerTypes, ClientTypes, ServerTypes, Rolling, Placed, Counted, [Next]_vars
    PROVE  Counted'
<1>0. /\ inflight \in [Servers -> Nat] /\ pool \subseteq Servers /\ Standalone \subseteq pool
      /\ \A s : IsFiniteSet(Held(s)) /\ Cardinality(Held(s)) \in Nat
      /\ \A s \in pool : inflight[s] <= Cardinality(Held(s))
      /\ \A s \in Standalone : inflight[s] = Cardinality(Held(s))
      /\ DOMAIN phase = Requests /\ DOMAIN server = Requests
      /\ \A r \in releasing : phase[r] \in {"ready", "done"}
  BY HeldFinite DEF BalancerTypes, ClientTypes, Counted, LoadTracked
<1>1. ASSUME NEW r \in Requests, Acquire(r) PROVE Counted'
  <2>1. PICK s \in pool : server' = [server EXCEPT ![r] = s] /\ inflight' = [inflight EXCEPT ![s] = @ + 1]
    BY <1>1, Acquired
  <2>2. /\ phase[r] = "ready" /\ r \notin releasing /\ phase' = [phase EXCEPT ![r] = "sent"]
        /\ UNCHANGED <<pool, releasing>>
    BY <1>1 DEF Acquire
  <2>3. \A q : r \notin Held(q)
    BY <2>2 DEF Held
  <2>4. Held(s)' = Held(s) \union {r}
    BY <1>0, <2>1, <2>2 DEF Held
  <2>5. \A q : q # s => Held(q)' = Held(q)
    BY <1>0, <2>1, <2>2, <2>3 DEF Held
  <2>6. Cardinality(Held(s)') = Cardinality(Held(s)) + 1
    BY <1>0, <2>3, <2>4, FS_AddElement
  <2>7. inflight'[s] = inflight[s] + 1 /\ \A q \in pool : q # s => inflight'[q] = inflight[q]
    BY <1>0, <2>1
  <2>8. \A q \in pool : /\ inflight'[q] <= Cardinality(Held(q)')
                        /\ q \in Standalone => inflight'[q] = Cardinality(Held(q)')
    <3> TAKE q \in pool
    <3>1. CASE q = s
      <4>1. inflight[s] \in Nat /\ inflight[s] <= Cardinality(Held(s)) /\ Cardinality(Held(s)) \in Nat
        BY <1>0
      <4>2. inflight[s] + 1 <= Cardinality(Held(s)) + 1
            /\ (s \in Standalone => inflight[s] + 1 = Cardinality(Held(s)) + 1)
        BY <1>0, <4>1
      <4> QED
        BY <2>6, <2>7, <3>1, <4>2
    <3>2. CASE q # s
      BY <1>0, <2>5, <2>7, <3>2
    <3> QED
      BY <3>1, <3>2
  <2>9. \A q \in releasing' : phase'[q] \in {"ready", "done"}
    BY <1>0, <2>2
  <2> QED
    BY <2>2, <2>8, <2>9 DEF Counted, LoadTracked
<1>2. ASSUME NEW r \in Requests, Release(r) PROVE Counted'
  <2>0. PICK s : s = server[r]
    OBVIOUS
  <2>1. /\ r \in releasing /\ releasing' = releasing \ {r} /\ UNCHANGED <<pool, server, phase>>
    BY <1>2 DEF Release, clientVars
  <2>2. s \in Servers /\ \A q \in Servers : inflight'[q] = IF q = s /\ q \in pool /\ inflight[q] > 0
                                                        THEN inflight[q] - 1 ELSE inflight[q]
    BY <1>2, <2>0, Released DEF ClientTypes
  <2>3. r \in Held(s) /\ \A q : q # s => r \notin Held(q)
    BY <2>0, <2>1 DEF Held
  <2>4. Held(s)' = Held(s) \ {r}
    BY <2>0, <1>0, <2>1 DEF Held
  <2>5. \A q : q # s => Held(q)' = Held(q)
    BY <2>0, <1>0, <2>1 DEF Held
  <2>6. Cardinality(Held(s)') = Cardinality(Held(s)) - 1
    <3>1. Cardinality(Held(s) \ {r}) = Cardinality(Held(s)) - 1
      BY <1>0, <2>3, FS_RemoveElement
    <3> QED
      BY <2>4, <3>1
  <2>7. Cardinality(Held(s)) > 0
    BY <1>0, <2>3, FS_EmptySet
  <2>8. \A q \in pool : /\ inflight'[q] <= Cardinality(Held(q)')
                        /\ q \in Standalone => inflight'[q] = Cardinality(Held(q)')
    <3> TAKE q \in pool
    <3>1. CASE q = s
      <4>1. inflight[s] \in Nat /\ inflight[s] <= Cardinality(Held(s)) /\ Cardinality(Held(s)) \in Nat
        BY <1>0, <3>1
      <4>2. inflight'[s] = IF inflight[s] > 0 THEN inflight[s] - 1 ELSE inflight[s]
        BY <1>0, <2>2, <3>1
      <4>3. CASE inflight[s] > 0
        <5>1. /\ inflight[s] - 1 <= Cardinality(Held(s)) - 1
              /\ s \in Standalone => inflight[s] - 1 = Cardinality(Held(s)) - 1
          BY <1>0, <4>1
        <5>2. inflight'[s] = inflight[s] - 1
          BY <4>2, <4>3
        <5> QED
          BY <2>6, <3>1, <5>1, <5>2
      <4>4. CASE ~(inflight[s] > 0)
        <5>1. inflight[s] = 0 /\ s \notin Standalone /\ 0 <= Cardinality(Held(s)) - 1
          BY <1>0, <2>7, <4>1, <4>4
        <5>2. inflight'[s] = 0
          BY <4>2, <4>4, <5>1
        <5> QED
          BY <2>6, <3>1, <5>1, <5>2
      <4> QED
        BY <4>3, <4>4
    <3>2. CASE q # s
      BY <1>0, <2>2, <2>5, <3>2
    <3> QED
      BY <3>1, <3>2
  <2>9. \A q \in releasing' : phase'[q] \in {"ready", "done"}
    BY <1>0, <2>1
  <2> QED
    BY <2>1, <2>8, <2>9 DEF Counted, LoadTracked
<1>3. CASE ~ \E r \in Requests : Acquire(r) \/ Release(r)
  <2>1. (\A s : Held(s)' = Held(s)) /\ \A r \in releasing' : phase'[r] \in {"ready", "done"}
    BY <1>3, HeldStep
  <2>2. CASE AddServers \/ RemoveServers
    <3>1. Doing("add") \/ Doing("remove")
      BY <2>2 DEF AddServers, RemoveServers
    <3>2. step \in DOMAIN Script /\ Script[step].on = Hybrid
      BY <3>1, Places
    <3>3. left \subseteq Hybrid
      BY <3>2 DEF Rolling
    <3>4. /\ inflight' = [s \in Servers |-> IF s \in left THEN 0 ELSE inflight[s]]
          /\ pool' = pool \union left \/ pool' = pool \ left
      BY <2>2 DEF AddServers, RemoveServers
    <3>5. ASSUME NEW s \in pool'
          PROVE  inflight'[s] <= Cardinality(Held(s)) /\ (s \in Standalone => inflight'[s] = Cardinality(Held(s)))
      <4>1. s \in Servers
        BY <1>0, <3>3, <3>4, <3>5 DEF Servers
      <4>2. CASE s \in left
        <5>1. inflight'[s] = 0 /\ s \notin Standalone
          BY <3>3, <3>4, <4>1, <4>2
        <5> QED
          BY <1>0, <5>1
      <4>3. CASE s \notin left
        BY <1>0, <3>4, <3>5, <4>1, <4>3
      <4> QED
        BY <4>2, <4>3
    <3> QED
      BY <2>1, <3>5 DEF Counted, LoadTracked
  <2>3. CASE UNCHANGED <<pool, inflight>>
    BY <1>0, <2>1, <2>3 DEF Counted, LoadTracked
  <2>4. AddServers \/ RemoveServers \/ UNCHANGED <<pool, inflight>>
    BY <1>3 DEF Next, Client, Trainer, Arrive, Complete, Merge, BeginUpdate, Abort, Drain, Load, Wake, Resume, Sleep,
                vars, balancerVars
  <2> QED
    BY <2>2, <2>3, <2>4
<1> QED
  BY <1>1, <1>2, <1>3

-----------------------------------------------------------------------------
(* The versions an answer reports                                          *)

\* Every server that generates has the weights of one version.
LEMMA EngineNewest ==
    ASSUME ClientTypes, ServerTypes, Rolling, Placed
    PROVE  /\ Newest \in Nat
           /\ \A s \in Servers : \A r \in engine[s] :
                 using[r] = {Newest} /\ steps[s] = Newest /\ Newest > 0 /\ r \in Requests
                 /\ server[r] = s /\ phase[r] = "serving"
<1>1. Newest \in Nat
  BY DEF Newest, Rolling
<1>2. ASSUME NEW s \in Servers, NEW r \in engine[s]
      PROVE  using[r] = {Newest} /\ steps[s] = Newest /\ Newest > 0 /\ r \in Requests
             /\ server[r] = s /\ phase[r] = "serving"
  <2>1. ~paused[s] /\ ~asleep[s] /\ using[r] = {weights[s]} /\ steps[s] = weights[s] /\ weights[s] \in 1 .. version
        /\ r \in Requests /\ server[r] = s /\ phase[r] = "serving"
    BY <1>2 DEF Placed, Rolling, ServerTypes
  <2>2. CASE s \in Standalone
    <3>1. step \notin {2, 3}
      BY <2>1, <2>2 DEF Rolling
    <3>2. weights[s] = IF step = 1 THEN version - 1 ELSE version
      BY <2>2, <3>1 DEF Rolling
    <3> QED
      BY <2>1, <3>1, <3>2 DEF Newest
  <2>3. CASE s \in Hybrid
    <3>1. weights[s] = version /\ step >= 5
      BY <2>1, <2>3 DEF Rolling
    <3> QED
      BY <2>1, <3>1 DEF Newest
  <2> QED
    BY <2>2, <2>3 DEF Servers
<1> QED
  BY <1>1, <1>2

\* The versions only grow.
LEMMA NewestGrows ==
    ASSUME Rolling, [Next]_vars
    PROVE  \A v \in Nat : v <= Newest => v <= Newest'
<1>0. step \in 1 .. Len(Script) + 1 /\ version \in Nat \ {0} /\ DOMAIN Script = 1 .. Len(Script) /\ Len(Script) \in Nat
  BY ScriptFacts DEF Rolling
<1>1. CASE BeginUpdate
  <2>1. step \notin {1, 2, 3}
    BY <1>0, <1>1, ScriptFacts DEF BeginUpdate
  <2>2. Newest = version
    BY <2>1 DEF Newest
  <2>3. step' = 1 /\ version' = version + 1
    BY <1>1 DEF BeginUpdate
  <2>4. (version + 1) - 1 = version
    BY <1>0
  <2>5. Newest' = version
    BY <2>3, <2>4 DEF Newest
  <2> QED
    BY <2>2, <2>5
<1>2. CASE version' = version /\ (step' = step \/ (step \in DOMAIN Script /\ step' = step + 1))
  <2>1. Newest' = Newest \/ Newest' = version
    BY <1>0, <1>2 DEF Newest
  <2>2. \A v \in Nat : v <= Newest => v <= version
    BY <1>0 DEF Newest
  <2> QED
    BY <2>1, <2>2
<1>3. ASSUME NEW act, Doing(act), NEW S, Finished(S)
      PROVE  version' = version /\ (step' = step \/ (step \in DOMAIN Script /\ step' = step + 1))
  BY <1>3, GoesOnScript DEF Doing
<1>4. CASE \E r \in Requests : Client(r)
  <2>1. UNCHANGED <<version, step>>
    BY <1>4 DEF Client, Acquire, Arrive, Complete, Merge, Release, trainerVars
  <2> QED
    BY <1>2, <2>1
<1>5. CASE AddServers \/ RemoveServers \/ \E s \in Servers : Abort(s) \/ Drain(s) \/ Load(s) \/ Wake(s) \/ Resume(s) \/ Sleep(s)
  <2>1. \E act, S : Doing(act) /\ Finished(S)
    BY <1>5 DEF AddServers, RemoveServers, Abort, Drain, Load, Wake, Resume, Sleep
  <2> QED
    BY <1>2, <1>3, <2>1
<1>6. CASE UNCHANGED vars
  BY <1>2, <1>6 DEF vars, trainerVars
<1> QED
  BY <1>1, <1>4, <1>5, <1>6 DEF Next, Trainer

ReportedOf(r) ==
    /\ \A v \in used[r] : v <= Newest
    /\ phase[r] # "answered" => Oldest(r)
    /\ phase[r] = "answered" => Answered(r)
    /\ ~PartialRollout => minSteps[r] = 0

\* A request about whose answer nothing changes.
LEMMA Unmoved ==
    ASSUME ClientTypes, NEW r \in Requests, ReportedOf(r), \A v \in Nat : v <= Newest => v <= Newest',
           used'[r] = used[r], minSteps'[r] = minSteps[r],
           \/ phase[r] # "answered" /\ phase'[r] # "answered"
           \/ phase[r] = "answered" /\ phase'[r] = "answered" /\ result'[r] = result[r]
    PROVE  ReportedOf(r)'
<1>1. \A v \in used[r] : v \in Nat
  BY DEF ClientTypes
<1>2. \A v \in used'[r] : v <= Newest'
  BY <1>1 DEF ReportedOf
<1>3. Oldest(r)' <=> Oldest(r)
  BY DEF Oldest
<1>4. result'[r] = result[r] => (Answered(r)' <=> Answered(r))
  BY <1>3 DEF Answered
<1> QED
  BY <1>2, <1>3, <1>4 DEF ReportedOf

\* An answer with tokens made with the newest weights.
LEMMA AnsweredNewest ==
    ASSUME ClientTypes, NEW r \in Requests, ReportedOf(r), \A v \in Nat : v <= Newest => v <= Newest',
           Newest \in Nat, Newest > 0,
           phase[r] # "answered", phase'[r] = "answered",
           used'[r] = used[r] \union {Newest}, minSteps'[r] = minSteps[r],
           result'[r].reason \in {"completed", "aborted"}, result'[r].version = Newest
    PROVE  ReportedOf(r)'
<1> DEFINE n == Newest
<1>1. PICK m : m = n
  OBVIOUS
<1>2. /\ m \in Nat /\ m > 0 /\ used'[r] = used[r] \union {m} /\ result'[r].version = m
      /\ \A v \in used[r] : v \in Nat /\ v <= m
  BY <1>1 DEF ClientTypes, ReportedOf
<1>3. Oldest(r) /\ minSteps[r] \in Nat
  BY DEF ReportedOf, ClientTypes
<1>4. \A v \in used'[r] : v <= Newest'
  BY <1>1, <1>2
<1>5. \A v \in used'[r] : v <= m
  BY <1>2
<1>6. minSteps[r] = 0 => used'[r] = {m}
  BY <1>2, <1>3 DEF Oldest
<1>7. minSteps[r] # 0 => minSteps[r] \in used[r] /\ \A v \in used'[r] : minSteps[r] <= v
  BY <1>2, <1>3 DEF Oldest
<1>8. Answered(r)'
  BY <1>2, <1>5, <1>6, <1>7 DEF Answered
<1>9. ~PartialRollout => minSteps'[r] = 0
  BY DEF ReportedOf
<1> QED
  BY <1>4, <1>8, <1>9 DEF ReportedOf

\* An answer of an aborted generation that made no token.
LEMMA AnsweredEmpty ==
    ASSUME ClientTypes, NEW r \in Requests, ReportedOf(r), \A v \in Nat : v <= Newest => v <= Newest',
           phase[r] # "answered", phase'[r] = "answered",
           used'[r] = used[r], minSteps'[r] = minSteps[r],
           result'[r] = [reason |-> "aborted", version |-> 0]
    PROVE  ReportedOf(r)'
<1>1. \A v \in used'[r] : v <= Newest'
  BY DEF ReportedOf, ClientTypes
<1>2. Oldest(r)'
  BY DEF ReportedOf, Oldest
<1>3. Answered(r)'
  BY <1>2 DEF Answered
<1> QED
  BY <1>1, <1>3 DEF ReportedOf

\* The client merges the answer: it goes on from there, or has done.
LEMMA AnswerMerged ==
    ASSUME ClientTypes, NEW r \in Requests, ReportedOf(r), \A v \in Nat : v <= Newest => v <= Newest', Merge(r)
    PROVE  ReportedOf(r)'
<1>1. phase[r] = "answered" /\ Answered(r) /\ DOMAIN phase = Requests /\ DOMAIN minSteps = Requests
      /\ DOMAIN used = Requests /\ \A v \in used[r] : v \in Nat
  BY DEF Merge, ReportedOf, ClientTypes
<1>2. CASE GoesOn(r)
  <2>1. /\ phase'[r] = "ready" /\ used' = used
        /\ minSteps'[r] = IF minSteps[r] = 0 THEN result[r].version ELSE minSteps[r]
    BY <1>1, <1>2 DEF Merge, FinalOutput
  <2>2. Oldest(r)'
    <3>1. CASE result[r].version = 0
      BY <1>1, <2>1, <3>1 DEF Answered, Oldest
    <3>2. CASE result[r].version # 0
      BY <1>1, <2>1, <3>2 DEF Answered, Oldest
    <3> QED
      BY <3>1, <3>2
  <2>3. \A v \in used'[r] : v <= Newest'
    BY <1>1, <2>1 DEF ReportedOf
  <2> QED
    BY <1>2, <2>1, <2>2, <2>3 DEF ReportedOf, GoesOn
<1>3. CASE ~GoesOn(r)
  <2>1. phase'[r] = "done" /\ used'[r] = {} /\ minSteps'[r] = 0
    BY <1>1, <1>3 DEF Merge
  <2> QED
    BY <2>1 DEF ReportedOf, Oldest
<1> QED
  BY <1>2, <1>3

LEMMA ReportedStep ==
    ASSUME BalancerTypes, ClientTypes, ServerTypes, Rolling, Placed, Reported, [Next]_vars
    PROVE  Reported'
<1>0. /\ \A r \in Requests : ReportedOf(r)
      /\ DOMAIN phase = Requests /\ DOMAIN result = Requests /\ DOMAIN used = Requests /\ DOMAIN minSteps = Requests
      /\ \A v \in Nat : v <= Newest => v <= Newest'
  BY NewestGrows DEF Reported, ReportedOf, ClientTypes
<1>1. SUFFICES \A q \in Requests : ReportedOf(q)'
  BY DEF Reported, ReportedOf
<1>2. ASSUME NEW r \in Requests, Acquire(r) \/ Arrive(r) PROVE \A q \in Requests : ReportedOf(q)'
  <2>1. phase[r] # "answered" /\ UNCHANGED <<used, minSteps, result>>
        /\ \E p \in {"sent", "serving", "stranded"} : phase' = [phase EXCEPT ![r] = p]
    BY <1>2 DEF Acquire, Arrive, clientVars
  <2>2. phase'[r] # "answered" /\ \A q \in Requests : q # r => phase'[q] = phase[q]
    BY <1>0, <2>1
  <2> QED
    BY <1>0, <2>1, <2>2, Unmoved
<1>3. ASSUME NEW r \in Requests, Complete(r) PROVE \A q \in Requests : ReportedOf(q)'
  <2>1. /\ phase[r] = "serving" /\ r \in engine[server[r]] /\ server[r] \in Servers
        /\ result' = [result EXCEPT ![r] = [reason |-> "completed", version |-> steps[server[r]]]]
        /\ used' = [used EXCEPT ![r] = @ \union using[r]]
        /\ phase' = [phase EXCEPT ![r] = "answered"] /\ minSteps' = minSteps
    BY <1>3 DEF Complete, ClientTypes
  <2>2. using[r] = {Newest} /\ steps[server[r]] = Newest /\ Newest > 0 /\ Newest \in Nat
    BY <2>1, EngineNewest
  <2>3. /\ phase[r] # "answered" /\ phase'[r] = "answered" /\ used'[r] = used[r] \union {Newest}
        /\ result'[r] = [reason |-> "completed", version |-> Newest] /\ minSteps'[r] = minSteps[r]
    BY <1>0, <2>1, <2>2
  <2>4. ReportedOf(r)'
    BY <1>0, <2>2, <2>3, AnsweredNewest
  <2>5. \A q \in Requests : q # r => phase'[q] = phase[q] /\ result'[q] = result[q] /\ used'[q] = used[q]
    BY <1>0, <2>1
  <2>6. \A q \in Requests : q # r => ReportedOf(q)'
    BY <1>0, <2>1, <2>5, Unmoved
  <2> QED
    BY <2>4, <2>6
<1>4. ASSUME NEW r \in Requests, Merge(r) PROVE \A q \in Requests : ReportedOf(q)'
  <2>1. /\ result' = [result EXCEPT ![r] = NoResult]
        /\ phase' = [phase EXCEPT ![r] = "ready"] \/ phase' = [phase EXCEPT ![r] = "done"]
        /\ minSteps' = [minSteps EXCEPT ![r] = FinalOutput(r).minSteps] \/ minSteps' = [minSteps EXCEPT ![r] = 0]
        /\ used' = used \/ used' = [used EXCEPT ![r] = {}]
    BY <1>4 DEF Merge
  <2>2. \A q \in Requests : q # r => /\ phase'[q] = phase[q] /\ result'[q] = result[q]
                                     /\ used'[q] = used[q] /\ minSteps'[q] = minSteps[q]
    BY <1>0, <2>1
  <2>3. \A q \in Requests : q # r => ReportedOf(q)'
    BY <1>0, <2>2, Unmoved
  <2>4. ReportedOf(r)'
    BY <1>0, <1>4, AnswerMerged
  <2> QED
    BY <2>3, <2>4
<1>5. ASSUME NEW s \in Servers, Abort(s) PROVE \A q \in Requests : ReportedOf(q)'
  <2>1. PICK empty \in SUBSET engine[s] :
          /\ result' = [r \in Requests |->
                IF r \in engine[s]
                THEN [reason |-> "aborted", version |-> IF r \in empty THEN 0 ELSE steps[s]]
                ELSE result[r]]
          /\ used' = [r \in Requests |-> IF r \in engine[s] \ empty THEN used[r] \union using[r] ELSE used[r]]
    BY <1>5 DEF Abort
  <2>2. phase' = [r \in Requests |-> IF r \in engine[s] THEN "answered" ELSE phase[r]] /\ minSteps' = minSteps
    BY <1>5 DEF Abort
  <2> TAKE q \in Requests
  <2>3. CASE q \notin engine[s]
    <3>1. used'[q] = used[q] /\ minSteps'[q] = minSteps[q] /\ result'[q] = result[q] /\ phase'[q] = phase[q]
      BY <2>1, <2>2, <2>3
    <3> QED
      BY <1>0, <3>1, Unmoved
  <2>4. CASE q \in empty
    <3>1. /\ phase[q] # "answered" /\ phase'[q] = "answered" /\ used'[q] = used[q] /\ minSteps'[q] = minSteps[q]
          /\ result'[q] = [reason |-> "aborted", version |-> 0]
      BY <2>1, <2>2, <2>4, EngineNewest
    <3> QED
      BY <1>0, <3>1, AnsweredEmpty
  <2>5. CASE q \in engine[s] \ empty
    <3>1. using[q] = {Newest} /\ steps[s] = Newest /\ Newest > 0 /\ Newest \in Nat /\ phase[q] = "serving"
      BY <2>5, EngineNewest
    <3>2. /\ phase[q] # "answered" /\ phase'[q] = "answered" /\ used'[q] = used[q] \union {Newest}
          /\ minSteps'[q] = minSteps[q] /\ result'[q] = [reason |-> "aborted", version |-> Newest]
      BY <2>1, <2>2, <2>5, <3>1
    <3> QED
      BY <1>0, <3>1, <3>2, AnsweredNewest
  <2> QED
    BY <2>3, <2>4, <2>5
<1>6. ASSUME NEW s \in Servers, Resume(s) PROVE \A q \in Requests : ReportedOf(q)'
  <2>1. /\ UNCHANGED <<used, minSteps, result>>
        /\ phase' = phase \/ phase' = [r \in Requests |-> IF r \in waiting[s] THEN "stranded" ELSE phase[r]]
    BY <1>6 DEF Resume, clientVars
  <2>2. \A q \in Requests : q \in waiting[s] => phase[q] = "serving"
    BY DEF Placed
  <2>3. \A q \in Requests : \/ phase'[q] = phase[q]
                            \/ phase[q] # "answered" /\ phase'[q] # "answered"
    BY <2>1, <2>2
  <2> QED
    BY <1>0, <2>1, <2>3, Unmoved
<1>7. CASE \/ BeginUpdate \/ AddServers \/ RemoveServers \/ (\E r \in Requests : Release(r))
           \/ (\E s \in Servers : Drain(s) \/ Load(s) \/ Wake(s) \/ Sleep(s)) \/ UNCHANGED vars
  <2>1. UNCHANGED <<used, minSteps, result, phase>>
    BY <1>7 DEF BeginUpdate, AddServers, RemoveServers, Release, Drain, Load, Wake, Sleep, vars, clientVars
  <2> QED
    BY <1>0, <2>1, Unmoved
<1> QED
  BY <1>2, <1>3, <1>4, <1>5, <1>6, <1>7 DEF Next, Client, Trainer

-----------------------------------------------------------------------------
(* The invariant and what follows from it                                  *)

LEMMA InitInv == Init => Inv
<1> SUFFICES ASSUME Init PROVE Inv
  OBVIOUS
<1>1. DOMAIN Script = 1 .. Len(Script) /\ Len(Script) \in {4, 16} /\ (Hybrid # {} => Len(Script) = 16)
  BY ScriptFacts
<1>2. Rolling
  <2>1. /\ step \in 1 .. Len(Script) + 1 /\ step \notin DOMAIN Script
        /\ step > 4 /\ (Hybrid # {} => step > 14)
    <3>1. step = Len(Script) + 1
      BY DEF Init
    <3>2. CASE Len(Script) = 4
      BY <1>1, <3>1, <3>2
    <3>3. CASE Len(Script) = 16
      BY <1>1, <3>1, <3>3
    <3> QED
      BY <1>1, <3>2, <3>3
  <2>2. left = {} /\ version = 1 /\ steps = weights
    BY DEF Init
  <2>3. \A s \in Standalone : ~asleep[s] /\ weights[s] = 1
    BY ServersAssumption DEF Init, Servers
  <2>4. \A s \in Hybrid : asleep[s]
    BY DEF Init, Servers
  <2> QED
    BY <2>1, <2>2, <2>3, <2>4 DEF Rolling
<1>3. Placed
  BY DEF Init, Placed
<1>4. BalancerTypes /\ ServerTypes /\ Located /\ left \subseteq Servers
  <2>1. BalancerTypes
    <3>1. pool \subseteq Servers /\ Standalone \subseteq pool /\ releasing \subseteq Requests
      BY DEF Init, Servers
    <3>2. inflight \in [Servers -> Nat]
      BY DEF Init
    <3>3. sticky \in [Requests -> {{}} \union {{s} : s \in Servers}]
      BY Zenon DEF Init
    <3> QED
      BY <3>1, <3>2, <3>3 DEF BalancerTypes
  <2>2. ServerTypes
    <3>1. 1 \in 1 .. version
      BY DEF Init
    <3>2. weights \in [Servers -> 1 .. version] /\ steps \in [Servers -> 1 .. version]
      BY <3>1, Zenon DEF Init
    <3>3. paused \in [Servers -> BOOLEAN] /\ asleep \in [Servers -> BOOLEAN]
      BY DEF Init
    <3>4. engine \in [Servers -> SUBSET Requests] /\ waiting \in [Servers -> SUBSET Requests]
      BY DEF Init
    <3> QED
      BY <3>2, <3>3, <3>4 DEF ServerTypes
  <2>3. Located
    BY DEF Init, Located
  <2>4. left \subseteq Servers
    BY DEF Init
  <2> QED
    BY <2>1, <2>2, <2>3, <2>4
<1>5. ClientTypes
  BY DEF Init, ClientTypes, NoResult, Servers
<1>6. TypeOK
  BY <1>2, <1>3, <1>4, <1>5, TypeParts
<1>7. Counted
  <2>1. \A s \in Servers : Held(s) = {}
    BY DEF Init, Held
  <2>2. \A s \in Servers : inflight[s] = 0 /\ Cardinality(Held(s)) = 0
    BY <2>1, FS_EmptySet DEF Init
  <2>3. pool \subseteq Servers /\ releasing = {}
    BY DEF Init, Servers
  <2>4. LoadTracked
    <3> SUFFICES ASSUME NEW s \in pool
                 PROVE  inflight[s] <= Cardinality(Held(s)) /\ inflight[s] = Cardinality(Held(s))
      BY DEF LoadTracked
    <3>1. inflight[s] = 0 /\ Cardinality(Held(s)) = 0
      BY <2>2, <2>3
    <3> QED
      BY <3>1
  <2> QED
    BY <2>3, <2>4 DEF Counted
<1>8. Reported
  BY <1>1, <1>2 DEF Init, Reported, Oldest
<1> QED
  BY <1>2, <1>3, <1>6, <1>7, <1>8 DEF Inv

LEMMA NextInv == Inv /\ [Next]_vars => Inv'
<1> SUFFICES ASSUME TypeOK, Rolling, Placed, Counted, Reported, [Next]_vars PROVE Inv'
  BY DEF Inv
<1>1. BalancerTypes /\ ClientTypes /\ ServerTypes /\ Located
  BY TypeParts
<1>2. Rolling'
  BY RollingStep
<1>3. BalancerTypes' /\ ClientTypes' /\ ServerTypes' /\ Placed' /\ Located'
  BY <1>1, BalancerStep, ClientStep, ServerStep, PlacedStep
<1>4. (left \subseteq Servers)'
  BY <1>2, LeftServers, PTL
<1>5. TypeOK'
  BY <1>2, <1>3, <1>4, TypeWhole, PTL
<1>6. Counted' /\ Reported'
  BY <1>1, CountedStep, ReportedStep
<1> QED
  BY <1>2, <1>3, <1>5, <1>6 DEF Inv

LEMMA Invariance == Spec => []Inv
  BY InitInv, NextInv, PTL DEF Spec

\* The variables keep their types, no count of the balancer becomes negative, and a request is being served exactly
\* if it is at the server its client called.
THEOREM TypesKept == Spec => []TypeOK
<1>1. Inv => TypeOK
  BY DEF Inv
<1> QED
  BY Invariance, <1>1, PTL

\* The balancer's counts never exceed the requests under way, and are exact for servers that stay, however requests,
\* releases and servers come and go.  (acquire_server, release_server, add_servers, remove_servers.)
THEOREM LoadsTracked == Spec => []LoadTracked
<1>1. Inv => LoadTracked
  BY DEF Inv, Counted
<1> QED
  BY Invariance, <1>1, PTL

\* min_global_steps and max_global_steps of an answer are those of the oldest and the newest weights that made a token
\* of it, after any number of aborts, on any servers.  (generate of client and server, abort_all_requests.)
THEOREM VersionsAreReported == Spec => []VersionsReported
<1>1. Inv => VersionsReported
  <2> SUFFICES ASSUME Inv, NEW r \in Requests, phase[r] = "answered", ~GoesOn(r), used[r] # {}
               PROVE  LET answer == FinalOutput(r)
                      IN  /\ answer.minSteps \in used[r] /\ \A v \in used[r] : answer.minSteps <= v
                          /\ answer.maxSteps \in used[r] /\ \A v \in used[r] : v <= answer.maxSteps
    BY DEF VersionsReported
  <2>1. Answered(r) /\ (~PartialRollout => minSteps[r] = 0)
    BY DEF Inv, Reported
  <2>2. result[r].version # 0
    BY <2>1 DEF Answered, Oldest, GoesOn
  <2>3. /\ result[r].version \in used[r] /\ \A v \in used[r] : v <= result[r].version
        /\ minSteps[r] = 0 => used[r] = {result[r].version}
        /\ minSteps[r] # 0 => minSteps[r] \in used[r] /\ \A v \in used[r] : minSteps[r] <= v
    BY <2>1, <2>2 DEF Answered
  <2>4. \A v \in used[r] : v \in Nat
    BY DEF Inv, TypeOK
  <2> QED
    BY <2>3, <2>4 DEF FinalOutput
<1> QED
  BY Invariance, <1>1, PTL

=============================================================================
