-------------------------- MODULE FullyAsyncProofs --------------------------
(***************************************************************************)
(* Proofs about FullyAsync, for any sizes of steps, versions, staleness    *)
(* threshold and dataset, any number of tasks and of failures.             *)
(*                                                                         *)
(* Places says that a sample is in one place at a time, Bounded how many   *)
(* are on their way, counting those trained on since the staleness count   *)
(* was last set anew, and InOrder that the place of a sample in the stream *)
(* bounds how many versions it can wait for.  Control says where the three *)
(* parts are when, Complete that nothing is lost silently, and Recorded    *)
(* what has been trained and saved.                                        *)
(***************************************************************************)
EXTENDS FullyAsync, SequenceTheorems, FunctionTheorems, FiniteSetTheorems, TLAPS

USE SizesAssumption

InHand == {hand} \ {None}
Trained == UNION trained
Flight == Outstanding \union Gathered

\* Where processor, queue and trainer can be at the same time.
Control ==
    /\ tpc = "counting" => Held("reset")
    /\ pc \in {"full", "submit"} => hand # None
    /\ hand # None => pc \in {"full", "submit", "closing", "closed"}
    /\ pc = "ending" => taken = Total
    /\ pc # "closed" => \A i \in DOMAIN queue : queue[i].sample # None
    /\ stopped => pc = "closed" /\ tpc \in {"sync", "reset", "counting", "save", "done"}
    /\ tpc = "done" => stopped
    /\ tpc = "collect" => Len(collected) < Required
    /\ tpc = "train" => Len(collected) = Required
    /\ tpc \notin {"collect", "train"} => collected = <<>>
    /\ tpc \in {"sync", "reset", "counting"} => localStep = 1

\* The weights the servers have: one version behind while the new one is brought to them.
Served ==
    rolloutVersion = IF tpc = "sync" /\ ~stopped THEN version - 1 ELSE version

\* Every sample taken is in the processor's hand, generating, in the queue, with the trainer, trained on or lost,
\* and in one of these places only.
Places ==
    /\ \A i, j \in DOMAIN queue : queue[i].sample = queue[j].sample => i = j
    /\ \A i, j \in DOMAIN collected : collected[i].sample = collected[j].sample => i = j
    /\ InHand \union running \union finished \union Queued \union Gathered \union Trained \subseteq 1 .. taken
    /\ InHand \intersect (running \union finished \union Queued \union Gathered \union Trained) = {}
    /\ running \intersect (Queued \union Gathered \union Trained) = {}
    /\ Queued \intersect (Gathered \union Trained) = {}
    /\ Gathered \intersect Trained = {}

\* Samples trained on that staleness still counts.
Since ==
    (localStep - 1) * Required
        + IF ~stopped /\ tpc \in {"sync", "reset", "counting"} THEN PerVersion ELSE 0

Charged == Cardinality(Flight) + Since

\* The count may miss the one sample the processor held when it was set anew.
Bounded ==
    /\ Charged <= MaxRequired + 1
    /\ Charged <= staleness + 1
    /\ tpc = "counting" => Cardinality(running) <= counted

\* Samples trained on before the step under way.
Done == version * PerVersion + (localStep - 1) * Required

SignalAhead(q, i) == IF \E j \in 1 .. i - 1 : q[j].sample = None THEN 1 ELSE 0

\* A sample generated with version v of the weights is trained on as one of the first (v + 1) * PerVersion + Extra + 1.
OnTime(place, v, slack) == place <= v * PerVersion + MaxRequired + 1 + slack

InOrder ==
    /\ ~stopped => \A i \in DOMAIN queue : queue[i].sample # None =>
          OnTime(Done + Len(collected) + i, queue[i].version, SignalAhead(queue, i))
    /\ \A i \in DOMAIN collected : OnTime(Done + i, collected[i].version, 0)

\* Unless a generation has failed, the end signal comes last, after every sample, and what is given up at the end is
\* less than a step.
Complete ==
    /\ ~stopped => 1 .. taken \subseteq Flight \union failed \union dropped \union Trained
    /\ failed = {} =>
          /\ pc \in {"closing", "closed"} => taken = Total /\ hand = None /\ running = {}
          /\ \A i \in DOMAIN queue : queue[i].sample = None => i = Len(queue)
          /\ stopped => Cardinality(Samples \ (dropped \union Trained)) < Required

\* What has been trained, and what of it has been saved.
Recorded ==
    /\ Cardinality(trained) = version * Trigger + localStep - 1
    /\ savedSteps >= savedVersion * Trigger
    /\ tpc = "done" => savedVersion = version

Inv == TypeOK /\ Control /\ Served /\ Places /\ Bounded /\ InOrder /\ Complete /\ Recorded

-----------------------------------------------------------------------------
(* Lists of samples: what Put, Head and Tail do to the set of their members *)

Entry == [sample : Samples \union {None}, version : Nat]
Once(s) == \A i, j \in DOMAIN s : s[i].sample = s[j].sample => i = j
MembersOf(s) == {s[i].sample : i \in DOMAIN s}

LEMMA Sizes ==
    /\ PerVersion \in Nat \ {0} /\ MaxRequired \in Nat \ {0} /\ MaxQueue = MaxRequired
    /\ MaxRequired = PerVersion + Extra
    /\ Required <= PerVersion
    /\ None \notin Samples
<1>1. Required * Trigger \in Nat /\ Required * Trigger >= Required
  OBVIOUS
<1> QED
  BY <1>1 DEF PerVersion, MaxRequired, MaxQueue, None, Samples

\* A list without repetition has as many members as entries.
LEMMA OnceCardinality ==
    ASSUME NEW E, NEW s \in Seq(E), Once(s)
    PROVE  IsFiniteSet(MembersOf(s)) /\ Cardinality(MembersOf(s)) = Len(s)
<1> DEFINE n == Len(s)
           f == [i \in 1 .. n |-> s[i].sample]
<1>1. n \in Nat /\ DOMAIN s = 1 .. n
  BY LenProperties
<1>2. f \in [1 .. n -> MembersOf(s)]
  BY <1>1 DEF MembersOf
<1>3. \A i, j \in 1 .. n : f[i] = f[j] => i = j
  BY <1>1 DEF Once
<1>4. \A m \in MembersOf(s) : \E i \in 1 .. n : f[i] = m
  BY <1>1 DEF MembersOf
<1> HIDE DEF f
<1>5. f \in Bijection(1 .. n, MembersOf(s))
  BY <1>2, <1>3, <1>4, Fun_IsBij
<1>6. ExistsBijection(1 .. n, MembersOf(s))
  BY <1>5, Fun_ExistsBij
<1>7. IsFiniteSet(1 .. n) /\ Cardinality(1 .. n) = n
  BY <1>1, FS_Interval
<1> QED
  BY <1>6, <1>7, FS_Bijection

LEMMA AppendMembers ==
    ASSUME NEW E, NEW s \in Seq(E), NEW e \in E
    PROVE  /\ MembersOf(Append(s, e)) = MembersOf(s) \union {e.sample}
           /\ Once(s) /\ e.sample \notin MembersOf(s) => Once(Append(s, e))
<1> DEFINE n == Len(s)
           t == Append(s, e)
<1>1. n \in Nat /\ DOMAIN s = 1 .. n
  BY LenProperties
<1>2. /\ t \in Seq(E) /\ Len(t) = n + 1
      /\ \A i \in 1 .. n : t[i] = s[i]
      /\ t[n + 1] = e
  BY AppendProperties
<1>3. DOMAIN t = 1 .. n + 1
  BY <1>2, LenProperties
<1> HIDE DEF t, n
<1>4. MembersOf(t) = MembersOf(s) \union {e.sample}
  BY <1>1, <1>2, <1>3 DEF MembersOf
<1>5. Once(s) /\ e.sample \notin MembersOf(s) => Once(t)
  BY <1>1, <1>2, <1>3 DEF MembersOf, Once
<1> QED
  BY <1>4, <1>5 DEF t

LEMMA TailMembers ==
    ASSUME NEW E, NEW s \in Seq(E), s # <<>>, Once(s)
    PROVE  /\ Head(s).sample \in MembersOf(s)
           /\ MembersOf(Tail(s)) = MembersOf(s) \ {Head(s).sample}
           /\ Once(Tail(s))
<1> DEFINE n == Len(s)
           t == Tail(s)
<1>1. n \in Nat \ {0} /\ DOMAIN s = 1 .. n
  BY LenProperties, EmptySeq
<1>2. t \in Seq(E) /\ Len(t) = n - 1 /\ \A i \in 1 .. n - 1 : t[i] = s[i + 1]
  BY HeadTailProperties
<1>3. DOMAIN t = 1 .. n - 1
  BY <1>2, LenProperties
<1>4. Head(s) = s[1]
  BY <1>1 DEF Head
<1> HIDE DEF t, n
<1>5. Head(s).sample \in MembersOf(s)
  BY <1>1, <1>4 DEF MembersOf
<1>6. ASSUME NEW m \in MembersOf(t) PROVE m \in MembersOf(s) /\ m # s[1].sample
  <2>1. PICK i \in 1 .. n - 1 : m = t[i].sample
    BY <1>3 DEF MembersOf
  <2>2. m = s[i + 1].sample /\ i + 1 \in 1 .. n /\ i + 1 # 1 /\ 1 \in 1 .. n
    BY <1>1, <1>2, <2>1
  <2> QED
    BY <1>1, <2>2 DEF MembersOf, Once
<1>7. ASSUME NEW m \in MembersOf(s), m # s[1].sample PROVE m \in MembersOf(t)
  <2>1. PICK i \in 1 .. n : m = s[i].sample
    BY <1>1 DEF MembersOf
  <2>2. i - 1 \in 1 .. n - 1 /\ t[i - 1] = s[i]
    <3>1. i # 1
      BY <1>7, <2>1
    <3>2. i - 1 \in 1 .. n - 1 /\ (i - 1) + 1 = i
      BY <1>1, <3>1
    <3> QED
      BY <1>2, <3>2
  <2> QED
    BY <1>3, <2>1, <2>2 DEF MembersOf
<1>8. Once(t)
  <2> SUFFICES ASSUME NEW i \in 1 .. n - 1, NEW j \in 1 .. n - 1, t[i].sample = t[j].sample
               PROVE  i = j
    BY <1>3 DEF Once
  <2>1. s[i + 1].sample = s[j + 1].sample /\ i + 1 \in 1 .. n /\ j + 1 \in 1 .. n
    BY <1>1, <1>2
  <2>2. i + 1 = j + 1
    BY <1>1, <2>1 DEF Once
  <2> QED
    BY <2>2
<1> QED
  BY <1>4, <1>5, <1>6, <1>7, <1>8 DEF t

-----------------------------------------------------------------------------
(* Types *)

\* A call of put_sample: the new entry is last, the oldest goes when there is no room.
PutFacts(sample) ==
    /\ queue' \in Seq(Entry) /\ Len(queue') <= MaxQueue
    /\ dropped' \subseteq Samples \union {None}
    /\ \/ /\ Len(queue) < MaxQueue
          /\ dropped' = dropped
          /\ Len(queue') = Len(queue) + 1
          /\ \A i \in 1 .. Len(queue) : queue'[i] = queue[i]
          /\ Once(queue) => Queued' = Queued \union ({sample} \ {None})
       \/ /\ Len(queue) = MaxQueue /\ queue # <<>>
          /\ Head(queue) = queue[1] /\ Head(queue).sample \in Samples \union {None}
          /\ dropped' = dropped \union {Head(queue).sample}
          /\ Len(queue') = Len(queue)
          /\ \A i \in 1 .. Len(queue) - 1 : queue'[i] = queue[i + 1]
          /\ Once(queue) => /\ Queued' = (Queued \ {Head(queue).sample}) \union ({sample} \ {None})
                            /\ Head(queue).sample \in MembersOf(queue)
    /\ queue'[Len(queue')] = [sample |-> sample, version |-> rolloutVersion]
    /\ Once(queue) /\ sample \notin MembersOf(queue) => Once(queue')

LEMMA PutEffect ==
    ASSUME TypeOK, NEW sample \in Samples \union {None}, Put(sample)
    PROVE  PutFacts(sample)
<1> DEFINE e == [sample |-> sample, version |-> rolloutVersion]
<1>1. queue \in Seq(Entry) /\ Len(queue) \in Nat /\ Len(queue) <= MaxQueue
  BY DEF TypeOK, Entry
<1>2. e \in Entry /\ e.sample = sample
  BY DEF TypeOK, Entry
<1>3. Queued = MembersOf(queue) \ {None} /\ Queued' = MembersOf(queue)' \ {None}
  BY DEF Queued, MembersOf
<1> HIDE DEF e
<1>4. CASE Len(queue) < MaxQueue
  <2>1. queue' = Append(queue, e) /\ dropped' = dropped
    BY <1>1, <1>4, Sizes DEF Put, e
  <2>2. /\ queue' \in Seq(Entry) /\ Len(queue') = Len(queue) + 1
        /\ \A i \in 1 .. Len(queue) : queue'[i] = queue[i]
        /\ queue'[Len(queue) + 1] = e
    BY <1>1, <1>2, <2>1, AppendProperties
  <2>3. /\ MembersOf(queue)' = MembersOf(queue) \union {sample}
        /\ Once(queue) /\ sample \notin MembersOf(queue) => Once(queue')
    BY <1>1, <1>2, <2>1, AppendMembers DEF MembersOf
  <2>4. Len(queue') <= MaxQueue
    BY <1>1, <1>4, <2>2, Sizes
  <2>5. dropped' \subseteq Samples \union {None}
    BY <2>1 DEF TypeOK
  <2>6. Queued' = Queued \union ({sample} \ {None})
    BY <1>3, <2>3
  <2>7. queue'[Len(queue')] = [sample |-> sample, version |-> rolloutVersion]
    BY <2>2 DEF e
  <2>8. Once(queue) /\ sample \notin MembersOf(queue) => Once(queue')
    BY <2>3
  <2> QED
    BY <1>4, <2>1, <2>2, <2>4, <2>5, <2>6, <2>7, <2>8 DEF PutFacts
<1>5. CASE Len(queue) = MaxQueue
  <2>1. queue # <<>>
    BY <1>1, <1>5, Sizes
  <2>2. queue' = Append(Tail(queue), e) /\ dropped' = dropped \union {queue[1].sample}
    BY <1>1, <1>5, Sizes DEF Put, e
  <2>3. /\ Tail(queue) \in Seq(Entry) /\ Len(Tail(queue)) = Len(queue) - 1
        /\ \A i \in 1 .. Len(queue) - 1 : Tail(queue)[i] = queue[i + 1]
        /\ Head(queue) \in Entry
    BY <1>1, <2>1, HeadTailProperties
  <2>4. /\ queue' \in Seq(Entry) /\ Len(queue') = Len(queue)
        /\ \A i \in 1 .. Len(queue) - 1 : queue'[i] = queue[i + 1]
        /\ queue'[Len(queue)] = e
    <3>1. /\ queue' \in Seq(Entry) /\ Len(queue') = Len(queue) - 1 + 1
          /\ \A i \in 1 .. Len(queue) - 1 : queue'[i] = Tail(queue)[i]
          /\ queue'[Len(queue) - 1 + 1] = e
      BY <1>2, <2>2, <2>3, AppendProperties
    <3> QED
      BY <1>1, <2>3, <3>1
  <2>5. Head(queue) = queue[1] /\ Head(queue).sample \in Samples \union {None}
    BY <1>1, <2>1, <2>3 DEF Entry, Head
  <2>6. dropped' \subseteq Samples \union {None}
    BY <2>2, <2>5 DEF TypeOK
  <2>7. /\ MembersOf(queue)' = MembersOf(Tail(queue)) \union {sample}
        /\ Once(Tail(queue)) /\ sample \notin MembersOf(Tail(queue)) => Once(queue')
    <3> DEFINE t == Tail(queue)
    <3>1. t \in Seq(Entry) /\ queue' = Append(t, e)
      BY <2>2, <2>3
    <3> HIDE DEF t
    <3>2. /\ MembersOf(Append(t, e)) = MembersOf(t) \union {sample}
          /\ Once(t) /\ sample \notin MembersOf(t) => Once(Append(t, e))
      BY <1>2, <3>1, AppendMembers
    <3>3. MembersOf(queue)' = MembersOf(queue')
      BY DEF MembersOf
    <3> QED
      BY <3>1, <3>2, <3>3 DEF t
  <2>8. Once(queue) => /\ Head(queue).sample \in MembersOf(queue)
                       /\ MembersOf(Tail(queue)) = MembersOf(queue) \ {Head(queue).sample}
                       /\ Once(Tail(queue))
    BY <1>1, <2>1, TailMembers
  <2>9. Once(queue) => Queued' = (Queued \ {Head(queue).sample}) \union ({sample} \ {None})
    BY <1>3, <2>7, <2>8
  <2>10. Len(queue') <= MaxQueue
    BY <1>5, <2>4, Sizes
  <2>11. dropped' = dropped \union {Head(queue).sample}
    BY <2>2, <2>5
  <2>12. queue'[Len(queue')] = [sample |-> sample, version |-> rolloutVersion]
    BY <2>4 DEF e
  <2>13. Once(queue) /\ sample \notin MembersOf(queue) => Once(queue')
    BY <2>7, <2>8
  <2> QED
    BY <1>5, <2>1, <2>4, <2>5, <2>6, <2>8, <2>9, <2>10, <2>11, <2>12, <2>13 DEF PutFacts
<1> QED
  BY <1>1, <1>4, <1>5, Sizes

\* The trainer takes the head of the queue.
LEMMA TakeEffect ==
    ASSUME TypeOK, queue # <<>>, queue' = Tail(queue)
    PROVE  /\ Head(queue) = queue[1] /\ Head(queue) \in Entry
           /\ Len(queue) \in Nat \ {0} /\ 1 \in DOMAIN queue
           /\ queue' \in Seq(Entry) /\ Len(queue') = Len(queue) - 1
           /\ \A i \in 1 .. Len(queue) - 1 : queue'[i] = queue[i + 1]
           /\ Once(queue) => /\ Queued' = Queued \ {Head(queue).sample}
                             /\ Head(queue).sample \in MembersOf(queue)
                             /\ Once(queue')
<1>1. queue \in Seq(Entry) /\ Len(queue) \in Nat \ {0} /\ DOMAIN queue = 1 .. Len(queue)
  BY EmptySeq, LenProperties DEF TypeOK, Entry
<1>2. Queued = MembersOf(queue) \ {None} /\ Queued' = MembersOf(queue)' \ {None}
  BY DEF Queued, MembersOf
<1>3. /\ queue' \in Seq(Entry) /\ Len(queue') = Len(queue) - 1
      /\ \A i \in 1 .. Len(queue) - 1 : queue'[i] = queue[i + 1]
      /\ Head(queue) \in Entry
  BY <1>1, HeadTailProperties
<1>4. Head(queue) = queue[1]
  BY <1>1 DEF Head
<1>5. Once(queue) => /\ Head(queue).sample \in MembersOf(queue)
                     /\ MembersOf(queue)' = MembersOf(queue) \ {Head(queue).sample}
                     /\ Once(queue')
  BY <1>1, TailMembers DEF MembersOf
<1> QED
  BY <1>1, <1>2, <1>3, <1>4, <1>5

LockUsers == {"processor", "monitor", "reset"}

\* The lock: a new waiter goes last, a release passes it on.
LEMMA LockEffect ==
    ASSUME TypeOK
    PROVE  /\ \A who \in LockUsers : Request(who) =>
                  /\ lock' \in Seq(LockUsers)
                  /\ Held("reset") => Held("reset")'
           /\ \A who \in LockUsers : Held(who) /\ Release => lock' \in Seq(LockUsers)
           /\ \A who \in LockUsers : Held(who) /\ ReleaseAndRequest(who) => lock' \in Seq(LockUsers)
<1>1. lock \in Seq(LockUsers)
  BY DEF TypeOK, LockUsers
<1>2. ASSUME NEW who \in LockUsers, Request(who)
      PROVE  lock' \in Seq(LockUsers) /\ (Held("reset") => Held("reset")')
  <2>1. lock' = Append(lock, who)
    BY <1>2 DEF Request
  <2>2. lock' \in Seq(LockUsers) /\ lock' # <<>>
    BY <1>1, <2>1, AppendProperties
  <2>3. lock # <<>> => Head(lock') = Head(lock)
    BY <1>1, <2>1, HeadTailAppend
  <2> QED
    BY <2>2, <2>3 DEF Held
<1>3. ASSUME NEW who \in LockUsers, Held(who)
      PROVE  /\ Release => lock' \in Seq(LockUsers)
             /\ ReleaseAndRequest(who) => lock' \in Seq(LockUsers)
  <2>1. lock # <<>>
    BY <1>3 DEF Held
  <2>2. Tail(lock) \in Seq(LockUsers)
    BY <1>1, <2>1, HeadTailProperties
  <2> QED
    BY <2>2, AppendProperties DEF Release, ReleaseAndRequest
<1> QED
  BY <1>2, <1>3

USE DEF rollouterVars, monitorVars, queueVars, savedVars, trainerVars

LEMMA Finite ==
    ASSUME TypeOK
    PROVE  /\ \A S \in SUBSET Samples : IsFiniteSet(S) /\ Cardinality(S) \in Nat
           /\ IsFiniteSet(trained) /\ Cardinality(trained) \in Nat
<1>1. IsFiniteSet(Samples)
  BY FS_Interval DEF Samples
<1>2. IsFiniteSet(trained)
  BY <1>1, FS_SUBSET, FS_Subset DEF TypeOK
<1> QED
  BY <1>1, <1>2, FS_Subset, FS_CardinalityType

\* Every step keeps the types; the queue's actor and the trainer's list need the facts above.
LEMMA TypeStep ==
    ASSUME TypeOK, Control, Places, [Next]_vars
    PROVE  TypeOK'
<1>0. lock \in Seq(LockUsers)
  BY DEF TypeOK, LockUsers
<1>1. CASE AskStatistics
  <2> QED
    BY <1>1, Sizes DEF AskStatistics, TypeOK
<1>2. CASE DecideToPause
  <2>1. lock' \in Seq(LockUsers)
    BY <1>2, LockEffect DEF DecideToPause, LockUsers
  <2> QED
    BY <1>2, <2>1, Sizes DEF DecideToPause, TypeOK, LockUsers
<1>3. CASE Pause
  <2>1. lock' \in Seq(LockUsers)
    BY <1>3, LockEffect DEF Pause, LockUsers
  <2> QED
    BY <1>3, <2>1, Sizes DEF Pause, TypeOK, LockUsers
<1>4. CASE DrainReap
  <2> QED
    BY <1>4, Sizes DEF DrainReap, TypeOK, Reap
<1>5. CASE DrainResume
  <2> QED
    BY <1>5, Sizes DEF DrainResume, TypeOK
<1>6. CASE TakeSample
  <2>1. lock' \in Seq(LockUsers)
    BY <1>6, LockEffect DEF TakeSample, LockUsers
  <2> QED
    BY <1>6, <2>1, Sizes DEF TakeSample, TypeOK, LockUsers, None, Samples
<1>7. CASE TakeEnd
  <2>1. lock' \in Seq(LockUsers)
    BY <1>0, <1>7, LockEffect DEF TakeEnd, LockUsers
  <2> QED
    BY <1>7, <2>1, Sizes DEF TakeEnd, TypeOK, LockUsers
<1>8. CASE FullReap
  <2>1. lock' \in Seq(LockUsers)
    BY <1>8, LockEffect DEF FullReap, LockUsers, Reap
  <2> QED
    BY <1>8, <2>1, Sizes DEF FullReap, TypeOK, LockUsers, Reap
<1>9. CASE Submit
  <2>1. lock' \in Seq(LockUsers)
    BY <1>9, LockEffect DEF Submit, LockUsers
  <2>2. hand \in Samples
    BY <1>9 DEF Submit, Control, TypeOK
  <2>3. hand \notin finished
    BY <2>2, Sizes DEF Places, InHand
  <2> QED
    BY <1>9, <2>1, <2>2, <2>3 DEF Submit, TypeOK, LockUsers
<1>10. CASE EndReap
  <2>1. lock' \in Seq(LockUsers)
    BY <1>10, LockEffect DEF EndReap, LockUsers, Reap
  <2> QED
    BY <1>10, <2>1, Sizes DEF EndReap, TypeOK, LockUsers, Reap
<1>11. CASE MonitorAsk
  <2> QED
    BY <1>11, Sizes DEF MonitorAsk, TypeOK
<1>12. CASE MonitorDecide
  <2>1. lock' \in Seq(LockUsers)
    BY <1>0, <1>12, LockEffect DEF MonitorDecide, LockUsers
  <2> QED
    BY <1>12, <2>1, Sizes DEF MonitorDecide, TypeOK, LockUsers
<1>13. CASE MonitorResume
  <2>1. lock' \in Seq(LockUsers)
    BY <1>13, LockEffect DEF MonitorResume, LockUsers
  <2> QED
    BY <1>13, <2>1, Sizes DEF MonitorResume, TypeOK, LockUsers
<1>14. CASE UpdateWeights
  <2>1. lock' \in Seq(LockUsers)
    BY <1>14, LockEffect DEF UpdateWeights, LockUsers
  <2> QED
    BY <1>14, <2>1, Sizes DEF UpdateWeights, TypeOK, LockUsers
<1>15. CASE ResetBegin
  <2>1. Cardinality(active) \in Nat
    BY Finite DEF TypeOK, active
  <2> QED
    BY <1>15, <2>1, Sizes DEF ResetBegin, TypeOK
<1>16. CASE ResetEnd
  <2>1. lock' \in Seq(LockUsers)
    BY <1>16, LockEffect DEF ResetEnd, LockUsers, Control
  <2> QED
    BY <1>16, <2>1, Sizes DEF ResetEnd, TypeOK, LockUsers
<1>17. CASE Save
  <2>1. Cardinality(trained) \in Nat
    BY Finite
  <2>2. \/ savedVersion' = version /\ savedSteps' = Cardinality(trained)
        \/ savedVersion' = savedVersion /\ savedSteps' = savedSteps
    BY <1>17 DEF Save
  <2>3. savedVersion' \in 0 .. version /\ savedSteps' \in Nat
    BY <2>1, <2>2 DEF TypeOK
  <2> QED
    BY <1>17, <2>3 DEF Save, TypeOK
<1>18. CASE CloseStream
  <2>1. PutFacts(None)
    BY <1>18, PutEffect DEF CloseStream
  <2> QED
    BY <1>18, <2>1, Sizes DEF CloseStream, PutFacts, Entry, TypeOK
<1>19. ASSUME NEW s \in Samples, Finish(s) PROVE TypeOK'
  <2>1. PutFacts(s)
    BY <1>19, PutEffect DEF Finish
  <2> QED
    BY <1>19, <2>1, Sizes DEF Finish, PutFacts, Entry, TypeOK
<1>20. ASSUME NEW s \in Samples, Fail(s) PROVE TypeOK'
  BY <1>20, Sizes DEF Fail, TypeOK
<1>21. CASE Collect
  <2>1. Head(queue) \in Entry /\ queue' \in Seq(Entry) /\ Len(queue') = Len(queue) - 1
    BY <1>21, TakeEffect DEF Collect
  <2>2. Head(queue) \in [sample : Samples, version : Nat]
    BY <1>21, <2>1 DEF Collect, Entry
  <2>3. collected' \in Seq([sample : Samples, version : Nat])
    BY <1>21, <2>2, AppendProperties DEF Collect, TypeOK
  <2>4. Len(queue') <= MaxQueue
    BY <2>1, Sizes DEF TypeOK
  <2> QED
    BY <1>21, <2>1, <2>3, <2>4, Sizes DEF Collect, Entry, TypeOK
<1>22. CASE CollectEnd
  <2>1. queue' \in Seq(Entry) /\ Len(queue') = Len(queue) - 1
    BY <1>22, TakeEffect DEF CollectEnd
  <2>2. Len(queue') <= MaxQueue
    BY <2>1, Sizes DEF TypeOK
  <2>3. collected' \in Seq([sample : Samples, version : Nat])
    BY <1>22 DEF CollectEnd
  <2> QED
    BY <1>22, <2>1, <2>2, <2>3 DEF CollectEnd, Entry, TypeOK
<1>23. CASE TrainStep
  <2>1. \A i \in 1 .. Required : collected[i].sample \in Samples
    <3>1. Len(collected) = Required /\ DOMAIN collected = 1 .. Required
      BY <1>23, LenProperties DEF TrainStep, TypeOK, Control
    <3>2. \A i \in 1 .. Required : collected[i] \in [sample : Samples, version : Nat]
      <4>1. collected \in Seq([sample : Samples, version : Nat])
        BY DEF TypeOK
      <4> QED
        BY <3>1, <4>1, ElementOfSeq
    <3> QED
      BY <3>2
  <2>2. trained' \subseteq SUBSET Samples
    <3> DEFINE batch == {collected[i].sample : i \in 1 .. Required}
    <3>1. batch \subseteq Samples /\ trained' = trained \union {batch}
      BY <1>23, <2>1 DEF TrainStep
    <3> HIDE DEF batch
    <3> QED
      BY <3>1 DEF TypeOK
  <2>3. collected' \in Seq([sample : Samples, version : Nat])
    BY <1>23 DEF TrainStep
  <2>4. \/ localStep < Trigger /\ localStep' = localStep + 1 /\ version' = version
        \/ localStep' = 1 /\ version' = version + 1
    BY <1>23 DEF TrainStep
  <2>5. localStep \in 1 .. Trigger /\ version \in Nat /\ rolloutVersion \in 0 .. version /\ savedVersion \in 0 .. version
    BY DEF TypeOK
  <2>6. localStep' \in 1 .. Trigger
    BY <2>4, <2>5
  <2>7. version' \in Nat /\ rolloutVersion \in 0 .. version' /\ savedVersion \in 0 .. version'
    BY <2>4, <2>5
  <2>8. tpc' \in {"save", "sync"}
    BY <1>23 DEF TrainStep
  <2>9. UNCHANGED <<rollouterVars, lock, monitorVars, queueVars, counted, stopped, savedVars, rolloutVersion>>
    BY <1>23 DEF TrainStep
  <2> QED
    BY <2>2, <2>3, <2>6, <2>7, <2>8, <2>9 DEF TypeOK
<1>24. CASE Over \/ UNCHANGED vars
  <2>1. UNCHANGED vars
    BY <1>24 DEF Over
  <2> QED
    BY <2>1 DEF vars, TypeOK
<1> QED
  BY <1>1, <1>2, <1>3, <1>4, <1>5, <1>6, <1>7, <1>8, <1>9, <1>10, <1>11, <1>12, <1>13, <1>14, <1>15, <1>16, <1>17,
     <1>18, <1>19, <1>20, <1>21, <1>22, <1>23, <1>24
  DEF Next, Processor, Monitor, Trainer

-----------------------------------------------------------------------------
(* Control *)

\* Steps that move no sample: a waiting, pausing or resuming processor, the monitor, the trainer's bookkeeping.
Quiet ==
    /\ UNCHANGED <<taken, hand, running, failed, queue, dropped, collected, trained>>
    /\ finished' \subseteq finished

\* The steps that move samples are few.
LEMMA StepKinds ==
    ASSUME [Next]_vars
    PROVE  \/ Quiet
           \/ TakeSample \/ Submit \/ CloseStream \/ \E s \in Samples : Finish(s) \/ Fail(s)
           \/ Collect \/ CollectEnd \/ TrainStep
<1>1. CASE AskStatistics \/ DecideToPause \/ Pause \/ DrainResume \/ TakeEnd
  BY <1>1 DEF AskStatistics, DecideToPause, Pause, DrainResume, TakeEnd, Quiet
<1>2. CASE DrainReap \/ FullReap \/ EndReap
  BY <1>2 DEF DrainReap, FullReap, EndReap, Reap, Quiet
<1>3. CASE Monitor
  BY <1>3 DEF Monitor, MonitorAsk, MonitorDecide, MonitorResume, Quiet
<1>4. CASE UpdateWeights \/ ResetBegin \/ ResetEnd \/ Save
  BY <1>4 DEF UpdateWeights, ResetBegin, ResetEnd, Save, Quiet
<1>5. CASE Over \/ UNCHANGED vars
  BY <1>5 DEF Over, vars, Quiet
<1> QED
  BY <1>1, <1>2, <1>3, <1>4, <1>5 DEF Next, Processor, Trainer

\* Nobody else touches the lock while reset_staleness counts the active tasks.
LEMMA ResetHolds ==
    ASSUME TypeOK, Control, [Next]_vars
    PROVE  tpc' = "counting" => Held("reset")'
<1>1. /\ Request("processor") \/ Request("monitor") \/ Request("reset") => (Held("reset") => Held("reset")')
      /\ UNCHANGED lock => (Held("reset") => Held("reset")')
  BY LockEffect DEF LockUsers, Held
<1>2. Held("processor") \/ Held("monitor") => tpc # "counting"
  BY DEF Control, Held
<1>3. tpc = "counting" => Held("reset")
  BY DEF Control
<1>4. CASE AskStatistics \/ DecideToPause \/ DrainReap \/ DrainResume \/ TakeSample \/ TakeEnd \/ CloseStream
  BY <1>1, <1>3, <1>4 DEF AskStatistics, DecideToPause, DrainReap, DrainResume, TakeSample, TakeEnd, CloseStream
<1>5. CASE Pause \/ FullReap \/ Submit \/ EndReap \/ MonitorResume
  BY <1>2, <1>5 DEF Pause, FullReap, Submit, EndReap, MonitorResume
<1>6. CASE MonitorAsk \/ MonitorDecide \/ \E s \in Samples : Finish(s) \/ Fail(s)
  BY <1>1, <1>3, <1>6 DEF MonitorAsk, MonitorDecide, Finish, Fail
<1>7. CASE Collect \/ CollectEnd \/ TrainStep \/ UpdateWeights \/ ResetEnd \/ Save
  BY <1>7 DEF Collect, CollectEnd, TrainStep, UpdateWeights, ResetEnd, Save
<1>8. CASE ResetBegin
  BY <1>1, <1>8 DEF ResetBegin
<1>9. CASE Over \/ UNCHANGED vars
  BY <1>1, <1>3, <1>9 DEF Over, vars
<1> QED
  BY <1>4, <1>5, <1>6, <1>7, <1>8, <1>9 DEF Next, Processor, Monitor, Trainer

LEMMA ControlStep ==
    ASSUME TypeOK, Control, Places, [Next]_vars
    PROVE  Control'
<1>1. tpc' = "counting" => Held("reset")'
  BY ResetHolds
<1>2. CASE AskStatistics \/ DecideToPause \/ Pause \/ DrainResume \/ TakeEnd
  BY <1>1, <1>2 DEF AskStatistics, DecideToPause, Pause, DrainResume, TakeEnd, Control
<1>3. CASE DrainReap \/ FullReap \/ EndReap
  <2>1. CASE DrainReap
    <3>1. PICK done \in SUBSET finished \ {{}} : Reap(done, "drain")
      BY <2>1 DEF DrainReap
    <3>2. pc = "drain" /\ (pc' = "drain" \/ pc' = "closing") /\ UNCHANGED <<taken, hand, queueVars, trainerVars>>
      BY <2>1, <3>1 DEF DrainReap, Reap
    <3> QED
      BY <1>1, <3>2 DEF Control, queueVars, trainerVars
  <2>2. CASE FullReap \/ EndReap
    BY <1>1, <2>2 DEF FullReap, EndReap, Reap, Control
  <2> QED
    BY <1>3, <2>1, <2>2
<1>4. CASE Monitor
  BY <1>1, <1>4 DEF Monitor, MonitorAsk, MonitorDecide, MonitorResume, Control
<1>5. CASE TakeSample
  BY <1>1, <1>5 DEF TakeSample, Control, TypeOK, None
<1>6. CASE Submit
  BY <1>1, <1>6 DEF Submit, Control
<1>7. CASE CloseStream
  BY <1>1, <1>7 DEF CloseStream, Control
<1>8. ASSUME NEW s \in Samples, Finish(s) PROVE Control'
  <2>1. PutFacts(s)
    BY <1>8, PutEffect DEF Finish
  <2>2. pc # "closed" => \A i \in DOMAIN queue' : queue'[i].sample # None
    <3> SUFFICES ASSUME pc # "closed", NEW i \in DOMAIN queue'
                 PROVE  queue'[i].sample # None
      OBVIOUS
    <3>1. Len(queue) \in Nat /\ DOMAIN queue = 1 .. Len(queue)
      BY LenProperties DEF TypeOK
    <3>2. Len(queue') \in Nat /\ i \in 1 .. Len(queue')
      BY <2>1, LenProperties DEF PutFacts
    <3>3. \A j \in 1 .. Len(queue) : queue[j].sample # None
      BY <3>1 DEF Control
    <3>4. queue'[Len(queue')].sample # None
      BY <2>1, Sizes DEF PutFacts
    <3>5. CASE i # Len(queue')
      BY <2>1, <3>1, <3>2, <3>3, <3>5 DEF PutFacts
    <3> QED
      BY <3>4, <3>5
  <2> QED
    BY <1>1, <1>8, <2>2 DEF Finish, Control
<1>9. ASSUME NEW s \in Samples, Fail(s) PROVE Control'
  BY <1>1, <1>9 DEF Fail, Control
<1>10. CASE Collect
  <2>1. /\ Len(queue) \in Nat \ {0} /\ Len(queue') = Len(queue) - 1 /\ queue' \in Seq(Entry)
        /\ \A i \in 1 .. Len(queue) - 1 : queue'[i] = queue[i + 1]
    BY <1>10, TakeEffect DEF Collect
  <2>2. DOMAIN queue = 1 .. Len(queue) /\ DOMAIN queue' = 1 .. Len(queue) - 1
    BY <2>1, LenProperties DEF TypeOK
  <2>3. pc # "closed" => \A i \in DOMAIN queue' : queue'[i].sample # None
    BY <2>1, <2>2 DEF Control
  <2>4. Len(collected') = Len(collected) + 1 /\ Len(collected) \in Nat
    BY <1>10, TakeEffect, AppendProperties DEF Collect, TypeOK, Entry
  <2>5. Len(collected) < Required
    BY <1>10 DEF Collect, Control
  <2> QED
    BY <1>1, <1>10, <2>3, <2>4, <2>5 DEF Collect, Control
<1>11. CASE CollectEnd
  <2>1. pc = "closed"
    BY <1>11, TakeEffect DEF CollectEnd, Control
  <2> QED
    BY <1>1, <1>11, <2>1 DEF CollectEnd, Control
<1>12. CASE TrainStep
  BY <1>1, <1>12 DEF TrainStep, Control, TypeOK
<1>13. CASE UpdateWeights \/ ResetBegin \/ ResetEnd \/ Save
  BY <1>1, <1>13 DEF UpdateWeights, ResetBegin, ResetEnd, Save, Control
<1>14. CASE Over \/ UNCHANGED vars
  BY <1>1, <1>14 DEF Over, vars, Control
<1> QED
  BY <1>2, <1>3, <1>4, <1>5, <1>6, <1>7, <1>8, <1>9, <1>10, <1>11, <1>12, <1>13, <1>14
  DEF Next, Processor, Trainer

\* The servers lag one version behind, and only while the new one is brought to them.
LEMMA ServedStep ==
    ASSUME TypeOK, Control, Served, [Next]_vars
    PROVE  Served'
<1>1. CASE Processor
  BY <1>1 DEF Processor, AskStatistics, DecideToPause, Pause, DrainReap, DrainResume, TakeSample, TakeEnd, FullReap,
              Submit, EndReap, CloseStream, Served
<1>2. CASE Monitor \/ \E s \in Samples : Finish(s) \/ Fail(s)
  BY <1>2 DEF Monitor, MonitorAsk, MonitorDecide, MonitorResume, Finish, Fail, Served
<1>3. CASE Collect \/ CollectEnd \/ ResetBegin \/ ResetEnd \/ Save
  BY <1>3 DEF Collect, CollectEnd, ResetBegin, ResetEnd, Save, Served
<1>4. CASE TrainStep
  BY <1>4 DEF TrainStep, Served, Control, TypeOK
<1>5. CASE UpdateWeights
  BY <1>5 DEF UpdateWeights, Served
<1>6. CASE Over \/ UNCHANGED vars
  BY <1>6 DEF Over, vars, Served
<1> QED
  BY <1>1, <1>2, <1>3, <1>4, <1>5, <1>6 DEF Next, Trainer

-----------------------------------------------------------------------------
(* Places *)

\* The members of the two lists, and which sets they belong to.
LEMMA Lists ==
    ASSUME TypeOK
    PROVE  /\ queue \in Seq(Entry) /\ Len(queue) \in Nat /\ DOMAIN queue = 1 .. Len(queue)
           /\ collected \in Seq([sample : Samples, version : Nat])
           /\ Len(collected) \in Nat /\ DOMAIN collected = 1 .. Len(collected)
           /\ Queued = MembersOf(queue) \ {None} /\ Gathered = MembersOf(collected)
           /\ Queued \subseteq Samples /\ Gathered \subseteq Samples /\ Trained \subseteq Samples
<1>1. queue \in Seq(Entry) /\ collected \in Seq([sample : Samples, version : Nat])
  BY DEF TypeOK, Entry
<1>2. /\ Len(queue) \in Nat /\ DOMAIN queue = 1 .. Len(queue)
      /\ Len(collected) \in Nat /\ DOMAIN collected = 1 .. Len(collected)
  BY <1>1, LenProperties
<1>3. Queued = MembersOf(queue) \ {None} /\ Gathered = MembersOf(collected)
  BY DEF Queued, Gathered, MembersOf
<1>4. Queued \subseteq Samples
  <2>1. \A i \in 1 .. Len(queue) : queue[i] \in Entry
    BY <1>1, ElementOfSeq
  <2> QED
    BY <1>2, <2>1 DEF Queued, Entry
<1>5. Gathered \subseteq Samples
  <2>1. \A i \in 1 .. Len(collected) : collected[i] \in [sample : Samples, version : Nat]
    BY <1>1, ElementOfSeq
  <2> QED
    BY <1>2, <2>1 DEF Gathered
<1>6. Trained \subseteq Samples
  BY DEF Trained, TypeOK
<1> QED
  BY <1>1, <1>2, <1>3, <1>4, <1>5, <1>6

\* A full queue loses its head.
Drops(lost) ==
    \/ lost = {} /\ dropped' = dropped
    \/ /\ Len(queue) = MaxQueue /\ queue # <<>>
       /\ lost = {Head(queue).sample} \ {None} /\ lost \subseteq Queued
       /\ dropped' = dropped \union {Head(queue).sample}

\* What one step does to the places of the samples.
Moves ==
    \/ /\ Quiet /\ UNCHANGED <<InHand, Queued, Gathered, Trained>>
    \/ /\ TakeSample /\ taken' = taken + 1 /\ InHand = {} /\ InHand' = {taken + 1}
       /\ UNCHANGED <<running, finished, failed, dropped, Queued, Gathered, Trained, trained>>
    \/ /\ Submit /\ InHand = {hand} /\ InHand' = {} /\ running' = running \union {hand}
       /\ UNCHANGED <<taken, finished, failed, dropped, Queued, Gathered, Trained, trained>>
    \/ \E lost \in SUBSET Queued :
          /\ CloseStream /\ Drops(lost) /\ Queued' = Queued \ lost
          /\ UNCHANGED <<taken, InHand, running, finished, failed, Gathered, Trained, trained>>
    \/ \E s \in running, lost \in SUBSET Queued :
          /\ Finish(s) /\ Drops(lost) /\ Queued' = (Queued \ lost) \union {s}
          /\ running' = running \ {s} /\ finished' = finished \union {s}
          /\ UNCHANGED <<taken, InHand, failed, Gathered, Trained, trained>>
    \/ \E s \in running :
          /\ Fail(s) /\ running' = running \ {s} /\ finished' = finished \union {s} /\ failed' = failed \union {s}
          /\ UNCHANGED <<taken, InHand, dropped, Queued, Gathered, Trained, trained>>
    \/ \E s \in Queued :
          /\ Collect /\ s = Head(queue).sample /\ Queued' = Queued \ {s} /\ Gathered' = Gathered \union {s}
          /\ UNCHANGED <<taken, InHand, running, finished, failed, dropped, Trained, trained>>
    \/ /\ CollectEnd /\ Queued' = Queued /\ Gathered' = {}
       /\ UNCHANGED <<taken, InHand, running, finished, failed, dropped, Trained, trained>>
    \/ /\ TrainStep /\ Gathered' = {} /\ trained' = trained \union {Gathered} /\ Trained' = Trained \union Gathered
       /\ UNCHANGED <<taken, InHand, running, finished, failed, dropped, Queued>>

LEMMA PutDrops ==
    ASSUME TypeOK, Once(queue), NEW sample \in Samples \union {None}, Put(sample)
    PROVE  \E lost \in SUBSET Queued : Drops(lost) /\ Queued' = (Queued \ lost) \union ({sample} \ {None})
<1>1. PutFacts(sample)
  BY PutEffect
<1>2. CASE Len(queue) < MaxQueue
  <2>1. dropped' = dropped /\ Queued' = Queued \union ({sample} \ {None})
    <3>1. Len(queue) # MaxQueue
      <4>1. Len(queue) \in Nat
        BY Lists
      <4>2. MaxQueue \in Nat
        BY Sizes
      <4> QED
        BY <1>2, <4>1, <4>2
    <3> QED
      BY <1>1, <3>1 DEF PutFacts
  <2>2. Drops({})
    BY <2>1 DEF Drops
  <2>3. Queued' = (Queued \ {}) \union ({sample} \ {None})
    BY <2>1
  <2> QED
    BY <2>2, <2>3
<1>3. CASE ~(Len(queue) < MaxQueue)
  <2> DEFINE head == Head(queue).sample
             lost == {head} \ {None}
  <2>1. /\ Len(queue) = MaxQueue /\ queue # <<>> /\ head \in MembersOf(queue)
        /\ dropped' = dropped \union {head}
        /\ Queued' = (Queued \ {head}) \union ({sample} \ {None})
    BY <1>1, <1>3 DEF PutFacts
  <2>2. Queued = MembersOf(queue) \ {None}
    BY Lists
  <2>3. lost \subseteq Queued /\ Queued \ {head} = Queued \ lost
    BY <2>1, <2>2
  <2>4. Drops(lost)
    BY <2>1, <2>3 DEF Drops
  <2>5. Queued' = (Queued \ lost) \union ({sample} \ {None})
    BY <2>1, <2>3
  <2> HIDE DEF lost
  <2> QED
    BY <2>3, <2>4, <2>5
<1> QED
  BY <1>2, <1>3

LEMMA MovesStep ==
    ASSUME TypeOK, Control, Places, [Next]_vars
    PROVE  Moves /\ Once(queue)' /\ Once(collected)'
<1>0. Once(queue) /\ Once(collected)
  BY DEF Places, Once
<1>1. CASE Quiet
  <2>1. UNCHANGED <<InHand, Queued, Gathered, Trained>>
    BY <1>1 DEF Quiet, InHand, Queued, Gathered, Trained
  <2> QED
    BY <1>0, <1>1, <2>1 DEF Quiet, Moves, Once
<1>2. CASE TakeSample
  <2>1. UNCHANGED <<running, finished, failed, dropped, queue, collected, trained>>
    BY <1>2 DEF TakeSample
  <2>2. UNCHANGED <<Queued, Gathered, Trained>>
    BY <2>1 DEF Queued, Gathered, Trained
  <2>3. taken' = taken + 1 /\ InHand = {} /\ InHand' = {taken + 1}
    BY <1>2 DEF TakeSample, Control, InHand, TypeOK, None
  <2> QED
    BY <1>0, <1>2, <2>1, <2>2, <2>3 DEF Moves, Once
<1>3. CASE Submit
  <2>1. UNCHANGED <<taken, finished, failed, dropped, queue, collected, trained>>
    BY <1>3 DEF Submit
  <2>2. UNCHANGED <<Queued, Gathered, Trained>>
    BY <2>1 DEF Queued, Gathered, Trained
  <2>3. InHand = {hand} /\ InHand' = {} /\ running' = running \union {hand}
    BY <1>3 DEF Submit, Control, InHand
  <2> QED
    BY <1>0, <1>3, <2>1, <2>2, <2>3 DEF Moves, Once
<1>4. CASE CloseStream
  <2>1. UNCHANGED <<taken, hand, running, finished, failed, collected, trained>>
    BY <1>4 DEF CloseStream
  <2>2. UNCHANGED <<InHand, Gathered, Trained>>
    BY <2>1 DEF InHand, Gathered, Trained
  <2>3. PutFacts(None)
    BY <1>4, PutEffect DEF CloseStream
  <2>4. None \notin MembersOf(queue)
    BY <1>4 DEF CloseStream, Control, MembersOf
  <2>5. PICK lost \in SUBSET Queued : Drops(lost) /\ Queued' = Queued \ lost
    BY <1>0, <1>4, PutDrops DEF CloseStream
  <2>6. Once(queue')
    BY <1>0, <2>3, <2>4 DEF PutFacts
  <2> QED
    BY <1>0, <1>4, <2>1, <2>2, <2>5, <2>6 DEF Moves, Once
<1>5. ASSUME NEW s \in Samples, Finish(s) PROVE Moves /\ Once(queue)' /\ Once(collected)'
  <2>1. /\ s \in running /\ running' = running \ {s} /\ finished' = finished \union {s}
        /\ UNCHANGED <<taken, hand, failed, collected, trained>>
    BY <1>5 DEF Finish
  <2>2. UNCHANGED <<InHand, Gathered, Trained>>
    BY <2>1 DEF InHand, Gathered, Trained
  <2>3. PutFacts(s)
    BY <1>5, PutEffect DEF Finish
  <2>4. s \notin MembersOf(queue) /\ s # None
    BY <2>1, Lists, Sizes DEF Places
  <2>5. PICK lost \in SUBSET Queued : Drops(lost) /\ Queued' = (Queued \ lost) \union {s}
    BY <1>0, <1>5, <2>4, PutDrops DEF Finish
  <2>6. Once(queue')
    BY <1>0, <2>3, <2>4 DEF PutFacts
  <2> QED
    BY <1>0, <1>5, <2>1, <2>2, <2>5, <2>6 DEF Moves, Once
<1>6. ASSUME NEW s \in Samples, Fail(s) PROVE Moves /\ Once(queue)' /\ Once(collected)'
  <2>1. /\ s \in running /\ running' = running \ {s} /\ finished' = finished \union {s}
        /\ failed' = failed \union {s} /\ UNCHANGED <<taken, hand, dropped, queue, collected, trained>>
    BY <1>6 DEF Fail
  <2>2. UNCHANGED <<InHand, Queued, Gathered, Trained>>
    BY <2>1 DEF InHand, Queued, Gathered, Trained
  <2> QED
    BY <1>0, <1>6, <2>1, <2>2 DEF Moves, Once
<1>7. CASE Collect
  <2>1. UNCHANGED <<taken, hand, running, finished, failed, dropped, trained>>
    BY <1>7 DEF Collect
  <2>2. UNCHANGED <<InHand, Trained>>
    BY <2>1 DEF InHand, Trained
  <2> DEFINE s == Head(queue).sample
  <2>3. s # None /\ collected' = Append(collected, Head(queue)) /\ queue # <<>> /\ queue' = Tail(queue)
    BY <1>7 DEF Collect
  <2>4. s \in Queued /\ Queued' = Queued \ {s} /\ Once(queue)' /\ Head(queue) \in Entry
    BY <1>0, <2>3, TakeEffect, Lists DEF Once
  <2>5. Head(queue) \in [sample : Samples, version : Nat]
    BY <2>3, <2>4 DEF Entry
  <2>6. /\ MembersOf(collected') = MembersOf(collected) \union {s}
        /\ s \notin MembersOf(collected) => Once(collected')
    <3>1. collected \in Seq([sample : Samples, version : Nat])
      BY Lists
    <3> QED
      BY <1>0, <2>3, <2>5, <3>1, AppendMembers
  <2>7. s \notin MembersOf(collected)
    BY <2>4, Lists DEF Places
  <2>8. Gathered' = Gathered \union {s}
    BY <2>6 DEF Gathered, MembersOf
  <2> QED
    BY <1>7, <2>1, <2>2, <2>4, <2>6, <2>7, <2>8 DEF Moves, Once
<1>8. CASE CollectEnd
  <2>1. UNCHANGED <<taken, hand, running, finished, failed, dropped, trained>>
    BY <1>8 DEF CollectEnd
  <2>2. UNCHANGED <<InHand, Trained>>
    BY <2>1 DEF InHand, Trained
  <2>3. Head(queue).sample = None /\ collected' = <<>> /\ queue # <<>> /\ queue' = Tail(queue)
    BY <1>8 DEF CollectEnd
  <2>4. Queued' = Queued /\ Once(queue)'
    BY <1>0, <2>3, TakeEffect, Lists DEF Once
  <2>5. Gathered' = {} /\ Once(collected)'
    BY <2>3 DEF Gathered, Once
  <2> QED
    BY <1>8, <2>1, <2>2, <2>4, <2>5 DEF Moves
<1>9. CASE TrainStep
  <2>1. UNCHANGED <<taken, hand, running, finished, failed, dropped, queue>> /\ collected' = <<>>
    BY <1>9 DEF TrainStep
  <2>2. UNCHANGED <<InHand, Queued>>
    BY <2>1 DEF InHand, Queued
  <2>3. Gathered' = {} /\ Once(collected)'
    BY <2>1 DEF Gathered, Once
  <2>4. DOMAIN collected = 1 .. Required
    BY <1>9, Lists DEF TrainStep, Control
  <2>5. trained' = trained \union {Gathered}
    BY <1>9, <2>4 DEF TrainStep, Gathered
  <2>6. Trained' = Trained \union Gathered
    BY <2>5 DEF Trained
  <2> QED
    BY <1>0, <1>9, <2>1, <2>2, <2>3, <2>5, <2>6 DEF Moves, Once
<1> QED
  BY <1>1, <1>2, <1>3, <1>4, <1>5, <1>6, <1>7, <1>8, <1>9, StepKinds

LEMMA PlacesStep ==
    ASSUME TypeOK, Control, Places, [Next]_vars
    PROVE  Places'
<1>1. Moves /\ Once(queue)' /\ Once(collected)'
  BY MovesStep
<1> DEFINE Kept == /\ InHand \union running \union finished \union Queued \union Gathered \union Trained
                         \subseteq 1 .. taken
                   /\ InHand \intersect (running \union finished \union Queued \union Gathered \union Trained) = {}
                   /\ running \intersect (Queued \union Gathered \union Trained) = {}
                   /\ Queued \intersect (Gathered \union Trained) = {}
                   /\ Gathered \intersect Trained = {}
<1>2. Kept
  BY DEF Places
<1>3. taken \in Nat
  BY DEF TypeOK
<1>4. Kept'
  BY <1>1, <1>2, <1>3 DEF Moves, Quiet
<1> QED
  BY <1>1, <1>4 DEF Places, Once

-----------------------------------------------------------------------------
(* How many samples are on their way *)

LEMMA FlightSets ==
    ASSUME TypeOK
    PROVE  /\ Flight = InHand \union running \union Queued \union Gathered
           /\ Flight \subseteq Samples /\ IsFiniteSet(Flight) /\ Cardinality(Flight) \in Nat
<1>1. Flight = InHand \union running \union Queued \union Gathered
  BY DEF Flight, Outstanding, InHand
<1>2. InHand \subseteq Samples /\ running \subseteq Samples
  BY DEF InHand, TypeOK
<1>3. Flight \subseteq Samples
  BY <1>1, <1>2, Lists
<1> QED
  BY <1>1, <1>3, Finite

LEMMA FlightStep ==
    ASSUME TypeOK, Control, Places, [Next]_vars
    PROVE  /\ TakeSample => taken + 1 \notin Flight /\ Flight' = Flight \union {taken + 1}
           /\ TrainStep => /\ Gathered \subseteq Flight /\ Cardinality(Gathered) = Required
                           /\ Flight' = Flight \ Gathered
           /\ ~TakeSample => Flight' \subseteq Flight
<1>1. Moves
  BY MovesStep
<1>2. Flight = InHand \union running \union Queued \union Gathered
  BY FlightSets
<1>3. Flight' = InHand' \union running' \union Queued' \union Gathered'
  BY TypeStep, <1>2 DEF Flight, Outstanding, InHand
<1>4. ASSUME TakeSample PROVE taken + 1 \notin Flight /\ Flight' = Flight \union {taken + 1}
  <2>1. InHand' = {taken + 1} /\ InHand = {} /\ UNCHANGED <<running, Queued, Gathered>>
    BY <1>1, <1>4 DEF Moves, Quiet, TakeSample, TypeOK, Submit, CloseStream, Finish, Fail, Collect, CollectEnd,
                      TrainStep
  <2>2. taken + 1 \notin Flight
    BY <1>2 DEF Places, TypeOK
  <2> QED
    BY <1>2, <1>3, <2>1, <2>2
<1>5. ASSUME TrainStep PROVE Gathered \subseteq Flight /\ Flight' = Flight \ Gathered
  <2>1. UNCHANGED <<hand, running, queue>> /\ collected' = <<>>
    BY <1>5 DEF TrainStep
  <2>2. InHand' = InHand /\ running' = running /\ Queued' = Queued /\ Gathered' = {}
    BY <2>1 DEF InHand, Queued, Gathered
  <2> QED
    BY <1>2, <1>3, <2>2 DEF Places
<1>6. TrainStep => Cardinality(Gathered) = Required
  <2>1. collected \in Seq([sample : Samples, version : Nat]) /\ Once(collected)
    BY Lists DEF Places, Once
  <2>2. Cardinality(Gathered) = Len(collected)
    BY <2>1, Lists, OnceCardinality
  <2> QED
    BY <2>2 DEF TrainStep, Control
<1>7. ~TakeSample => Flight' \subseteq Flight
  BY <1>1, <1>2, <1>3 DEF Moves, Quiet
<1> QED
  BY <1>4, <1>5, <1>6, <1>7

\* A local step moves its samples from the trainer's list to those counted as trained on.
LEMMA SinceFacts ==
    ASSUME TypeOK, Control
    PROVE  /\ Since \in Nat
           /\ (localStep - 1) * Required \in Nat
           /\ localStep * Required = (localStep - 1) * Required + Required
           /\ localStep = Trigger => localStep * Required = PerVersion
<1>1. localStep \in Nat /\ localStep - 1 \in Nat /\ Required \in Nat /\ Trigger \in Nat
  BY DEF TypeOK
<1>2. \A k, r \in Nat : k * r \in Nat /\ (k + 1) * r = k * r + r
  OBVIOUS
<1>3. localStep * Required = (localStep - 1) * Required + Required /\ (localStep - 1) * Required \in Nat
  <2>1. (localStep - 1) + 1 = localStep
    BY <1>1
  <2> QED
    BY <1>1, <1>2, <2>1
<1>4. Trigger * Required = PerVersion
  BY <1>1 DEF PerVersion
<1>5. Since \in Nat
  BY <1>3, Sizes DEF Since
<1> QED
  BY <1>3, <1>4, <1>5

LEMMA SinceType == TypeOK /\ Control => Since \in Nat
  BY SinceFacts

LEMMA SinceStep ==
    ASSUME TypeOK, Control, [Next]_vars
    PROVE  /\ TrainStep => Since' = Since + Required
           /\ ResetEnd => Since' = 0
           /\ ~TrainStep => Since' <= Since
<1>1. CASE TrainStep
  <2>1. Since = (localStep - 1) * Required /\ ~stopped' /\ ~ResetEnd
    BY <1>1 DEF TrainStep, Since, Control, ResetEnd, TypeOK
  <2>2. CASE localStep < Trigger
    <3>1. localStep' = localStep + 1 /\ tpc' = "save"
      BY <1>1, <2>2 DEF TrainStep
    <3>2. Since' = (localStep + 1 - 1) * Required
      BY <3>1, SinceFacts DEF Since, TypeOK
    <3>3. localStep + 1 - 1 = localStep
      BY DEF TypeOK
    <3> QED
      BY <1>1, <2>1, <3>2, <3>3, SinceFacts
  <2>3. CASE ~(localStep < Trigger)
    <3>1. localStep' = 1 /\ tpc' = "sync" /\ localStep = Trigger
      BY <1>1, <2>3 DEF TrainStep, TypeOK
    <3>2. Since' = (1 - 1) * Required + PerVersion
      BY <2>1, <3>1 DEF Since
    <3>3. (1 - 1) * Required = 0
      OBVIOUS
    <3> QED
      BY <1>1, <2>1, <3>1, <3>2, <3>3, SinceFacts, Sizes
  <2> QED
    BY <2>2, <2>3
<1>2. CASE ResetEnd
  <2>1. localStep = 1 /\ localStep' = 1 /\ tpc' = "save"
    BY <1>2 DEF ResetEnd, Control
  <2>2. Since' = (1 - 1) * Required + 0
    BY <2>1 DEF Since
  <2>3. Since' = 0
    BY <2>2
  <2> QED
    BY <1>2, <2>3, SinceFacts DEF ResetEnd, TrainStep
<1>3. ASSUME ~TrainStep, ~ResetEnd PROVE Since' <= Since
  <2>1. localStep' = localStep
    BY <1>3 DEF Next, Processor, Monitor, Trainer, Over, vars, AskStatistics, DecideToPause, Pause, DrainReap,
           DrainResume, TakeSample, TakeEnd, FullReap, Submit, EndReap, CloseStream, Finish, Fail, MonitorAsk,
           MonitorDecide, MonitorResume, Collect, CollectEnd, UpdateWeights, ResetBegin, Save
  <2>2. \/ UNCHANGED <<tpc, stopped>>
        \/ tpc \notin {"sync", "reset", "counting"} /\ (stopped' \/ tpc' \notin {"sync", "reset", "counting"})
        \/ tpc \in {"sync", "reset"} /\ tpc' \in {"reset", "counting"} /\ stopped' = stopped
    BY <1>3 DEF Next, Processor, Monitor, Trainer, Over, vars, AskStatistics, DecideToPause, Pause, DrainReap,
           DrainResume, TakeSample, TakeEnd, FullReap, Submit, EndReap, CloseStream, Finish, Fail, MonitorAsk,
           MonitorDecide, MonitorResume, Collect, CollectEnd, UpdateWeights, ResetBegin, Save
  <2>3. Since' = Since
    BY <2>1, <2>2 DEF Since
  <2> QED
    BY <2>3, SinceFacts
<1> QED
  BY <1>1, <1>2, <1>3, SinceFacts DEF ResetEnd, TrainStep

LEMMA FlightBound ==
    ASSUME TypeOK, Control, Places, [Next]_vars
    PROVE  /\ Cardinality(Flight') \in Nat /\ Since' \in Nat
           /\ TakeSample => Cardinality(Flight') + Since' <= Cardinality(Flight) + Since + 1
           /\ ~TakeSample => Cardinality(Flight') + Since' <= Cardinality(Flight) + Since
<1>1. IsFiniteSet(Flight) /\ Cardinality(Flight) \in Nat /\ Since \in Nat /\ Required \in Nat
  BY FlightSets, SinceFacts
<1>2. TypeOK' /\ Control'
  BY TypeStep, ControlStep
<1>3. (Since \in Nat)'
  BY <1>2, SinceType, PTL
<1>4. CASE TakeSample
  <2>1. taken + 1 \notin Flight /\ Flight' = Flight \union {taken + 1}
    BY <1>4, FlightStep
  <2>2. Cardinality(Flight') = Cardinality(Flight) + 1
    BY <1>1, <2>1, FS_AddElement
  <2>3. ~TrainStep
    BY <1>4 DEF TakeSample, TrainStep, trainerVars, TypeOK
  <2> QED
    BY <1>1, <1>3, <1>4, <2>2, <2>3, SinceStep
<1>5. CASE TrainStep
  <2>1. Gathered \subseteq Flight /\ Cardinality(Gathered) = Required /\ Flight' = Flight \ Gathered
    BY <1>5, FlightStep
  <2>2. Cardinality(Flight \intersect Gathered) = Required /\ Flight \intersect Gathered = Gathered
    BY <2>1
  <2>3. Cardinality(Flight') = Cardinality(Flight) - Required /\ IsFiniteSet(Flight')
    BY <1>1, <2>1, <2>2, FS_Difference
  <2>4. Cardinality(Flight') \in Nat
    BY <2>3, FS_CardinalityType
  <2> QED
    BY <1>1, <1>3, <1>5, <2>3, <2>4, SinceStep
<1>6. ASSUME ~TakeSample, ~TrainStep
      PROVE  Cardinality(Flight') \in Nat /\ Cardinality(Flight') + Since' <= Cardinality(Flight) + Since
  <2>1. Flight' \subseteq Flight
    BY <1>6, FlightStep
  <2>2. Cardinality(Flight') \in Nat /\ Cardinality(Flight') <= Cardinality(Flight)
    BY <1>1, <2>1, FS_Subset, FS_CardinalityType
  <2> QED
    BY <1>1, <1>3, <1>6, <2>2, SinceStep
<1> QED
  BY <1>3, <1>4, <1>5, <1>6

LEMMA UnionBound ==
    ASSUME NEW S, NEW T, IsFiniteSet(S), IsFiniteSet(T)
    PROVE  /\ IsFiniteSet(S \union T)
           /\ Cardinality(S) \in Nat /\ Cardinality(T) \in Nat /\ Cardinality(S \union T) \in Nat
           /\ Cardinality(S \union T) <= Cardinality(S) + Cardinality(T)
<1>1. IsFiniteSet(S \intersect T)
  BY FS_Intersection
<1>2. /\ IsFiniteSet(S \union T)
      /\ Cardinality(S \union T) = Cardinality(S) + Cardinality(T) - Cardinality(S \intersect T)
  BY FS_Union
<1>3. /\ Cardinality(S) \in Nat /\ Cardinality(T) \in Nat
      /\ Cardinality(S \union T) \in Nat /\ Cardinality(S \intersect T) \in Nat
  BY <1>1, <1>2, FS_CardinalityType
<1> QED
  BY <1>2, <1>3

\* Whatever reset_staleness counts, the sample in the processor's hand may be missing from it, no other.
LEMMA BoundedStep ==
    ASSUME TypeOK, Control, Places, Bounded, [Next]_vars
    PROVE  Bounded'
<1>1. Charged \in Nat /\ staleness \in Nat /\ MaxRequired \in Nat
  BY FlightSets, SinceFacts, Sizes DEF Charged, TypeOK
<1>2. Charged <= MaxRequired + 1 /\ Charged <= staleness + 1
  BY DEF Bounded
<1>3. Charged' \in Nat /\ (TakeSample => Charged' <= Charged + 1) /\ (~TakeSample => Charged' <= Charged)
  BY FlightBound, FlightSets, SinceFacts DEF Charged
<1>4. Charged' <= MaxRequired + 1 /\ Charged' <= staleness' + 1
  <2>1. CASE TakeSample
    <3>1. staleness' = staleness + 1 /\ ~(staleness >= MaxRequired)
      BY <2>1 DEF TakeSample, ShouldPause
    <3> QED
      BY <1>1, <1>2, <1>3, <2>1, <3>1
  <2>2. CASE ResetEnd
    <3>1. InHand \union running \union Queued = Flight' /\ Since' = 0
      <4>1. UNCHANGED <<hand, running, queue, collected>> /\ collected = <<>>
        BY <2>2 DEF ResetEnd, Control
      <4>2. Flight' = InHand \union running \union Queued \union Gathered /\ Gathered = {}
        BY <4>1 DEF Flight, Outstanding, InHand, Queued, Gathered
      <4> QED
        BY <2>2, <4>2, SinceStep
    <3>2. staleness' = counted + Len(queue) /\ counted \in Nat /\ Len(queue) \in Nat
      BY <2>2, Lists DEF ResetEnd, TypeOK
    <3>3. IsFiniteSet(running) /\ Cardinality(running) \in Nat /\ Cardinality(running) <= counted
      BY <2>2, Finite DEF ResetEnd, Bounded, TypeOK
    <3>4. IsFiniteSet(Queued) /\ Cardinality(Queued) \in Nat /\ Cardinality(Queued) <= Len(queue)
      <4>1. queue \in Seq(Entry) /\ Once(queue)
        BY Lists DEF Places, Once
      <4>2. IsFiniteSet(MembersOf(queue)) /\ Cardinality(MembersOf(queue)) = Len(queue)
        BY <4>1, OnceCardinality
      <4>3. Queued \subseteq MembersOf(queue)
        BY Lists
      <4> QED
        BY <4>2, <4>3, FS_Subset, FS_CardinalityType
    <3>5. IsFiniteSet(InHand) /\ Cardinality(InHand) \in Nat /\ Cardinality(InHand) <= 1
      <4>1. IsFiniteSet({hand}) /\ Cardinality({hand}) = 1
        BY FS_Singleton
      <4> QED
        BY <4>1, FS_Subset, FS_CardinalityType DEF InHand
    <3>6. /\ Cardinality(InHand \union running \union Queued) \in Nat
          /\ Cardinality(InHand \union running \union Queued) <= (counted + Len(queue)) + 1
      <4>1. /\ IsFiniteSet(InHand \union running)
            /\ Cardinality(InHand \union running) <= Cardinality(InHand) + Cardinality(running)
            /\ Cardinality(InHand \union running) \in Nat
        BY <3>3, <3>5, UnionBound
      <4>2. /\ Cardinality(InHand \union running \union Queued) <= Cardinality(InHand \union running) + Cardinality(Queued)
            /\ Cardinality(InHand \union running \union Queued) \in Nat
        BY <3>4, <4>1, UnionBound
      <4> QED
        BY <3>2, <3>3, <3>4, <3>5, <4>1, <4>2
    <3>7. Charged' <= staleness' + 1
      <4>1. Charged' = Cardinality(InHand \union running \union Queued) + 0
        BY <3>1 DEF Charged
      <4>2. Charged' = Cardinality(InHand \union running \union Queued)
        BY <3>6, <4>1
      <4> QED
        BY <3>2, <3>6, <4>2
    <3> QED
      BY <1>1, <1>2, <1>3, <2>2, <3>7 DEF ResetEnd, TakeSample, trainerVars
  <2>3. ASSUME ~TakeSample, ~ResetEnd PROVE Charged' <= MaxRequired + 1 /\ Charged' <= staleness' + 1
    <3>1. staleness' \in {staleness, staleness + 1}
      BY <2>3 DEF Next, Processor, Monitor, Trainer, Over, vars, AskStatistics, DecideToPause, Pause, DrainReap,
             DrainResume, TakeEnd, FullReap, Submit, EndReap, CloseStream, Finish, Fail, MonitorAsk,
             MonitorDecide, MonitorResume, Collect, CollectEnd, TrainStep, UpdateWeights, ResetBegin, Save
    <3>2. staleness' \in Nat /\ staleness <= staleness'
      BY <1>1, <3>1
    <3>3. Charged' \in Nat /\ Charged' <= Charged
      BY <1>3, <2>3
    <3>4. Charged' <= MaxRequired + 1
      BY <1>1, <1>2, <3>3
    <3>5. \A s \in Nat : staleness <= s => Charged' <= s + 1
      BY <1>1, <1>2, <3>3
    <3> QED
      BY <3>2, <3>4, <3>5
  <2> QED
    BY <2>1, <2>2, <2>3
<1>5. tpc' = "counting" => Cardinality(running') <= counted'
  <2>1. CASE ResetBegin
    <3>1. running' = running /\ counted' = Cardinality(active)
      BY <2>1 DEF ResetBegin
    <3>2. running \subseteq active /\ IsFiniteSet(active)
      BY Finite DEF active, TypeOK
    <3> QED
      BY <3>1, <3>2, FS_Subset
  <2>2. ASSUME ~ResetBegin, tpc' = "counting" PROVE Cardinality(running') <= counted'
    <3>1. tpc = "counting" /\ counted' = counted /\ ~Submit
      BY <2>2 DEF Next, Processor, Monitor, Trainer, Over, vars, AskStatistics, DecideToPause, Pause, DrainReap,
             DrainResume, TakeSample, TakeEnd, FullReap, Submit, EndReap, CloseStream, Finish, Fail, MonitorAsk,
             MonitorDecide, MonitorResume, Collect, CollectEnd, TrainStep, UpdateWeights, ResetEnd, Save,
             Control, Held
    <3>2. running' \subseteq running
      BY <3>1, MovesStep DEF Moves, Quiet
    <3>3. IsFiniteSet(running) /\ Cardinality(running) <= counted /\ Cardinality(running) \in Nat /\ counted \in Nat
      BY <3>1, Finite DEF Bounded, TypeOK
    <3>4. Cardinality(running') <= Cardinality(running) /\ Cardinality(running') \in Nat
      BY <3>2, <3>3, FS_Subset, FS_CardinalityType
    <3> QED
      BY <3>1, <3>3, <3>4
  <2> QED
    BY <2>1, <2>2
<1> QED
  BY <1>4, <1>5 DEF Bounded

-----------------------------------------------------------------------------
(* What is trained and saved *)

\* The batch of a step has none of the samples of an earlier one: it counts as a step of its own.
LEMMA NewBatch ==
    ASSUME TypeOK, Control, Places, TrainStep
    PROVE  trained' = trained \union {Gathered} /\ Cardinality(trained') = Cardinality(trained) + 1
<1>1. trained' = trained \union {Gathered}
  <2>1. DOMAIN collected = 1 .. Required
    BY Lists DEF TrainStep, Control
  <2> QED
    BY <2>1 DEF TrainStep, Gathered
<1>2. Gathered # {}
  <2>1. collected \in Seq([sample : Samples, version : Nat]) /\ Once(collected)
    BY Lists DEF Places, Once
  <2>2. Cardinality(Gathered) = Len(collected)
    BY <2>1, Lists, OnceCardinality
  <2>3. Cardinality(Gathered) # 0
    BY <2>2 DEF TrainStep, Control
  <2> QED
    BY <2>3, FS_EmptySet
<1>3. Gathered \notin trained
  BY <1>2 DEF Places, Trained
<1> QED
  BY <1>1, <1>3, Finite, FS_AddElement

LEMMA RecordedStep ==
    ASSUME TypeOK, Control, Places, Recorded, [Next]_vars
    PROVE  Recorded'
<1>1. /\ version \in Nat /\ Trigger \in Nat \ {0} /\ localStep \in 1 .. Trigger
      /\ Cardinality(trained) \in Nat /\ savedSteps \in Nat /\ savedVersion \in Nat
  <2>1. version \in Nat /\ localStep \in 1 .. Trigger /\ savedSteps \in Nat /\ savedVersion \in 0 .. version
    BY DEF TypeOK
  <2>2. Cardinality(trained) \in Nat
    BY Finite
  <2>3. Trigger \in Nat \ {0}
    OBVIOUS
  <2> QED
    BY <2>1, <2>2, <2>3
<1>2. Cardinality(trained) = version * Trigger + localStep - 1 /\ savedSteps >= savedVersion * Trigger
  BY DEF Recorded
<1>3. CASE TrainStep
  <2>1. Cardinality(trained') = Cardinality(trained) + 1
    BY <1>3, NewBatch
  <2>2. savedSteps' = savedSteps /\ savedVersion' = savedVersion /\ tpc' # "done"
    BY <1>3 DEF TrainStep
  <2>3. \A v, t \in Nat : (v + 1) * t = v * t + t /\ v * t \in Nat
    OBVIOUS
  <2>4. Cardinality(trained') = version' * Trigger + localStep' - 1
    <3>1. CASE localStep < Trigger
      <4>1. version' = version /\ localStep' = localStep + 1
        BY <1>3, <3>1 DEF TrainStep
      <4>2. Cardinality(trained') = version * Trigger + (localStep + 1) - 1
        BY <1>1, <1>2, <2>1, <2>3
      <4> QED
        BY <4>1, <4>2
    <3>2. CASE ~(localStep < Trigger)
      <4>1. version' = version + 1 /\ localStep' = 1
        BY <1>3, <3>2 DEF TrainStep
      <4>2. localStep = Trigger
        BY <1>1, <3>2
      <4>3. (version + 1) * Trigger = version * Trigger + Trigger /\ version * Trigger \in Nat
        BY <1>1, <2>3
      <4>4. Cardinality(trained') = (version + 1) * Trigger + 1 - 1
        BY <1>1, <1>2, <2>1, <4>2, <4>3
      <4> QED
        BY <4>1, <4>4
    <3> QED
      BY <3>1, <3>2
  <2> QED
    BY <1>2, <2>2, <2>4 DEF Recorded
<1>4. CASE Save
  <2>1. UNCHANGED <<trained, version, localStep>>
    BY <1>4 DEF Save
  <2>2. Cardinality(trained) >= version * Trigger
    BY <1>1, <1>2
  <2>3. savedSteps' >= savedVersion' * Trigger
    <3>1. \/ savedVersion' = version /\ savedSteps' = Cardinality(trained)
          \/ savedVersion' = savedVersion /\ savedSteps' = savedSteps
      BY <1>4 DEF Save
    <3> QED
      BY <1>2, <2>2, <3>1
  <2>4. tpc' = "done" => savedVersion' = version
    BY <1>4 DEF Save
  <2> QED
    BY <1>2, <2>1, <2>3, <2>4 DEF Recorded
<1>5. ASSUME ~TrainStep, ~Save PROVE Recorded'
  <2>1. UNCHANGED <<trained, version, localStep, savedSteps, savedVersion>>
    BY <1>5 DEF Next, Processor, Monitor, Trainer, Over, vars, AskStatistics, DecideToPause, Pause, DrainReap,
           DrainResume, TakeSample, TakeEnd, FullReap, Submit, EndReap, CloseStream, Finish, Fail, MonitorAsk,
           MonitorDecide, MonitorResume, Collect, CollectEnd, UpdateWeights, ResetBegin, ResetEnd
  <2>2. tpc' = "done" => tpc = "done"
    BY <1>5 DEF Next, Processor, Monitor, Trainer, Over, vars, AskStatistics, DecideToPause, Pause, DrainReap,
           DrainResume, TakeSample, TakeEnd, FullReap, Submit, EndReap, CloseStream, Finish, Fail, MonitorAsk,
           MonitorDecide, MonitorResume, Collect, CollectEnd, UpdateWeights, ResetBegin, ResetEnd
  <2> QED
    BY <2>1, <2>2 DEF Recorded
<1> QED
  BY <1>3, <1>4, <1>5

-----------------------------------------------------------------------------
(* The order of the samples *)

\* Training moves the places of those still to come: those it trains on come first.
LEMMA DoneStep ==
    ASSUME TypeOK, Control, [Next]_vars
    PROVE  /\ Done \in Nat
           /\ TrainStep => Done' = Done + Required
           /\ ~TrainStep => Done' = Done
<1>1. /\ version \in Nat /\ PerVersion \in Nat /\ localStep \in 1 .. Trigger /\ Required \in Nat
      /\ (localStep - 1) * Required \in Nat
      /\ localStep * Required = (localStep - 1) * Required + Required
      /\ localStep = Trigger => localStep * Required = PerVersion
  BY SinceFacts, Sizes DEF TypeOK
<1>2. \A v, p \in Nat : (v + 1) * p = v * p + p /\ v * p \in Nat
  OBVIOUS
<1>3. version * PerVersion \in Nat /\ (version + 1) * PerVersion = version * PerVersion + PerVersion
  BY <1>1, <1>2
<1>4. Done \in Nat
  BY <1>1, <1>3 DEF Done
<1>5. CASE TrainStep
  <2>1. CASE localStep < Trigger
    <3>1. version' = version /\ localStep' = localStep + 1
      BY <1>5, <2>1 DEF TrainStep
    <3>2. Done' = version * PerVersion + (localStep + 1 - 1) * Required
      <4>1. localStep' - 1 = localStep + 1 - 1
        BY <1>1, <3>1
      <4> QED
        BY <3>1, <4>1 DEF Done
    <3>3. localStep + 1 - 1 = localStep
      BY <1>1
    <3> QED
      BY <1>1, <1>3, <1>4, <1>5, <3>2, <3>3 DEF Done
  <2>2. CASE ~(localStep < Trigger)
    <3>1. version' = version + 1 /\ localStep' = 1 /\ localStep = Trigger
      BY <1>1, <1>5, <2>2 DEF TrainStep
    <3>2. Done' = (version + 1) * PerVersion + (1 - 1) * Required
      BY <3>1 DEF Done
    <3>3. (1 - 1) * Required = 0
      BY <1>1
    <3> QED
      BY <1>1, <1>3, <1>4, <1>5, <3>1, <3>2, <3>3 DEF Done
  <2> QED
    BY <2>1, <2>2
<1>6. ASSUME ~TrainStep PROVE Done' = Done
  <2>1. UNCHANGED <<version, localStep>>
    BY <1>6 DEF Next, Processor, Monitor, Trainer, Over, vars, AskStatistics, DecideToPause, Pause, DrainReap,
           DrainResume, TakeSample, TakeEnd, FullReap, Submit, EndReap, CloseStream, Finish, Fail, MonitorAsk,
           MonitorDecide, MonitorResume, Collect, CollectEnd, UpdateWeights, ResetBegin, ResetEnd, Save
  <2> QED
    BY <2>1 DEF Done
<1> QED
  BY <1>4, <1>5, <1>6

\* The servers' weights are behind what has been trained by no more than what is still charged.
LEMMA ServedLag ==
    ASSUME TypeOK, Control, Served, ~stopped
    PROVE  Done <= rolloutVersion * PerVersion + Since /\ rolloutVersion * PerVersion \in Nat
<1>1. version \in Nat /\ rolloutVersion \in Nat /\ PerVersion \in Nat /\ (localStep - 1) * Required \in Nat
  BY SinceFacts, Sizes DEF TypeOK
<1>2. \A v, p \in Nat : (v + 1) * p = v * p + p /\ v * p \in Nat
  OBVIOUS
<1>3. rolloutVersion * PerVersion \in Nat
  BY <1>1, <1>2
<1>4. CASE tpc = "sync"
  <2>1. version = rolloutVersion + 1
    BY <1>1, <1>4 DEF Served
  <2>2. Done = rolloutVersion * PerVersion + PerVersion + (localStep - 1) * Required
    BY <1>1, <1>2, <2>1 DEF Done
  <2>3. Since = (localStep - 1) * Required + PerVersion
    BY <1>4 DEF Since
  <2> QED
    BY <1>1, <1>3, <2>2, <2>3
<1>5. CASE tpc # "sync"
  <2>1. version = rolloutVersion
    BY <1>1, <1>5 DEF Served
  <2>2. Done = rolloutVersion * PerVersion + (localStep - 1) * Required
    BY <2>1 DEF Done
  <2>3. Since >= (localStep - 1) * Required /\ Since \in Nat
    BY <1>1, SinceFacts DEF Since
  <2> QED
    BY <1>1, <1>3, <2>2, <2>3
<1> QED
  BY <1>4, <1>5

LEMMA DisjointUnion ==
    ASSUME NEW S, NEW T, IsFiniteSet(S), IsFiniteSet(T), S \intersect T = {}
    PROVE  /\ IsFiniteSet(S \union T)
           /\ Cardinality(S \union T) = Cardinality(S) + Cardinality(T)
<1>1. Cardinality(S \intersect T) = 0
  BY FS_EmptySet
<1>2. /\ IsFiniteSet(S \union T)
      /\ Cardinality(S \union T) = Cardinality(S) + Cardinality(T) - Cardinality(S \intersect T)
  BY FS_Union
<1>3. Cardinality(S) \in Nat /\ Cardinality(T) \in Nat
  BY FS_CardinalityType
<1> QED
  BY <1>1, <1>2, <1>3

\* All that the trainer holds and the queue holds, and a sample that is generated, are on their way.
LEMMA WaitingFly ==
    ASSUME TypeOK, Places, NEW s \in running
    PROVE  Len(collected) + Len(queue) + 1 <= Cardinality(Flight) + SignalAhead(queue, Len(queue) + 1)
<1>1. /\ queue \in Seq(Entry) /\ Once(queue) /\ collected \in Seq([sample : Samples, version : Nat]) /\ Once(collected)
      /\ Len(queue) \in Nat /\ Len(collected) \in Nat /\ DOMAIN queue = 1 .. Len(queue)
  BY Lists DEF Places, Once
<1>2. IsFiniteSet(MembersOf(queue)) /\ Cardinality(MembersOf(queue)) = Len(queue)
  BY <1>1, OnceCardinality
<1>3. IsFiniteSet(Gathered) /\ Cardinality(Gathered) = Len(collected)
  BY <1>1, Lists, OnceCardinality
<1>4. Queued = MembersOf(queue) \ {None}
  BY Lists
<1>5. IsFiniteSet(Queued) /\ Cardinality(Queued) = IF None \in MembersOf(queue) THEN Len(queue) - 1 ELSE Len(queue)
  BY <1>2, <1>4, FS_RemoveElement
<1>6. SignalAhead(queue, Len(queue) + 1) = IF None \in MembersOf(queue) THEN 1 ELSE 0
  <2>1. 1 .. (Len(queue) + 1) - 1 = 1 .. Len(queue)
    BY <1>1
  <2>2. (\E j \in 1 .. (Len(queue) + 1) - 1 : queue[j].sample = None) <=> None \in MembersOf(queue)
    BY <1>1, <2>1 DEF MembersOf
  <2> QED
    BY <2>2 DEF SignalAhead
<1>7. Queued \intersect Gathered = {} /\ s \notin Queued \union Gathered
  BY DEF Places
<1>8. IsFiniteSet(Queued \union Gathered) /\ Cardinality(Queued \union Gathered) = Cardinality(Queued) + Len(collected)
  BY <1>3, <1>5, <1>7, DisjointUnion
<1>9. Cardinality(Queued \union Gathered \union {s}) = Cardinality(Queued) + Len(collected) + 1
  BY <1>7, <1>8, FS_AddElement
<1>10. Cardinality(Queued \union Gathered \union {s}) <= Cardinality(Flight)
  <2>1. Queued \union Gathered \union {s} \subseteq Flight /\ IsFiniteSet(Flight)
    BY FlightSets
  <2> QED
    BY <2>1, FS_Subset
<1>11. Cardinality(Flight) \in Nat
  BY FlightSets
<1> QED
  BY <1>1, <1>5, <1>6, <1>9, <1>10, <1>11

LEMMA PlaceNat ==
    ASSUME TypeOK, Control
    PROVE  /\ Done \in Nat /\ Len(collected) \in Nat /\ Len(queue) \in Nat /\ MaxRequired \in Nat
           /\ \A i \in DOMAIN queue : queue[i].version * PerVersion \in Nat
           /\ \A i \in DOMAIN collected : collected[i].version * PerVersion \in Nat
           /\ \A q, i : SignalAhead(q, i) \in {0, 1}
<1>1. \A v, p \in Nat : v * p \in Nat
  OBVIOUS
<1>2. PerVersion \in Nat /\ MaxRequired \in Nat
  BY Sizes
<1>3. Done \in Nat
  <2>1. version \in Nat /\ (localStep - 1) * Required \in Nat
    BY SinceFacts DEF TypeOK
  <2>2. version * PerVersion \in Nat
    BY <1>1, <1>2, <2>1
  <2> QED
    BY <2>1, <2>2 DEF Done
<1>4. \A i \in DOMAIN queue : queue[i].version \in Nat
  <2>1. queue \in Seq(Entry) /\ DOMAIN queue = 1 .. Len(queue)
    BY Lists
  <2>2. \A i \in DOMAIN queue : queue[i] \in Entry
    BY <2>1, ElementOfSeq
  <2> QED
    BY <2>2 DEF Entry
<1>5. \A i \in DOMAIN collected : collected[i].version \in Nat
  <2>1. collected \in Seq([sample : Samples, version : Nat]) /\ DOMAIN collected = 1 .. Len(collected)
    BY Lists
  <2>2. \A i \in DOMAIN collected : collected[i] \in [sample : Samples, version : Nat]
    BY <2>1, ElementOfSeq
  <2> QED
    BY <2>2
<1> QED
  BY <1>1, <1>2, <1>3, <1>4, <1>5, Lists DEF SignalAhead

\* An entry of the queue keeps its place in the stream or comes nearer, whether or not the head is dropped.
LEMMA PutOrder ==
    ASSUME TypeOK, Control, ~stopped, NEW sample, PutFacts(sample),
           \A i \in DOMAIN queue : queue[i].sample # None =>
               OnTime(Done + Len(collected) + i, queue[i].version, SignalAhead(queue, i)),
           NEW i \in 1 .. Len(queue') - 1, queue'[i].sample # None
    PROVE  OnTime(Done + Len(collected) + i, queue'[i].version, SignalAhead(queue', i))
<1>1. Len(queue) \in Nat /\ DOMAIN queue = 1 .. Len(queue)
  BY Lists
<1>2. CASE /\ Len(queue') = Len(queue) + 1 /\ \A j \in 1 .. Len(queue) : queue'[j] = queue[j]
  <2>1. i \in 1 .. Len(queue) /\ queue'[i] = queue[i] /\ \A j \in 1 .. i - 1 : queue'[j] = queue[j]
    BY <1>1, <1>2
  <2>2. SignalAhead(queue', i) = SignalAhead(queue, i)
    BY <2>1 DEF SignalAhead
  <2> QED
    BY <1>1, <2>1, <2>2
<1>3. CASE /\ Len(queue') = Len(queue) /\ \A j \in 1 .. Len(queue) - 1 : queue'[j] = queue[j + 1]
  <2>1. i + 1 \in DOMAIN queue /\ queue'[i] = queue[i + 1]
    BY <1>1, <1>3
  <2>2. OnTime(Done + Len(collected) + (i + 1), queue[i + 1].version, SignalAhead(queue, i + 1))
    BY <2>1
  <2>3. SignalAhead(queue, i + 1) <= 1 /\ SignalAhead(queue', i) >= 0
    BY DEF SignalAhead
  <2>4. OnTime(Done + Len(collected) + i, queue[i + 1].version, SignalAhead(queue', i))
    <3>1. /\ Done \in Nat /\ Len(collected) \in Nat /\ MaxRequired \in Nat /\ queue[i + 1].version * PerVersion \in Nat
          /\ SignalAhead(queue, i + 1) \in {0, 1} /\ SignalAhead(queue', i) \in {0, 1}
      BY <2>1, PlaceNat
    <3> QED
      BY <2>2, <3>1 DEF OnTime
  <2> QED
    BY <2>1, <2>4
<1> QED
  BY <1>2, <1>3 DEF PutFacts

LEMMA InOrderStep ==
    ASSUME TypeOK, Control, Served, Places, Bounded, InOrder, [Next]_vars
    PROVE  InOrder'
<1>1. DOMAIN queue = 1 .. Len(queue) /\ DOMAIN collected = 1 .. Len(collected) /\ TypeOK'
  BY Lists, TypeStep
<1>2. DOMAIN queue' = 1 .. Len(queue')
  BY <1>1, LenProperties DEF TypeOK
<1>3. ASSUME NEW sample \in Samples \union {None}, PutFacts(sample), UNCHANGED <<collected, stopped, version, localStep>>,
             sample # None /\ ~stopped =>
                 OnTime(Done + Len(collected) + Len(queue'), rolloutVersion, SignalAhead(queue', Len(queue')))
      PROVE  InOrder'
  <2>1. Done' = Done
    BY <1>3 DEF Done
  <2>2. ASSUME ~stopped, NEW i \in DOMAIN queue', queue'[i].sample # None
        PROVE  OnTime(Done + Len(collected) + i, queue'[i].version, SignalAhead(queue', i))
    <3>1. queue'[Len(queue')] = [sample |-> sample, version |-> rolloutVersion]
      BY <1>3 DEF PutFacts
    <3>2. CASE i = Len(queue')
      BY <1>3, <2>2, <3>1, <3>2
    <3>3. CASE i # Len(queue')
      <4>1. Len(queue') \in Nat
        BY <1>3, LenProperties DEF PutFacts
      <4>2. i \in 1 .. Len(queue') - 1
        BY <1>2, <3>3, <4>1
      <4> QED
        BY <1>3, <2>2, <4>2, PutOrder DEF InOrder
    <3> QED
      BY <3>2, <3>3
  <2> QED
    BY <1>3, <2>1, <2>2 DEF InOrder
<1>4. ASSUME NEW s \in Samples, Finish(s) PROVE InOrder'
  <2>1. s \in running /\ UNCHANGED <<collected, stopped, version, localStep>>
    BY <1>4 DEF Finish
  <2>2. PutFacts(s)
    BY <1>4, PutEffect DEF Finish
  <2>3. ASSUME ~stopped
        PROVE  OnTime(Done + Len(collected) + Len(queue'), rolloutVersion, SignalAhead(queue', Len(queue')))
    <3> DEFINE n == Len(queue)
    <3>1. /\ Done \in Nat /\ Len(collected) \in Nat /\ n \in Nat /\ MaxRequired \in Nat
          /\ SignalAhead(queue, n + 1) \in {0, 1} /\ SignalAhead(queue', n) \in {0, 1}
          /\ Cardinality(Flight) \in Nat /\ Since \in Nat
      BY PlaceNat, FlightSets, SinceFacts
    <3>2. Done <= rolloutVersion * PerVersion + Since /\ rolloutVersion * PerVersion \in Nat
      BY <2>3, ServedLag
    <3>3. Len(collected) + n + 1 <= Cardinality(Flight) + SignalAhead(queue, n + 1)
      BY <2>1, WaitingFly
    <3>4. Cardinality(Flight) + Since <= MaxRequired + 1
      BY DEF Bounded, Charged
    <3>5. Done + Len(collected) + (n + 1) <= rolloutVersion * PerVersion + MaxRequired + 1 + SignalAhead(queue, n + 1)
      BY <3>1, <3>2, <3>3, <3>4
    <3>6. CASE Len(queue') = n + 1 /\ \A i \in 1 .. n : queue'[i] = queue[i]
      <4>1. \A j \in 1 .. (n + 1) - 1 : queue'[j] = queue[j]
        BY <3>1, <3>6
      <4>2. SignalAhead(queue', n + 1) = SignalAhead(queue, n + 1)
        BY <4>1 DEF SignalAhead
      <4> QED
        BY <3>5, <3>6, <4>2 DEF OnTime
    <3>7. CASE Len(queue') = n
      <4>1. Done + Len(collected) + n <= rolloutVersion * PerVersion + MaxRequired + 1 + SignalAhead(queue', n)
        BY <3>1, <3>2, <3>5
      <4> QED
        BY <3>7, <4>1 DEF OnTime
    <3> QED
      BY <2>2, <3>6, <3>7 DEF PutFacts
  <2> QED
    BY <1>3, <2>1, <2>2, <2>3
<1>5. CASE CloseStream
  <2>1. UNCHANGED <<collected, stopped, version, localStep>> /\ PutFacts(None)
    BY <1>5, PutEffect DEF CloseStream
  <2> QED
    BY <1>3, <2>1
<1>6. CASE Collect
  <2>1. ~stopped /\ UNCHANGED <<stopped, version, localStep>> /\ Head(queue).sample # None
    BY <1>6 DEF Collect, Control
  <2>2. Done' = Done
    BY <2>1 DEF Done
  <2>3. /\ Len(queue) \in Nat \ {0} /\ 1 \in DOMAIN queue /\ Head(queue) = queue[1]
        /\ Len(queue') = Len(queue) - 1 /\ \A i \in 1 .. Len(queue) - 1 : queue'[i] = queue[i + 1]
    BY <1>6, TakeEffect DEF Collect
  <2>4. /\ Len(collected) \in Nat /\ Len(collected') = Len(collected) + 1
        /\ \A i \in 1 .. Len(collected) : collected'[i] = collected[i]
        /\ collected'[Len(collected) + 1] = queue[1]
        /\ DOMAIN collected' = 1 .. Len(collected) + 1
    <3> DEFINE E == [sample : Samples, version : Nat]
    <3>1. Head(queue) \in E
      BY <1>6, <2>1, TakeEffect DEF Collect, Entry
    <3>2. collected \in Seq(E) /\ collected' = Append(collected, Head(queue))
      BY <1>6, Lists DEF Collect
    <3> HIDE DEF E
    <3>3. /\ collected' \in Seq(E) /\ Len(collected') = Len(collected) + 1
          /\ \A i \in 1 .. Len(collected) : collected'[i] = collected[i]
          /\ collected'[Len(collected) + 1] = Head(queue)
      BY <3>1, <3>2, AppendProperties
    <3> QED
      BY <2>3, <3>3, Lists, LenProperties
  <2>5. ASSUME NEW i \in DOMAIN queue', queue'[i].sample # None
        PROVE  OnTime(Done + (Len(collected) + 1) + i, queue'[i].version, SignalAhead(queue', i))
    <3>1. i \in 1 .. Len(queue) - 1 /\ i + 1 \in DOMAIN queue /\ queue'[i] = queue[i + 1]
      BY <1>1, <1>2, <2>3
    <3>2. OnTime(Done + Len(collected) + (i + 1), queue[i + 1].version, SignalAhead(queue, i + 1))
      BY <2>1, <2>5, <3>1 DEF InOrder
    <3>3. Done + Len(collected) + (i + 1) = Done + (Len(collected) + 1) + i
      BY <2>4, <3>1, PlaceNat
    <3>4. SignalAhead(queue, i + 1) = SignalAhead(queue', i)
      <4>1. ASSUME NEW j \in 1 .. (i + 1) - 1, queue[j].sample = None
            PROVE  \E k \in 1 .. i - 1 : queue'[k].sample = None
        <5>1. j # 1
          BY <2>1, <2>3, <4>1
        <5>2. j - 1 \in 1 .. i - 1 /\ j - 1 \in 1 .. Len(queue) - 1 /\ (j - 1) + 1 = j
          BY <2>3, <3>1, <5>1
        <5> QED
          BY <2>3, <4>1, <5>2
      <4>2. ASSUME NEW k \in 1 .. i - 1, queue'[k].sample = None
            PROVE  \E j \in 1 .. (i + 1) - 1 : queue[j].sample = None
        <5>1. k + 1 \in 1 .. (i + 1) - 1 /\ k \in 1 .. Len(queue) - 1
          BY <2>3, <3>1
        <5> QED
          BY <2>3, <4>2, <5>1
      <4> QED
        BY <4>1, <4>2 DEF SignalAhead
    <3> QED
      BY <3>1, <3>2, <3>3, <3>4
  <2>6. ASSUME NEW i \in DOMAIN collected' PROVE OnTime(Done + i, collected'[i].version, 0)
    <3>1. CASE i = Len(collected) + 1
      <4>1. OnTime(Done + Len(collected) + 1, queue[1].version, SignalAhead(queue, 1))
        BY <2>1, <2>3 DEF InOrder
      <4>2. SignalAhead(queue, 1) = 0
        BY DEF SignalAhead
      <4>3. Done + Len(collected) + 1 = Done + i
        BY <2>4, <3>1, PlaceNat
      <4> QED
        BY <2>4, <3>1, <4>1, <4>2, <4>3
    <3>2. CASE i # Len(collected) + 1
      <4>1. i \in 1 .. Len(collected)
        BY <2>4, <3>2
      <4> QED
        BY <1>1, <2>4, <4>1 DEF InOrder
    <3> QED
      BY <3>1, <3>2
  <2> QED
    BY <2>2, <2>4, <2>5, <2>6 DEF InOrder
<1>7. CASE CollectEnd
  <2>1. stopped' /\ collected' = <<>>
    BY <1>7 DEF CollectEnd
  <2> QED
    BY <2>1 DEF InOrder
<1>8. CASE TrainStep
  <2>1. UNCHANGED <<queue, stopped>> /\ collected' = <<>> /\ Len(collected) = Required
    BY <1>8 DEF TrainStep, Control
  <2>2. Done' = Done + Required
    BY <1>8, DoneStep
  <2>3. ASSUME NEW i \in DOMAIN queue PROVE Done' + Len(collected') + i = Done + Len(collected) + i
    <3>1. (Done + Required) + 0 + i = Done + Required + i
      BY <1>1, PlaceNat
    <3> QED
      BY <2>1, <2>2, <3>1
  <2> QED
    BY <2>1, <2>3 DEF InOrder
<1>9. ASSUME UNCHANGED <<queue, collected, stopped>>, ~TrainStep PROVE InOrder'
  BY <1>9, DoneStep DEF InOrder
<1>10. CASE Quiet /\ ~CollectEnd
  <2>1. UNCHANGED <<queue, collected>>
    BY <1>10 DEF Quiet
  <2>2. UNCHANGED stopped
    BY <1>10 DEF Next, Processor, Monitor, Trainer, Over, vars, AskStatistics, DecideToPause, Pause, DrainReap,
           DrainResume, TakeSample, TakeEnd, FullReap, Submit, EndReap, CloseStream, Finish, Fail, MonitorAsk,
           MonitorDecide, MonitorResume, Collect, TrainStep, UpdateWeights, ResetBegin, ResetEnd, Save
  <2> QED
    BY <1>8, <1>9, <2>1, <2>2
<1>11. CASE TakeSample \/ Submit \/ \E s \in Samples : Fail(s)
  <2>1. UNCHANGED <<queue, collected, stopped>>
    BY <1>11 DEF TakeSample, Submit, Fail
  <2> QED
    BY <1>8, <1>9, <2>1
<1> QED
  BY <1>4, <1>5, <1>6, <1>7, <1>8, <1>10, <1>11, StepKinds

-----------------------------------------------------------------------------
(* Nothing is lost silently *)

\* Sets that only grow, and the end that only comes.
LEMMA Grow ==
    ASSUME TypeOK, Control, Places, [Next]_vars
    PROVE  /\ failed \subseteq failed' /\ dropped \subseteq dropped' /\ Trained \subseteq Trained'
           /\ stopped => stopped'
           /\ stopped' /\ ~stopped => CollectEnd
<1>1. Moves
  BY MovesStep
<1>2. failed \subseteq failed'
  BY <1>1 DEF Moves, Quiet
<1>3. dropped \subseteq dropped'
  BY <1>1 DEF Moves, Quiet, Drops
<1>4. Trained \subseteq Trained'
  BY <1>1 DEF Moves
<1>5. stopped' = stopped \/ (CollectEnd /\ stopped')
  BY DEF Next, Processor, Monitor, Trainer, Over, vars, AskStatistics, DecideToPause, Pause, DrainReap,
         DrainResume, TakeSample, TakeEnd, FullReap, Submit, EndReap, CloseStream, Finish, Fail, MonitorAsk,
         MonitorDecide, MonitorResume, Collect, CollectEnd, TrainStep, UpdateWeights, ResetBegin, ResetEnd, Save
<1> QED
  BY <1>2, <1>3, <1>4, <1>5

\* The processor comes to its end with every sample taken and generated, unless a generation has failed.
LEMMA CloseStep ==
    ASSUME TypeOK, Control, Places, Complete, [Next]_vars, failed' = {}, pc' \in {"closing", "closed"}
    PROVE  taken' = Total /\ hand' = None /\ running' = {}
<1>1. failed = {}
  BY Grow
<1>2. pc \in {"closing", "closed"} => taken = Total /\ hand = None /\ running = {}
  BY <1>1 DEF Complete
<1>3. CASE TakeEnd \/ EndReap
  BY <1>1, <1>3 DEF TakeEnd, EndReap, Reap, Control, active
<1>4. CASE DrainReap \/ FullReap
  BY <1>1, <1>4 DEF DrainReap, FullReap, Reap
<1>5. ASSUME NEW s \in Samples, Finish(s) \/ Fail(s) PROVE FALSE
  BY <1>2, <1>5 DEF Finish, Fail
<1>6. CASE AskStatistics \/ DecideToPause \/ Pause \/ DrainResume \/ TakeSample \/ Submit
  BY <1>6 DEF AskStatistics, DecideToPause, Pause, DrainResume, TakeSample, Submit
<1>7. CASE CloseStream \/ Monitor \/ Trainer \/ Over \/ UNCHANGED vars
  BY <1>2, <1>7 DEF CloseStream, Monitor, MonitorAsk, MonitorDecide, MonitorResume, Trainer, Collect, CollectEnd,
     TrainStep, UpdateWeights, ResetBegin, ResetEnd, Save, Over, vars
<1> QED
  BY <1>3, <1>4, <1>5, <1>6, <1>7 DEF Next, Processor

\* The end signal stays last.
LEMMA SignalStep ==
    ASSUME TypeOK, Control, Places, Complete, [Next]_vars, failed' = {},
           NEW i \in DOMAIN queue', queue'[i].sample = None
    PROVE  i = Len(queue')
<1>1. failed = {}
  BY Grow
<1>2. /\ \A j \in DOMAIN queue : queue[j].sample = None => j = Len(queue)
      /\ pc = "closed" => running = {}
  BY <1>1 DEF Complete
<1>3. DOMAIN queue = 1 .. Len(queue) /\ Len(queue) \in Nat
  BY Lists
<1>4. DOMAIN queue' = 1 .. Len(queue') /\ Len(queue') \in Nat
  BY TypeStep, LenProperties DEF TypeOK
<1>5. ASSUME NEW sample, PutFacts(sample), pc # "closed" PROVE i = Len(queue')
  <2>1. \A j \in 1 .. Len(queue) : queue[j].sample # None
    BY <1>3, <1>5 DEF Control
  <2>2. CASE i # Len(queue')
    <3>1. \E j \in 1 .. Len(queue) : queue'[i] = queue[j]
      <4>1. CASE Len(queue') = Len(queue) + 1 /\ \A j \in 1 .. Len(queue) : queue'[j] = queue[j]
        BY <1>3, <1>4, <2>2, <4>1
      <4>2. CASE Len(queue') = Len(queue) /\ \A j \in 1 .. Len(queue) - 1 : queue'[j] = queue[j + 1]
        <5>1. i \in 1 .. Len(queue) - 1 /\ i + 1 \in 1 .. Len(queue)
          BY <1>3, <1>4, <2>2, <4>2
        <5> QED
          BY <4>2, <5>1
      <4> QED
        BY <1>5, <4>1, <4>2 DEF PutFacts
    <3> QED
      BY <2>1, <3>1
  <2> QED
    BY <2>2
<1>6. ASSUME NEW s \in Samples, Finish(s) PROVE i = Len(queue')
  BY <1>2, <1>5, <1>6, PutEffect DEF Finish
<1>7. CASE CloseStream
  BY <1>5, <1>7, PutEffect DEF CloseStream
<1>8. CASE Collect \/ CollectEnd
  <2>1. /\ Len(queue) \in Nat \ {0} /\ Len(queue') = Len(queue) - 1
        /\ \A j \in 1 .. Len(queue) - 1 : queue'[j] = queue[j + 1]
    BY <1>8, TakeEffect DEF Collect, CollectEnd
  <2>2. i \in 1 .. Len(queue) - 1 /\ i + 1 \in DOMAIN queue /\ queue'[i] = queue[i + 1]
    BY <1>3, <1>4, <2>1
  <2>3. i + 1 = Len(queue)
    BY <1>2, <2>2
  <2>4. i = Len(queue) - 1
    BY <1>3, <2>2, <2>3
  <2> QED
    BY <2>1, <2>4
<1>9. CASE UNCHANGED queue
  BY <1>2, <1>9
<1> QED
  BY <1>6, <1>7, <1>8, <1>9, StepKinds DEF Quiet, TakeSample, Submit, Fail, TrainStep, queueVars

LEMMA CompleteStep ==
    ASSUME TypeOK, Control, Places, Complete, [Next]_vars
    PROVE  Complete'
<1>1. Moves
  BY MovesStep
<1>2. ASSUME ~stopped' PROVE 1 .. taken' \subseteq Flight' \union failed' \union dropped' \union Trained'
  <2>1. 1 .. taken \subseteq Flight \union failed \union dropped \union Trained /\ ~CollectEnd
    BY <1>2, Grow DEF Complete, CollectEnd
  <2>2. Flight = InHand \union running \union Queued \union Gathered /\ taken \in Nat
    BY FlightSets DEF TypeOK
  <2>3. Flight' = InHand' \union running' \union Queued' \union Gathered'
    BY DEF Flight, Outstanding, InHand
  <2>4. 1 .. taken + 1 = (1 .. taken) \union {taken + 1}
    BY <2>2
  <2> QED
    BY <1>1, <2>1, <2>2, <2>3, <2>4 DEF Moves, Quiet, Drops
<1>3. ASSUME failed' = {}, stopped' PROVE Cardinality(Samples \ (dropped' \union Trained')) < Required
  <2>1. failed = {} /\ dropped \subseteq dropped' /\ Trained \subseteq Trained'
    BY <1>3, Grow
  <2>2. CASE stopped
    <3>1. Cardinality(Samples \ (dropped \union Trained)) < Required
      BY <2>1, <2>2 DEF Complete
    <3>2. /\ IsFiniteSet(Samples \ (dropped \union Trained))
          /\ Samples \ (dropped' \union Trained') \subseteq Samples \ (dropped \union Trained)
      BY <2>1, Finite
    <3> QED
      BY <3>1, <3>2, FS_Subset, FS_CardinalityType
  <2>3. CASE ~stopped
    <3>1. CollectEnd
      BY <1>3, <2>3, Grow
    <3>2. /\ queue # <<>> /\ Head(queue).sample = None /\ Len(collected) < Required
          /\ dropped' = dropped /\ Trained' = Trained
      BY <3>1 DEF CollectEnd, Control, Trained
    <3>3. Head(queue) = queue[1] /\ 1 \in DOMAIN queue /\ Len(queue) \in Nat \ {0} /\ DOMAIN queue = 1 .. Len(queue)
      BY <3>1, TakeEffect, Lists DEF CollectEnd
    <3>4. Len(queue) = 1
      BY <2>1, <3>2, <3>3 DEF Complete
    <3>5. Queued = {}
      BY <3>2, <3>3, <3>4 DEF Queued
    <3>6. pc = "closed"
      BY <3>2, <3>3 DEF Control
    <3>7. taken = Total /\ InHand = {} /\ running = {}
      BY <2>1, <3>6 DEF Complete, InHand
    <3>8. Flight = Gathered
      BY <3>5, <3>7, FlightSets
    <3>9. Samples \ (dropped \union Trained) \subseteq Gathered
      BY <2>1, <2>3, <3>7, <3>8 DEF Complete, Samples
    <3>10. IsFiniteSet(Gathered) /\ Cardinality(Gathered) = Len(collected)
      <4>1. collected \in Seq([sample : Samples, version : Nat]) /\ Once(collected)
        BY Lists DEF Places, Once
      <4> QED
        BY <4>1, Lists, OnceCardinality
    <3>11. Cardinality(Samples \ (dropped \union Trained)) <= Len(collected)
      BY <3>9, <3>10, FS_Subset
    <3>12. Cardinality(Samples \ (dropped \union Trained)) \in Nat
      BY Finite
    <3> QED
      BY <3>2, <3>11, <3>12, Lists
  <2> QED
    BY <2>2, <2>3
<1> QED
  BY <1>2, <1>3, CloseStep, SignalStep DEF Complete

-----------------------------------------------------------------------------
(* The theorems *)

LEMMA InitInv == Init => Inv
<1> SUFFICES ASSUME Init PROVE Inv
  OBVIOUS
<1>1. TypeOK
  <2>1. lock \in Seq(LockUsers) /\ queue \in Seq(Entry) /\ collected \in Seq([sample : Samples, version : Nat])
    BY DEF Init
  <2>2. Len(queue) <= MaxQueue /\ Len(queue) = 0
    BY Sizes DEF Init
  <2>3. localStep \in 1 .. Trigger /\ taken \in 0 .. Total
    BY DEF Init
  <2>4. /\ version \in Nat /\ rolloutVersion \in 0 .. version /\ savedVersion \in 0 .. version /\ savedSteps \in Nat
        /\ staleness \in Nat /\ counted \in Nat
    BY DEF Init
  <2>5. /\ hand \in Samples \union {None} /\ running \subseteq Samples /\ finished \subseteq Samples
        /\ failed \subseteq Samples /\ dropped \subseteq Samples \union {None} /\ running \intersect finished = {}
        /\ trained \subseteq SUBSET Samples
    BY DEF Init
  <2>6. /\ pc = "top" /\ monitor = "asleep" /\ tpc = "collect" /\ stopped \in BOOLEAN
        /\ sawFull \in BOOLEAN /\ monitorSawFull \in BOOLEAN /\ paused \in BOOLEAN /\ resume \in BOOLEAN
    BY DEF Init
  <2> QED
    BY <2>1, <2>2, <2>3, <2>4, <2>5, <2>6 DEF TypeOK, LockUsers, Entry
<1>2. Control
  BY DEF Init, Control
<1>3. Served
  BY DEF Init, Served
<1>4. InHand = {} /\ running = {} /\ Queued = {} /\ Gathered = {} /\ Trained = {} /\ Flight = {}
  BY DEF Init, InHand, Queued, Gathered, Trained, Flight, Outstanding
<1>5. Places
  BY <1>4 DEF Init, Places
<1>6. Since = 0
  BY DEF Init, Since
<1>7. Bounded
  BY <1>4, <1>6, FS_EmptySet, Sizes DEF Init, Bounded, Charged
<1>8. InOrder
  BY DEF Init, InOrder
<1>9. Complete
  BY DEF Init, Complete
<1>10. Recorded
  BY FS_EmptySet DEF Init, Recorded
<1> QED
  BY <1>1, <1>2, <1>3, <1>5, <1>7, <1>8, <1>9, <1>10 DEF Inv

LEMMA NextInv == Inv /\ [Next]_vars => Inv'
  BY TypeStep, ControlStep, ServedStep, PlacesStep, BoundedStep, InOrderStep, CompleteStep, RecordedStep DEF Inv

LEMMA Invariance == Spec => []Inv
  BY InitInv, NextInv, PTL DEF Spec

\* The types of all three parts, whatever the sizes.
THEOREM TypesKept == Spec => []TypeOK
<1>1. Inv => TypeOK
  BY DEF Inv
<1> QED
  BY <1>1, Invariance, PTL

LEMMA DivBound ==
    ASSUME NEW k \in Int, NEW a \in Nat, NEW b \in Nat \ {0}, k * b <= a
    PROVE  k <= a \div b
<1> DEFINE q == a \div b
<1>1. q \in Int /\ a < (q + 1) * b
  OBVIOUS
<1> HIDE DEF q
<1>2. ASSUME k >= q + 1 PROVE FALSE
  <2>1. k * b >= (q + 1) * b
    BY <1>1, <1>2
  <2>2. k * b \in Int /\ (q + 1) * b \in Int
    BY <1>1
  <2> QED
    BY <1>1, <2>1, <2>2
<1>3. k <= q
  BY <1>1, <1>2
<1> QED
  BY <1>3 DEF q

\* Freshness holds for any sizes: the place of a sample in the stream bounds the updates it waits for.
\* (async_training.staleness_threshold, reset_staleness, put_sample.)
THEOREM QueueAgeBounded == Spec => []QueueAge
<1>1. Inv => QueueAge
  <2> SUFFICES ASSUME Inv, NEW i \in DOMAIN collected
               PROVE  version - collected[i].version <= MaxRequired \div PerVersion
    BY DEF QueueAge
  <2> USE DEF Inv
  <2> DEFINE v == collected[i].version
  <2>1. v \in Nat /\ i \in Nat /\ i >= 1
    <3>1. collected \in Seq([sample : Samples, version : Nat]) /\ i \in 1 .. Len(collected) /\ Len(collected) \in Nat
      BY Lists
    <3>2. collected[i] \in [sample : Samples, version : Nat]
      BY <3>1, ElementOfSeq
    <3> QED
      BY <3>1, <3>2
  <2>2. Done + i <= v * PerVersion + MaxRequired + 1
    <3>1. OnTime(Done + i, v, 0)
      BY DEF InOrder
    <3>2. Done + i <= v * PerVersion + MaxRequired + 1 + 0
      BY <3>1 DEF OnTime
    <3>3. v * PerVersion \in Nat /\ MaxRequired \in Nat
      BY <2>1, Sizes
    <3> QED
      BY <3>2, <3>3
  <2> HIDE DEF v
  <2>3. version \in Nat /\ PerVersion \in Nat \ {0} /\ MaxRequired \in Nat /\ (localStep - 1) * Required \in Nat
    BY SinceFacts, Sizes DEF TypeOK
  <2>4. version * PerVersion \in Nat /\ v * PerVersion \in Nat
    BY <2>1, <2>3
  <2>5. version * PerVersion - v * PerVersion <= MaxRequired
    BY <2>1, <2>2, <2>3, <2>4 DEF Done
  <2>6. (version - v) * PerVersion = version * PerVersion - v * PerVersion
    BY <2>1, <2>3
  <2>7. (version - v) * PerVersion <= MaxRequired /\ version - v \in Int
    BY <2>1, <2>3, <2>5, <2>6
  <2>8. version - v <= MaxRequired \div PerVersion
    BY <2>3, <2>7, DivBound
  <2> QED
    BY <2>8 DEF v
<1> QED
  BY <1>1, Invariance, PTL

\* No sample of the dataset is overtaken by the end signal: at the end fewer than a step needs have been neither
\* trained on nor dropped, unless a generation has failed.
\* (_processor_worker, _streaming_generation_main, _get_samples_from_queue.)
THEOREM AllTrainedAtEnd == Spec => []TrainedAllAtEnd
<1>1. Inv => TrainedAllAtEnd
  <2> SUFFICES ASSUME Inv, tpc = "done", failed = {}
               PROVE  Total - Cardinality(UNION trained) - Cardinality(dropped) < Required
    BY DEF TrainedAllAtEnd
  <2> DEFINE rest == Samples \ (dropped \union Trained)
  <2>1. TypeOK /\ stopped
    BY DEF Inv, Control
  <2>2. Cardinality(rest) < Required
    BY <2>1 DEF Inv, Complete
  <2>3. IsFiniteSet(rest) /\ IsFiniteSet(Trained) /\ IsFiniteSet(Samples)
    <3>1. Trained \subseteq Samples
      BY <2>1, Lists
    <3> QED
      BY <2>1, <3>1, Finite
  <2>4. IsFiniteSet(dropped)
    <3>1. IsFiniteSet(Samples \union {None})
      BY <2>3, FS_AddElement
    <3> QED
      BY <2>1, <3>1, FS_Subset DEF TypeOK
  <2>5. Cardinality(Samples) = Total
    BY FS_Interval DEF Samples
  <2>6. /\ IsFiniteSet(rest \union Trained) /\ Cardinality(rest \union Trained) \in Nat
        /\ Cardinality(rest \union Trained) <= Cardinality(rest) + Cardinality(Trained)
        /\ Cardinality(rest) \in Nat /\ Cardinality(Trained) \in Nat
    BY <2>3, UnionBound
  <2>7. /\ IsFiniteSet((rest \union Trained) \union dropped)
        /\ Cardinality((rest \union Trained) \union dropped) \in Nat /\ Cardinality(dropped) \in Nat
        /\ Cardinality((rest \union Trained) \union dropped) <= Cardinality(rest \union Trained) + Cardinality(dropped)
    BY <2>4, <2>6, UnionBound
  <2>8. Samples \subseteq (rest \union Trained) \union dropped
    OBVIOUS
  <2>9. Cardinality(Samples) <= Cardinality((rest \union Trained) \union dropped)
    BY <2>7, <2>8, FS_Subset
  <2>10. Cardinality(UNION trained) = Cardinality(Trained)
    BY DEF Trained
  <2> HIDE DEF rest
  <2> QED
    BY <2>2, <2>5, <2>6, <2>7, <2>9, <2>10
<1> QED
  BY <1>1, Invariance, PTL

\* Training ends with its last version on the servers, and with less than a version's steps since the last checkpoint.
\* (fit, _fit_save_checkpoint.)
THEOREM SavedAtEnd == Spec => []EndsSaved
<1>1. Inv => EndsSaved
  <2> SUFFICES ASSUME Inv, tpc = "done"
               PROVE  rolloutVersion = version /\ Cardinality(trained) - savedSteps < Trigger
    BY DEF EndsSaved
  <2>1. TypeOK /\ Served /\ Recorded
    BY DEF Inv
  <2>2. rolloutVersion = version
    BY <2>1 DEF Served
  <2>3. version \in Nat /\ localStep \in 1 .. Trigger /\ savedSteps \in Nat
    BY <2>1 DEF TypeOK
  <2>4. Cardinality(trained) = version * Trigger + localStep - 1 /\ savedSteps >= version * Trigger
    BY <2>1 DEF Recorded
  <2>5. version * Trigger \in Nat
    BY <2>3
  <2> QED
    BY <2>2, <2>3, <2>4, <2>5
<1> QED
  BY <1>1, Invariance, PTL

-----------------------------------------------------------------------------
(* The stream of samples is what SampleStream promises *)

\* When a full queue drops a sample, MaxQueue of them are on their way.
LEMMA DropCrowded ==
    ASSUME TypeOK, Control, Places, [Next]_vars, CloseStream \/ \E s \in running : Finish(s),
           NEW lost \in SUBSET Queued, Drops(lost), lost # {}
    PROVE  /\ Cardinality(Flight) >= MaxQueue
           /\ \E x \in Flight : lost = {x}
<1>1. Len(queue) = MaxQueue /\ lost = {Head(queue).sample} \ {None}
  BY DEF Drops
<1>2. Head(queue).sample \in Flight /\ lost = {Head(queue).sample}
  BY <1>1, FlightSets
<1>3. Cardinality(Flight) \in Nat /\ MaxQueue \in Nat /\ IsFiniteSet(Flight)
  BY FlightSets, Sizes
<1>4. CASE CloseStream
  <2>1. None \notin MembersOf(queue)
    BY <1>4 DEF CloseStream, Control, MembersOf
  <2>2. queue \in Seq(Entry) /\ Queued = MembersOf(queue)
    BY <2>1, Lists
  <2>3. Once(queue)
    BY DEF Places, Once
  <2>4. Cardinality(Queued) = MaxQueue
    BY <1>1, <2>2, <2>3, OnceCardinality
  <2>5. Cardinality(Queued) <= Cardinality(Flight)
    BY <1>3, FlightSets, FS_Subset
  <2> QED
    BY <1>2, <1>3, <2>4, <2>5
<1>5. ASSUME NEW s \in running PROVE Cardinality(Flight) >= MaxQueue
  <2>1. Len(collected) + Len(queue) + 1 <= Cardinality(Flight) + SignalAhead(queue, Len(queue) + 1)
    BY WaitingFly
  <2>2. SignalAhead(queue, Len(queue) + 1) \in {0, 1} /\ Len(collected) \in Nat
    BY Lists DEF SignalAhead
  <2> QED
    BY <1>1, <1>3, <2>1, <2>2
<1> QED
  BY <1>2, <1>4, <1>5

LEMMA StreamCardinality == ASSUME NEW S PROVE Stream!Cardinality(S) = Cardinality(S)
  BY DEF Stream!Cardinality, Cardinality

LEMMA StreamStep ==
    ASSUME Inv, [Next]_vars
    PROVE  [Stream!Next]_(Stream!vars)
<1> USE DEF Inv
<1>1. Moves
  BY MovesStep
<1>2. /\ Flight = InHand \union running \union Queued \union Gathered
      /\ Flight' = InHand' \union running' \union Queued' \union Gathered'
  BY FlightSets DEF Flight, Outstanding, InHand
<1>3. UNCHANGED stopped \/ CollectEnd
  <2>1. stopped \in BOOLEAN /\ stopped' \in BOOLEAN
    BY TypeStep DEF TypeOK
  <2>2. (stopped => stopped') /\ (stopped' /\ ~stopped => CollectEnd)
    BY Grow
  <2> QED
    BY <2>1, <2>2
<1>4. Flight = Outstanding \union Gathered /\ Flight' = Outstanding' \union Gathered'
  BY DEF Flight
<1>5. ASSUME UNCHANGED <<taken, Flight, failed, trained, stopped>> PROVE [Stream!Next]_(Stream!vars)
  BY <1>4, <1>5 DEF Stream!vars
<1>6. ASSUME UNCHANGED <<taken, failed, trained, stopped>>, Cardinality(Flight) >= MaxQueue,
             NEW x \in Flight, Flight' = Flight \ {x}
      PROVE  [Stream!Next]_(Stream!vars)
  <2>1. Stream!PushOut
    BY <1>4, <1>6, StreamCardinality DEF Stream!PushOut
  <2> QED
    BY <2>1 DEF Stream!Next
<1>7. CASE Quiet /\ ~CollectEnd
  <2>1. UNCHANGED <<InHand, Queued, Gathered>>
    BY <1>7 DEF Quiet, InHand, Queued, Gathered
  <2> QED
    BY <1>2, <1>3, <1>5, <1>7, <2>1 DEF Quiet
<1>8. CASE TakeSample
  <2>1. UNCHANGED <<failed, trained, stopped>> /\ taken' = taken + 1 /\ staleness < MaxRequired
    BY <1>8, Sizes DEF TakeSample, ShouldPause, TypeOK
  <2>2. Flight' = Flight \union {taken'}
    BY <1>8, <2>1, FlightStep
  <2>3. Cardinality(Flight) < MaxRequired + 1
    <3>1. /\ Cardinality(Flight) \in Nat /\ Since \in Nat /\ MaxRequired \in Nat /\ staleness \in Nat
          /\ Cardinality(Flight) + Since <= staleness + 1
      BY FlightSets, SinceFacts, Sizes DEF Bounded, Charged, TypeOK
    <3> QED
      BY <2>1, <3>1
  <2>4. Stream!Take
    BY <1>4, <2>1, <2>2, <2>3, StreamCardinality DEF Stream!Take
  <2> QED
    BY <2>4 DEF Stream!Next
<1>9. CASE Submit
  <2>1. UNCHANGED <<taken, failed, trained, stopped>>
    BY <1>9 DEF Submit
  <2>2. InHand = {hand} /\ InHand' = {} /\ running' = running \union {hand} /\ UNCHANGED <<Queued, Gathered>>
    BY <1>9 DEF Submit, Control, InHand, Queued, Gathered
  <2> QED
    BY <1>2, <1>5, <2>1, <2>2
<1>10. CASE CloseStream
  <2>1. UNCHANGED <<taken, hand, running, failed, collected, trained, stopped>> /\ Put(None)
    BY <1>10 DEF CloseStream
  <2>2. UNCHANGED <<InHand, Gathered>> /\ Once(queue)
    BY <2>1 DEF InHand, Gathered, Places, Once
  <2>3. PICK lost \in SUBSET Queued : Drops(lost) /\ Queued' = (Queued \ lost) \union ({None} \ {None})
    BY <2>1, <2>2, PutDrops
  <2>4. Flight' = Flight \ lost
    BY <1>2, <2>1, <2>2, <2>3 DEF Places
  <2>5. CASE lost = {}
    BY <1>5, <2>1, <2>4, <2>5
  <2>6. CASE lost # {}
    BY <1>6, <1>10, <2>1, <2>3, <2>4, <2>6, DropCrowded
  <2> QED
    BY <2>5, <2>6
<1>11. ASSUME NEW s \in Samples, Finish(s) PROVE [Stream!Next]_(Stream!vars)
  <2>1. /\ UNCHANGED <<taken, hand, failed, collected, trained, stopped>> /\ Put(s)
        /\ s \in running /\ running' = running \ {s} /\ s # None
    BY <1>11, Sizes DEF Finish
  <2>2. UNCHANGED <<InHand, Gathered>> /\ Once(queue)
    BY <2>1 DEF InHand, Gathered, Places, Once
  <2>3. PICK lost \in SUBSET Queued : Drops(lost) /\ Queued' = (Queued \ lost) \union ({s} \ {None})
    BY <2>1, <2>2, PutDrops
  <2>4. Flight' = Flight \ lost
    BY <1>2, <2>1, <2>2, <2>3 DEF Places
  <2>5. CASE lost = {}
    BY <1>5, <2>1, <2>4, <2>5
  <2>6. CASE lost # {}
    BY <1>6, <1>11, <2>1, <2>3, <2>4, <2>6, DropCrowded
  <2> QED
    BY <2>5, <2>6
<1>12. ASSUME NEW s \in Samples, Fail(s) PROVE [Stream!Next]_(Stream!vars)
  <2>1. /\ UNCHANGED <<taken, hand, queue, collected, trained, stopped>> /\ failed' = failed \union {s}
        /\ s \in running /\ running' = running \ {s} /\ Cardinality(failed) < MaxFailures
    BY <1>12 DEF Fail
  <2>2. UNCHANGED <<InHand, Queued, Gathered>>
    BY <2>1 DEF InHand, Queued, Gathered
  <2>3. s \in Flight /\ Flight' = Flight \ {s}
    BY <1>2, <2>1, <2>2 DEF Places
  <2> QED
    <3>1. Stream!Fail
      BY <1>4, <2>1, <2>3, StreamCardinality DEF Stream!Fail
    <3> QED
      BY <3>1 DEF Stream!Next
<1>13. CASE Collect
  <2>1. UNCHANGED <<taken, hand, running, failed, trained, stopped>>
    BY <1>13 DEF Collect
  <2>2. \E s \in Queued : Queued' = Queued \ {s} /\ Gathered' = Gathered \union {s} /\ UNCHANGED InHand
    <3>1. queue # <<>> /\ queue' = Tail(queue) /\ collected' = Append(collected, Head(queue)) /\ Head(queue).sample # None
      BY <1>13 DEF Collect
    <3>2. Queued' = Queued \ {Head(queue).sample} /\ Head(queue).sample \in Queued /\ Head(queue) \in Entry
      BY <3>1, TakeEffect, Lists DEF Places, Once
    <3>3. MembersOf(collected') = MembersOf(collected) \union {Head(queue).sample}
      <4> DEFINE E == [sample : Samples, version : Nat]
      <4>1. collected \in Seq(E) /\ Head(queue) \in E
        BY <3>1, <3>2, Lists DEF Entry
      <4> HIDE DEF E
      <4> QED
        BY <3>1, <4>1, AppendMembers
    <3>4. Gathered' = Gathered \union {Head(queue).sample} /\ UNCHANGED InHand
      BY <2>1, <3>3 DEF Gathered, MembersOf, InHand
    <3> QED
      BY <3>2, <3>4
  <2>3. Flight' = Flight
    BY <1>2, <2>1, <2>2
  <2> QED
    BY <1>5, <2>1, <2>3
<1>14. CASE CollectEnd
  <2>1. UNCHANGED <<taken, hand, running, failed, trained>> /\ stopped' = TRUE /\ collected' = <<>>
    BY <1>14 DEF CollectEnd
  <2>2. queue # <<>> /\ queue' = Tail(queue) /\ Head(queue).sample = None /\ Len(collected) < Required
    BY <1>14 DEF CollectEnd, Control
  <2>3. Queued' = Queued
    BY <2>2, TakeEffect, Lists DEF Places, Once
  <2>4. Gathered' = {} /\ UNCHANGED InHand
    BY <2>1 DEF Gathered, InHand
  <2>5. Flight' = Flight \ Gathered /\ Gathered \subseteq Flight
    BY <1>2, <2>1, <2>3, <2>4 DEF Places
  <2>6. Flight \ Flight' = Gathered
    BY <2>5
  <2>7. Cardinality(Gathered) = Len(collected)
    <3>1. collected \in Seq([sample : Samples, version : Nat]) /\ Once(collected)
      BY Lists DEF Places, Once
    <3> QED
      BY <3>1, Lists, OnceCardinality
  <2>8. Cardinality(Flight \ Flight') < Required /\ Flight' \subseteq Flight
    BY <2>2, <2>5, <2>6, <2>7
  <2> QED
    <3>1. Stream!Close
      BY <1>4, <2>1, <2>8, StreamCardinality DEF Stream!Close
    <3> QED
      BY <3>1 DEF Stream!Next
<1>15. CASE TrainStep
  <2>1. UNCHANGED <<taken, failed, stopped>> /\ ~stopped
    BY <1>15 DEF TrainStep, Control
  <2>2. Gathered \subseteq Flight /\ Cardinality(Gathered) = Required /\ Flight' = Flight \ Gathered
    BY <1>15, FlightStep
  <2>3. trained' = trained \union {Gathered}
    BY <1>15, NewBatch
  <2> QED
    <3>1. Stream!Train
      BY <1>4, <2>1, <2>2, <2>3, StreamCardinality DEF Stream!Train
    <3> QED
      BY <3>1 DEF Stream!Next
<1> QED
  BY <1>7, <1>8, <1>9, <1>10, <1>11, <1>12, <1>13, <1>14, <1>15, StepKinds

\* Rollouter, queue and trainer together implement the stream: samples in order, MaxRequired + 1 on their way at most,
\* each trained on at most once in full batches, none lost but by failure, overflow or the end.
THEOREM StreamImplemented == Spec => StreamKept
<1>1. Init => Stream!Init
  BY DEF Init, Stream!Init, Outstanding, Queued, Gathered
<1>2. Inv /\ [Next]_vars => [Stream!Next]_(Stream!vars)
  BY StreamStep
<1> QED
  BY <1>1, <1>2, Invariance, PTL DEF Spec, StreamKept, Stream!Spec

=============================================================================
