------------------------- MODULE ReplayQueueProofs -------------------------
(***************************************************************************)
(* Proofs about ReplayQueue, for any numbers of steps, prompts, sessions,  *)
(* outputs and failures.                                                   *)
(*                                                                         *)
(* Rounds are ordered, and everything the buffer, the workers and the      *)
(* queue hold is of the driver's round or an earlier one: so a new round   *)
(* begins with prompts nobody has heard of (Working, Keyed).  Whole then   *)
(* follows the trajectories of a round from the queue through a reply of   *)
(* the poll to the buffer and the sampled batch.  It needs the rounds that *)
(* share a partition and a global step to be one round, that is, one batch *)
(* per validation; with two the run replay_queue_many_val refutes it.      *)
(***************************************************************************)
EXTENDS ReplayQueue, TLAPS

USE QueueAssumption

\* The order of the rounds.
KindRank(kind) == IF kind = "train" THEN 0 ELSE IF kind = "val" THEN 1 ELSE 2
Before(r, s) ==
    \/ r.step < s.step
    \/ r.step = s.step /\ KindRank(r.kind) < KindRank(s.kind)
    \/ r.step = s.step /\ r.kind = s.kind /\ r.part < s.part

\* A prompt the workers may have heard of, and one the buffer may have.
Known(uid) ==
    /\ uid.round \in Rounds
    /\ Before(uid.round, at) \/ (uid.round = at /\ pc \notin {"generate", "dispatch"})
Marked(uid) ==
    /\ uid.round \in Rounds
    /\ Before(uid.round, at) \/ (uid.round = at /\ pc # "generate")

\* Where the driver is.
Driving ==
    /\ at \in Rounds
    /\ pc \in {"generate", "dispatch", "sample", "sampled", "baselines", "pad", "update", "clear", "remove", "over",
               "error"}
    /\ at.kind = "cleanup" => at.part = 1
    /\ pc \in {"generate", "dispatch", "sample", "sampled", "baselines", "pad", "update"} => at.kind # "cleanup"
    /\ pc \in {"baselines", "pad", "update"} => at.kind = "train"

\* Prompts and sessions.  A reply tells of no end that has not come.
Working ==
    /\ \A uid \in open \union ended \union raised : uid \in Uids(uid.round) /\ Known(uid)
    /\ \A uid \in running : uid \in Uids(uid.round) /\ Marked(uid)
    /\ pc = "dispatch" => Uids(at) \subseteq running
    /\ open \subseteq running \ ended
    /\ \A task \in generating :
          task = <<task[1], task[2]>> /\ task[2] \in Sessions(task[1]) /\ task[1] \in open \union raised
    /\ snapshot # <<>> => snapshot = <<snapshot[1]>> /\ snapshot[1].ended \subseteq ended

\* Trajectories: in the queue, in a reply, in the buffer, in the driver's hands.
Replied == IF snapshot = <<>> THEN {} ELSE snapshot[1].stored
Keyed ==
    /\ \A key \in buffer \union stored \union Replied : IsKey(key) /\ Known(key.uid)
    /\ DOMAIN batch = Partitions
    /\ \A p \in Partitions : \A key \in batch[p] : IsKey(key) /\ PartitionOf(key) = p

Waiting == pc \in {"generate", "dispatch", "sample", "sampled"}

\* What is known of a trajectory of the round is in the queue until it is
\* cleared.
Uncleared ==
    Waiting => \A key \in buffer \union stored \union Replied :
                  key.uid.round = at => key \in stored /\ key.uid \in Uids(at)

\* What a prompt that ended well has put is in the reply that tells its end, is
\* in the buffer when that has been merged, and is sampled.
EndedOver == \A uid \in ended \ raised : \A task \in generating : task[1] # uid
RepliedWhole ==
    snapshot # <<>> => \A uid \in snapshot[1].ended \ raised : \A key \in stored : key.uid = uid => key \in Replied
BufferWhole ==
    pc \in {"sample", "sampled"} =>
        \A uid \in Uids(at) \ (running \union raised) :
            uid \in ended /\ \A key \in stored : key.uid = uid => key \in buffer
SampledWhole ==
    pc = "sampled" =>
        /\ \A key \in InHand : key \in stored /\ key.uid \in Uids(at)
        /\ \A uid \in Uids(at) \ raised : uid \in ended /\ \A key \in stored : key.uid = uid => key \in InHand

Whole == Uncleared /\ EndedOver /\ RepliedWhole /\ BufferWhole /\ SampledWhole

-----------------------------------------------------------------------------
(* Rounds and prompts                                                      *)

LEMMA BeforeTransitive ==
    ASSUME NEW r \in Rounds, NEW s \in Rounds, NEW t \in Rounds, Before(r, s), Before(s, t)
    PROVE  Before(r, t)
<1>1. \A u \in Rounds : u.step \in Nat /\ u.part \in Nat /\ KindRank(u.kind) \in Nat
  BY DEF Rounds, Kinds, KindRank
<1> QED
  BY <1>1 DEF Before

LEMMA BeforeIrreflexive == \A r \in Rounds : ~Before(r, r)
<1>1. \A u \in Rounds : u.step \in Nat /\ u.part \in Nat /\ KindRank(u.kind) \in Nat
  BY DEF Rounds, Kinds, KindRank
<1> QED
  BY <1>1 DEF Before

LEMMA FollowingLater ==
    ASSUME NEW r \in Rounds, r # LastRound, r.kind = "cleanup" => r.part = 1
    PROVE  /\ Following(r) \in Rounds /\ Before(r, Following(r))
           /\ Following(r).kind = "cleanup" => Following(r).part = 1
<1>0. /\ r.kind \in Kinds /\ r.step \in 0 .. Steps /\ r.part \in 1 .. ValBatches
      /\ r = Round(r.kind, r.step, r.part)
  BY DEF Rounds, Round
<1>1. \A kind \in Kinds, step \in 0 .. Steps, part \in 1 .. ValBatches :
         /\ Round(kind, step, part) \in Rounds
         /\ Round(kind, step, part).kind = kind /\ Round(kind, step, part).step = step
         /\ Round(kind, step, part).part = part
  BY DEF Rounds, Round
<1>2. 1 \in 1 .. ValBatches /\ "val" \in Kinds /\ "train" \in Kinds /\ "cleanup" \in Kinds
  BY DEF Kinds
<1>3. KindRank("train") = 0 /\ KindRank("val") = 1 /\ KindRank("cleanup") = 2
  BY DEF KindRank
<1>4. CASE r.kind = "val" /\ r.part < ValBatches
  <2>1. Following(r) = Round("val", r.step, r.part + 1) /\ r.part + 1 \in 1 .. ValBatches
    BY <1>0, <1>4 DEF Following
  <2> QED
    BY <1>0, <1>1, <1>2, <1>4, <2>1 DEF Before
<1>5. CASE r.kind = "train" /\ ValidatedAfter(r.step)
  <2>1. Following(r) = Round("val", r.step, 1)
    BY <1>5 DEF Following
  <2> QED
    BY <1>0, <1>1, <1>2, <1>3, <1>5, <2>1 DEF Before
<1>6. CASE r.kind = "cleanup" \/ (r.step = 0 /\ ~(r.kind = "val" /\ r.part < ValBatches)
                                  /\ ~(r.kind = "train" /\ ValidatedAfter(r.step)))
  <2>1. Following(r) = Round("train", r.step + 1, 1)
    BY <1>6 DEF Following
  <2>2. r.step # Steps
    BY <1>0, <1>6 DEF LastRound
  <2>3. r.step + 1 \in 0 .. Steps /\ r.step < r.step + 1
    BY <1>0, <2>2
  <2> QED
    BY <1>0, <1>1, <1>2, <2>1, <2>3 DEF Before
<1>7. CASE /\ ~(r.kind = "val" /\ r.part < ValBatches) /\ ~(r.kind = "train" /\ ValidatedAfter(r.step))
           /\ r.kind # "cleanup" /\ r.step # 0
  <2>1. Following(r) = Round("cleanup", r.step, 1)
    BY <1>7 DEF Following
  <2>2. KindRank(r.kind) < 2
    BY <1>0, <1>7, <1>3 DEF Kinds
  <2> QED
    BY <1>0, <1>1, <1>2, <1>3, <2>1, <2>2 DEF Before
<1> QED
  BY <1>4, <1>5, <1>6, <1>7

\* The prompts of a round carry it; padding is not one of them.
LEMMA UidsOf == \A r : \A uid \in Uids(r) : uid.round = r /\ uid.prompt # 0
  BY DEF Uids, Uid

-----------------------------------------------------------------------------
(* The driver's place                                                      *)

LEMMA PlaceMoves ==
    ASSUME Driving, [Next]_vars
    PROVE  /\ remax' = remax /\ Driving'
           /\ \/ at' = at /\ (pc' = pc \/ pc' \notin {"generate", "dispatch"} \/ (pc' = "dispatch" /\ pc = "generate"))
              \/ /\ at' \in Rounds /\ Before(at, at') /\ pc' \in {"generate", "clear"}
                 /\ pc \in {"update", "remove"}
<1>1. ASSUME NextRound, pc \in {"update", "remove"}
      PROVE  /\ Driving'
             /\ \/ at' = at /\ pc' = "over"
                \/ at' \in Rounds /\ Before(at, at') /\ pc' \in {"generate", "clear"}
  <2>1. CASE at = LastRound
    BY <1>1, <2>1 DEF NextRound, Driving
  <2>2. CASE at # LastRound
    <3>1. /\ Following(at) \in Rounds /\ Before(at, Following(at))
          /\ Following(at).kind = "cleanup" => Following(at).part = 1
      BY <2>2, FollowingLater DEF Driving
    <3>2. at' = Following(at) /\ pc' = IF Following(at).kind = "cleanup" THEN "clear" ELSE "generate"
      BY <1>1, <2>2 DEF NextRound
    <3> QED
      BY <3>1, <3>2 DEF Driving
  <2> QED
    BY <2>1, <2>2
<1>2. CASE MarkRunning
  BY <1>2 DEF MarkRunning, Driving
<1>3. CASE Dispatch
  BY <1>3 DEF Dispatch, Driving
<1>4. CASE Sample
  BY <1>4 DEF Sample, Driving
<1>5. CASE Score
  BY <1>5 DEF Score, Driving, Kind
<1>6. CASE TakeBaselines
  BY <1>6 DEF TakeBaselines, Driving, Kind
<1>7. CASE RemoveBaselines
  BY <1>7 DEF RemoveBaselines, Driving
<1>8. CASE Pad
  BY <1>8 DEF Pad, Driving, Kind
<1>9. CASE Update
  BY <1>1, <1>9 DEF Update
<1>10. CASE ClearQueue
  BY <1>10 DEF ClearQueue, Driving
<1>11. CASE RemoveFromBuffer
  BY <1>1, <1>11 DEF RemoveFromBuffer
<1>12. CASE Poller \/ Workers \/ Failure \/ UNCHANGED vars
  <2>1. UNCHANGED <<remax, at, pc>>
    BY <1>12 DEF Poller, Poll, Merge, Workers, EndPrompt, PutOutputs, Failure, Raise, vars, driverVars
  <2> QED
    BY <2>1 DEF Driving
<1> QED
  BY <1>2, <1>3, <1>4, <1>5, <1>6, <1>7, <1>8, <1>9, <1>10, <1>11, <1>12 DEF Next, Driver, Stopped

\* What is known stays known.
LEMMA KnownKept ==
    ASSUME Driving, [Next]_vars
    PROVE  \A uid : (Known(uid) => Known(uid)') /\ (Marked(uid) => Marked(uid)') /\ (Known(uid) => Marked(uid))
<1> TAKE uid
<1>1. at \in Rounds
  BY DEF Driving
<1>2. CASE at' = at /\ (pc' = pc \/ pc' \notin {"generate", "dispatch"} \/ (pc' = "dispatch" /\ pc = "generate"))
  BY <1>2 DEF Known, Marked
<1>3. CASE at' \in Rounds /\ Before(at, at')
  <2>1. uid.round \in Rounds /\ (Before(uid.round, at) \/ uid.round = at) => Before(uid.round, at')
    BY <1>1, <1>3, BeforeTransitive
  <2> QED
    BY <2>1 DEF Known, Marked
<1> QED
  BY <1>2, <1>3, PlaceMoves

\* A new round begins with prompts nobody knows.
LEMMA NoneKnown ==
    ASSUME Driving, NEW uid, uid.round = at
    PROVE  /\ pc \in {"generate", "dispatch"} => ~Known(uid)
           /\ pc = "generate" => ~Marked(uid)
  BY BeforeIrreflexive DEF Known, Marked, Driving

\* The prompts do not change, and what is a key remains one.
LEMMA PromptsKept ==
    ASSUME remax' = remax
    PROVE  (\A r : Uids(r)' = Uids(r)) /\ (\A key : IsKey(key)' <=> IsKey(key))
<1>1. \A r : Uids(r)' = Uids(r)
  BY DEF Uids
<1> QED
  BY <1>1 DEF IsKey

-----------------------------------------------------------------------------
(* Prompts and sessions                                                    *)

LEMMA WorkingStep ==
    ASSUME Driving, Working, [Next]_vars
    PROVE  Working'
<1>0. /\ \A uid : (Known(uid) => Known(uid)') /\ (Marked(uid) => Marked(uid)') /\ (Known(uid) => Marked(uid))
      /\ remax' = remax /\ Driving'
      /\ at' = at \/ pc' \in {"generate", "clear"}
  BY KnownKept, PlaceMoves
<1>1. \A r : Uids(r)' = Uids(r)
  BY <1>0, PromptsKept
\* It is enough to say what is new.
<1>2. ASSUME \A uid \in open' \union ended' \union raised' :
                uid \in open \union ended \union raised \/ (uid \in Uids(uid.round) /\ Known(uid)'),
             \A uid \in running' : uid \in running \/ (uid \in Uids(uid.round) /\ Marked(uid)'),
             pc' = "dispatch" => Uids(at') \subseteq running',
             open' \subseteq running' \ ended',
             \A task \in generating' :
                /\ task \in generating \/ (task = <<task[1], task[2]>> /\ task[2] \in Sessions(task[1]))
                /\ task[1] \in open' \union raised',
             snapshot' # <<>> => snapshot' = <<snapshot'[1]>> /\ snapshot'[1].ended \subseteq ended'
      PROVE  Working'
  <2>1. (\A uid \in open \union ended \union raised : uid \in Uids(uid.round) /\ Known(uid))'
    BY <1>0, <1>1, <1>2 DEF Working
  <2>2. (\A uid \in running : uid \in Uids(uid.round) /\ Marked(uid))'
    BY <1>0, <1>1, <1>2 DEF Working
  <2>3. (pc = "dispatch" => Uids(at) \subseteq running)'
    <3> SUFFICES ASSUME pc' = "dispatch" PROVE Uids(at)' \subseteq running'
      OBVIOUS
    <3>1. at' = at
      BY <1>0
    <3>2. Uids(at)' = Uids(at')
      BY <1>0, <3>1 DEF Uids
    <3> QED
      BY <1>2, <3>2
  <2>4. (\A task \in generating :
           task = <<task[1], task[2]>> /\ task[2] \in Sessions(task[1]) /\ task[1] \in open \union raised)'
    BY <1>2 DEF Working, Sessions
  <2> QED
    BY <1>2, <2>1, <2>2, <2>3, <2>4 DEF Working
<1>3. CASE MarkRunning
  <2>1. /\ UNCHANGED <<open, ended, raised, generating, snapshot, at>> /\ pc = "generate" /\ pc' = "dispatch"
        /\ running' = running \union Uids(at)
    BY <1>3 DEF MarkRunning, workerVars, queueVars
  <2>2. \A uid \in Uids(at) : uid \in Uids(uid.round) /\ Marked(uid)'
    BY <1>0, <2>1, UidsOf DEF Marked, Driving
  <2>3. \A uid \in open : uid \notin ended /\ uid \in running
    BY DEF Working
  <2> QED
    BY <1>2, <2>1, <2>2, <2>3 DEF Working
<1>4. CASE Dispatch
  <2>1. /\ UNCHANGED <<running, ended, raised, snapshot, at>> /\ pc = "dispatch" /\ pc' = "sample"
        /\ open' = open \union Uids(at)
        /\ generating' = generating \union UNION {{uid} \X Sessions(uid) : uid \in Uids(at)}
    BY <1>4 DEF Dispatch, bufferVars, queueVars
  <2>2. \A uid \in Uids(at) : uid \in Uids(uid.round) /\ Known(uid)' /\ uid \in running /\ uid \notin ended
    <3> TAKE uid \in Uids(at)
    <3>1. uid.round = at
      BY UidsOf
    <3>2. ~Known(uid)
      BY <2>1, <3>1, NoneKnown
    <3> QED
      BY <1>0, <2>1, <3>1, <3>2 DEF Working, Known, Driving
  <2>3. \A task \in generating' :
           \/ task \in generating
           \/ task = <<task[1], task[2]>> /\ task[2] \in Sessions(task[1]) /\ task[1] \in Uids(at)
    BY <2>1
  <2>4. \A uid \in open : uid \notin ended /\ uid \in running
    BY DEF Working
  <2> QED
    BY <1>2, <2>1, <2>2, <2>3, <2>4 DEF Working
<1>5. CASE \/ Sample \/ Score \/ TakeBaselines \/ RemoveBaselines \/ Pad \/ Update \/ ClearQueue \/ RemoveFromBuffer
           \/ UNCHANGED vars
  <2>1. UNCHANGED <<running, open, ended, raised, generating, snapshot>>
    BY <1>5 DEF Sample, Score, TakeBaselines, RemoveBaselines, Pad, Update, ClearQueue, RemoveFromBuffer, vars,
                driverVars, bufferVars, workerVars, queueVars
  <2>2. pc' = "dispatch" => pc = "dispatch" /\ at' = at
    BY <1>5 DEF Sample, Score, TakeBaselines, RemoveBaselines, Pad, Update, ClearQueue, RemoveFromBuffer, NextRound,
                vars, driverVars
  <2> QED
    BY <1>2, <2>1, <2>2 DEF Working
<1>6. CASE Poll \/ Merge
  <2>1. /\ UNCHANGED <<open, ended, raised, generating, at, pc>>
        /\ \/ snapshot' = <<[stored |-> stored, ended |-> ended]>> /\ running' = running
           \/ snapshot # <<>> /\ snapshot' = <<>> /\ running' = running \ snapshot[1].ended
    BY <1>6 DEF Poll, Merge, driverVars, bufferVars, workerVars, queueVars
  <2>2. pc # "dispatch" \/ running' = running \/ \A uid \in Uids(at) : uid \notin ended
    BY UidsOf, NoneKnown DEF Working
  <2>3. pc' = "dispatch" => Uids(at') \subseteq running'
    BY <2>1, <2>2 DEF Working
  <2>4. open' \subseteq running' \ ended'
    BY <2>1 DEF Working
  <2>5. snapshot' # <<>> => snapshot' = <<snapshot'[1]>> /\ snapshot'[1].ended \subseteq ended'
    BY <2>1
  <2>6. running' \subseteq running
    BY <2>1
  <2> QED
    BY <1>2, <2>1, <2>3, <2>4, <2>5, <2>6 DEF Working
<1>7. ASSUME NEW uid \in open, EndPrompt(uid) PROVE Working'
  <2>1. /\ UNCHANGED <<running, raised, generating, snapshot, at, pc>>
        /\ open' = open \ {uid} /\ ended' = ended \union {uid}
        /\ uid \in raised \/ ({uid} \X Sessions(uid)) \intersect generating = {}
    BY <1>7 DEF EndPrompt, driverVars, bufferVars
  <2>2. \A task \in generating : task[1] = uid => uid \in raised
    BY <2>1 DEF Working
  <2> QED
    BY <1>2, <2>1, <2>2 DEF Working
<1>8. ASSUME NEW task \in generating, PutOutputs(task[1], task[2]) \/ Raise(task[1], task[2]) PROVE Working'
  <2>1. /\ UNCHANGED <<running, open, ended, snapshot, at, pc>>
        /\ generating' \subseteq generating /\ raised \subseteq raised' /\ raised' \subseteq raised \union {task[1]}
    BY <1>8 DEF PutOutputs, Raise, driverVars, bufferVars, queueVars
  <2>2. task[1] \in open \union raised
    BY DEF Working
  <2> QED
    BY <1>2, <2>1, <2>2 DEF Working
<1> QED
  BY <1>3, <1>4, <1>5, <1>6, <1>7, <1>8 DEF Next, Driver, Poller, Workers, Failure, Stopped

-----------------------------------------------------------------------------
(* Trajectories                                                            *)

LEMMA PaddingKeys ==
    ASSUME Driving, NEW key \in Padding
    PROVE  key.uid.round = at /\ key.uid.prompt = 0 /\ IsKey(key) /\ PartitionOf(key) = Kind
<1>1. PICK i : key = Key(Uid(at, 0, FALSE), i, 1)
  BY DEF Padding
<1> QED
  BY <1>1 DEF Key, Uid, IsKey, PartitionOf, Kind

\* A session's outputs are keys of its prompt.
LEMMA OutputKeys ==
    ASSUME Working, NEW task \in generating, NEW i
    PROVE  /\ Key(task[1], task[2], i).uid = task[1]
           /\ IsKey(Key(task[1], task[2], i)) /\ Known(task[1])
<1>1. task[1] \in Uids(task[1].round) /\ Known(task[1]) /\ task[2] \in Sessions(task[1])
  BY DEF Working
<1> QED
  BY <1>1 DEF Key, IsKey

LEMMA KeyedStep ==
    ASSUME Driving, Working, Keyed, [Next]_vars
    PROVE  Keyed'
<1>0. /\ \A uid : Known(uid) => Known(uid)'
      /\ remax' = remax /\ Driving'
  BY KnownKept, PlaceMoves
<1>1. \A key : IsKey(key)' <=> IsKey(key)
  BY <1>0, PromptsKept
<1>2. ASSUME \A key \in buffer' \union stored' \union Replied' :
                key \in buffer \union stored \union Replied \/ (IsKey(key) /\ Known(key.uid)'),
             DOMAIN batch' = Partitions,
             \A p \in Partitions : \A key \in batch'[p] : key \in batch[p] \/ (IsKey(key) /\ PartitionOf(key) = p)
      PROVE  Keyed'
  <2>1. (\A key \in buffer \union stored \union Replied : IsKey(key) /\ Known(key.uid))'
    BY <1>0, <1>1, <1>2 DEF Keyed
  <2>2. (\A p \in Partitions : \A key \in batch[p] : IsKey(key) /\ PartitionOf(key) = p)'
    BY <1>1, <1>2 DEF Keyed, PartitionOf, Partitions
  <2> QED
    BY <1>2, <2>1, <2>2 DEF Keyed, Partitions
<1>3. CASE \/ MarkRunning \/ Dispatch \/ Score \/ Update \/ UNCHANGED vars \/ \E uid \in open : EndPrompt(uid)
           \/ \E task \in generating : Raise(task[1], task[2])
  <2>1. UNCHANGED <<buffer, stored, snapshot, batch>>
    BY <1>3 DEF MarkRunning, Dispatch, Score, Update, EndPrompt, Raise, vars, driverVars, bufferVars, workerVars,
                queueVars
  <2> QED
    BY <1>2, <2>1 DEF Keyed, Replied
<1>4. CASE Sample
  <2>1. /\ UNCHANGED <<buffer, stored, snapshot>> /\ Kind \in Partitions
        /\ batch' = [batch EXCEPT ![Kind] = {key \in buffer : OfRound(key)}]
    BY <1>4 DEF Sample, bufferVars, queueVars, Driving, Kind, Rounds, Kinds, Partitions
  <2>2. \A key \in buffer : OfRound(key) => IsKey(key) /\ PartitionOf(key) = Kind
    BY DEF Keyed, OfRound
  <2> QED
    BY <1>2, <2>1, <2>2 DEF Keyed, Replied
<1>5. CASE TakeBaselines \/ ClearQueue
  <2>1. UNCHANGED <<buffer, snapshot, batch>> /\ stored' \subseteq stored
    BY <1>5 DEF TakeBaselines, ClearQueue, bufferVars
  <2> QED
    BY <1>2, <2>1 DEF Keyed, Replied
<1>6. CASE RemoveBaselines
  <2>1. /\ UNCHANGED <<stored, snapshot>> /\ buffer' \subseteq buffer
        /\ batch' = [batch EXCEPT ![Kind] = @ \ Baselines]
    BY <1>6 DEF RemoveBaselines, queueVars
  <2> QED
    BY <1>2, <2>1 DEF Keyed, Replied
<1>7. CASE Pad
  <2>1. /\ UNCHANGED <<buffer, snapshot>>
        /\ \/ UNCHANGED <<stored, batch>>
           \/ /\ stored' = stored \union Padding /\ batch' = [batch EXCEPT ![Kind] = @ \union Padding]
              /\ at' = at /\ pc' = "update"
    BY <1>7 DEF Pad, bufferVars
  <2>2. \A key \in Padding : IsKey(key) /\ PartitionOf(key) = Kind /\ key.uid.round = at
    BY PaddingKeys
  <2>3. CASE UNCHANGED <<stored, batch>>
    BY <1>2, <2>1, <2>3 DEF Keyed, Replied
  <2>4. CASE /\ stored' = stored \union Padding /\ batch' = [batch EXCEPT ![Kind] = @ \union Padding]
             /\ at' = at /\ pc' = "update"
    <3>1. \A key \in Padding : Known(key.uid)'
      BY <2>2, <2>4 DEF Known, Driving
    <3>2. \A key \in buffer' \union stored' \union Replied' :
             key \in buffer \union stored \union Replied \/ (IsKey(key) /\ Known(key.uid)')
      BY <2>1, <2>2, <2>4, <3>1 DEF Replied
    <3>3. \A p \in Partitions : \A key \in batch'[p] : key \in batch[p] \/ (IsKey(key) /\ PartitionOf(key) = p)
      BY <2>2, <2>4 DEF Keyed
    <3> QED
      BY <1>2, <2>4, <3>2, <3>3 DEF Keyed
  <2> QED
    BY <2>1, <2>3, <2>4
<1>8. CASE RemoveFromBuffer
  <2>1. /\ UNCHANGED <<stored, snapshot>> /\ buffer' \subseteq buffer
        /\ batch' = [batch EXCEPT ![Used] = {}]
    BY <1>8 DEF RemoveFromBuffer, queueVars
  <2> QED
    BY <1>2, <2>1 DEF Keyed, Replied
<1>9. CASE Poll
  <2>1. UNCHANGED <<stored, buffer, batch>> /\ Replied' = stored
    BY <1>9 DEF Poll, driverVars, bufferVars, queueVars, Replied
  <2> QED
    BY <1>2, <2>1 DEF Keyed
<1>10. CASE Merge
  <2>1. UNCHANGED <<stored, batch>> /\ Replied' = {} /\ buffer' = buffer \union Replied
    BY <1>10 DEF Merge, driverVars, queueVars, Replied
  <2> QED
    BY <1>2, <2>1 DEF Keyed
<1>11. ASSUME NEW task \in generating, PutOutputs(task[1], task[2]) PROVE Keyed'
  <2>1. /\ UNCHANGED <<buffer, batch, snapshot>>
        /\ \A key \in stored' : key \in stored \/ \E i : key = Key(task[1], task[2], i)
    BY <1>11 DEF PutOutputs, bufferVars, driverVars
  <2>2. \A i : IsKey(Key(task[1], task[2], i)) /\ Known(Key(task[1], task[2], i).uid)'
    BY <1>0, OutputKeys
  <2> QED
    BY <1>2, <2>1, <2>2 DEF Keyed, Replied
<1> QED
  BY <1>3, <1>4, <1>5, <1>6, <1>7, <1>8, <1>9, <1>10, <1>11
  DEF Next, Driver, Poller, Workers, Failure, Stopped

-----------------------------------------------------------------------------
(* The sampled batch                                                       *)

\* What a step may do to the queue, the replies, the buffer and the batch.
Flow ==
    /\ buffer' \subseteq buffer \union Replied /\ Replied' \subseteq Replied \union stored
    /\ \A key \in stored' : \/ key \in stored
                            \/ key.uid.prompt = 0 /\ pc' = "update"
                            \/ \E task \in generating : key.uid = task[1]
    /\ pc' \in {"sample", "sampled"} =>
          /\ pc \in {"dispatch", "sample", "sampled"} /\ at' = at
          /\ stored \subseteq stored' /\ buffer \subseteq buffer'
    /\ pc' = "sampled" => (pc = "sampled" /\ batch' = batch) \/ Sample
    /\ \A task \in generating' : task \in generating \/ (pc = "dispatch" /\ task[1] \in Uids(at))
    /\ raised \subseteq raised' /\ ended \subseteq ended'
    /\ snapshot' # <<>> => \/ snapshot' = snapshot
                           \/ /\ snapshot' = <<[stored |-> stored, ended |-> ended]>>
                              /\ UNCHANGED <<stored, ended, generating, raised>>
    /\ \A uid \in running : uid \in running' \/ /\ snapshot # <<>> /\ uid \in snapshot[1].ended
                                                /\ buffer' = buffer \union Replied
    /\ \A uid \in ended' : uid \in ended \/ uid \in raised \/ \A task \in generating : task[1] # uid

LEMMA Flows == ASSUME Driving, Working, Keyed, [Next]_vars PROVE Flow
<1>1. CASE MarkRunning
  BY <1>1 DEF MarkRunning, bufferVars, workerVars, queueVars, Flow, Replied
<1>2. CASE Dispatch
  <2>1. \A task \in generating' : task \in generating \/ task[1] \in Uids(at)
    BY <1>2 DEF Dispatch
  <2> QED
    BY <1>2, <2>1 DEF Dispatch, bufferVars, queueVars, Flow, Replied
<1>3. CASE Sample
  <2>1. /\ UNCHANGED <<at, running, buffer, snapshot, open, generating, raised, stored, ended>>
        /\ pc = "sample" /\ pc' = "sampled"
    BY <1>3 DEF Sample, bufferVars, workerVars, queueVars
  <2> QED
    BY <1>3, <2>1 DEF Flow, Replied
<1>4. CASE Score
  BY <1>4 DEF Score, bufferVars, workerVars, queueVars, Flow, Replied
<1>5. CASE TakeBaselines
  BY <1>5 DEF TakeBaselines, bufferVars, workerVars, Flow, Replied
<1>6. CASE RemoveBaselines
  BY <1>6 DEF RemoveBaselines, workerVars, queueVars, Flow, Replied
<1>7. CASE Pad
  <2>1. \A key \in Padding : key.uid.prompt = 0
    BY PaddingKeys
  <2> QED
    BY <1>7, <2>1 DEF Pad, bufferVars, workerVars, Flow, Replied
<1>8. CASE Update
  BY <1>8 DEF Update, NextRound, bufferVars, workerVars, queueVars, Flow, Replied
<1>9. CASE ClearQueue
  BY <1>9 DEF ClearQueue, bufferVars, workerVars, Flow, Replied
<1>10. CASE RemoveFromBuffer
  BY <1>10 DEF RemoveFromBuffer, NextRound, workerVars, queueVars, Flow, Replied
<1>11. CASE Poll
  BY <1>11 DEF Poll, driverVars, bufferVars, workerVars, queueVars, Flow, Replied
<1>12. CASE Merge
  BY <1>12 DEF Merge, driverVars, workerVars, queueVars, Flow, Replied
<1>13. ASSUME NEW uid \in open, EndPrompt(uid) PROVE Flow
  <2>1. /\ UNCHANGED <<at, pc, batch, running, buffer, snapshot, generating, raised, stored>>
        /\ ended' = ended \union {uid}
        /\ uid \in raised \/ ({uid} \X Sessions(uid)) \intersect generating = {}
    BY <1>13 DEF EndPrompt, driverVars, bufferVars
  <2>2. uid \in raised \/ \A task \in generating : task[1] # uid
    BY <2>1 DEF Working
  <2> QED
    BY <2>1, <2>2 DEF Flow, Replied
<1>14. ASSUME NEW task \in generating, PutOutputs(task[1], task[2]) PROVE Flow
  <2>1. /\ UNCHANGED <<at, pc, batch, running, buffer, snapshot, raised, ended>>
        /\ generating' \subseteq generating /\ stored \subseteq stored'
        /\ \A key \in stored' : key \in stored \/ \E i : key = Key(task[1], task[2], i)
    BY <1>14 DEF PutOutputs, driverVars, bufferVars
  <2>2. \A key \in stored' : key \in stored \/ key.uid = task[1]
    BY <2>1, OutputKeys
  <2> QED
    BY <2>1, <2>2 DEF Flow, Replied
<1>15. ASSUME NEW task \in generating, Raise(task[1], task[2]) PROVE Flow
  BY <1>15 DEF Raise, driverVars, bufferVars, queueVars, Flow, Replied
<1>16. CASE UNCHANGED vars
  BY <1>16 DEF vars, driverVars, bufferVars, workerVars, queueVars, Flow, Replied
<1> QED
  BY <1>1, <1>2, <1>3, <1>4, <1>5, <1>6, <1>7, <1>8, <1>9, <1>10, <1>11, <1>12, <1>13, <1>14, <1>15, <1>16
  DEF Next, Driver, Poller, Workers, Failure, Stopped

\* With one batch per validation the partition and the step tell the round.
LEMMA SameRound ==
    ASSUME ValBatches = 1, Driving, NEW key, key.uid.round \in Rounds, OfRound(key)
    PROVE  key.uid.round = at
<1>1. \A r \in Rounds : r = Round(r.kind, r.step, r.part) /\ r.part = 1
  BY DEF Rounds, Round
<1>2. key.uid.round.kind = at.kind /\ key.uid.round.step = at.step /\ at \in Rounds
  BY DEF OfRound, PartitionOf, StepOf, Kind, Driving
<1> QED
  BY <1>1, <1>2

LEMMA WholeStep ==
    ASSUME ValBatches = 1, Driving, Working, Keyed, Whole, [Next]_vars
    PROVE  Whole'
<1>1. Flow /\ remax' = remax
  BY Flows, PlaceMoves
<1>2. Driving' /\ Working' /\ Keyed'
  BY PlaceMoves, WorkingStep, KeyedStep
<1>3. \A r : Uids(r)' = Uids(r)
  BY <1>1, PromptsKept
<1>4. at' = at => Uids(at)' = Uids(at)
  BY <1>1 DEF Uids
<1>5. \A uid \in ended \ raised : \A task \in generating : task[1] # uid
  BY DEF Whole, EndedOver
\* A prompt that has ended well puts nothing more.
<1>6. \A uid \in ended \ raised, key \in stored' : key.uid = uid => key \in stored
  <2>1. \A uid \in ended : uid.prompt # 0
    BY UidsOf DEF Working
  <2> QED
    BY <1>1, <1>5, <2>1 DEF Flow
<1>7. Uncleared'
  <2>1. CASE pc' \in {"generate", "dispatch"}
    <3>1. \A key \in buffer' \union stored' \union Replied' : key.uid.round # at'
      BY <1>2, <2>1, BeforeIrreflexive DEF Keyed, Known, Driving
    <3> QED
      BY <3>1 DEF Uncleared
  <2>2. CASE pc' \in {"sample", "sampled"}
    <3>1. pc \in {"dispatch", "sample", "sampled"} /\ at' = at /\ stored \subseteq stored'
      BY <1>1, <2>2 DEF Flow
    <3>2. \A key \in buffer \union stored \union Replied : key.uid.round = at => key \in stored /\ key.uid \in Uids(at)
      BY <3>1 DEF Whole, Uncleared, Waiting
    <3>3. \A key \in stored' : key \in stored \/ key.uid \in Uids(key.uid.round)
      BY <1>1, <2>2 DEF Flow, Working
    <3>4. \A key \in buffer' \union stored' \union Replied' :
             key.uid.round = at => key \in stored' /\ key.uid \in Uids(at)
      BY <1>1, <3>1, <3>2, <3>3 DEF Flow
    <3> QED
      BY <1>4, <3>1, <3>4 DEF Uncleared
  <2> QED
    BY <2>1, <2>2 DEF Uncleared, Waiting
<1>8. EndedOver'
  <2> SUFFICES ASSUME NEW uid \in ended', uid \notin raised', NEW task \in generating' PROVE task[1] # uid
    BY DEF EndedOver
  <2>1. CASE task \in generating
    BY <1>1, <1>5, <2>1 DEF Flow
  <2>2. CASE task \notin generating
    <3>1. pc = "dispatch" /\ task[1] \in Uids(at)
      BY <1>1, <2>2 DEF Flow
    <3>2. \A u \in ended \union raised : u.round # at
      BY <3>1, NoneKnown DEF Working
    <3>3. \A u \in Uids(at) : u.round = at
      BY UidsOf
    <3>4. CASE uid \in ended
      BY <3>1, <3>2, <3>3, <3>4
    <3>5. CASE uid \notin ended
      <4>1. ~Dispatch
        BY <3>5 DEF Dispatch, queueVars
      <4>2. generating' \subseteq generating
        BY <4>1 DEF Next, Driver, MarkRunning, Sample, Score, TakeBaselines, RemoveBaselines, Pad, Update, ClearQueue,
                    RemoveFromBuffer, Poller, Poll, Merge, Workers, EndPrompt, PutOutputs, Failure, Raise, Stopped,
                    vars, workerVars
      <4> QED
        BY <2>2, <4>2
    <3> QED
      BY <3>4, <3>5
  <2> QED
    BY <2>1, <2>2
<1>9. RepliedWhole'
  <2> SUFFICES ASSUME snapshot' # <<>>, NEW uid \in snapshot'[1].ended, uid \notin raised', NEW key \in stored',
                      key.uid = uid
               PROVE  key \in Replied'
    BY DEF RepliedWhole
  <2>1. CASE snapshot' = snapshot
    <3>1. uid \in ended \ raised
      BY <1>1, <2>1 DEF Flow, Working
    <3>2. key \in stored
      BY <1>6, <3>1
    <3> QED
      BY <2>1, <3>1, <3>2 DEF Whole, RepliedWhole, Replied
  <2>2. CASE snapshot' = <<[stored |-> stored, ended |-> ended]>> /\ stored' = stored
    BY <2>2 DEF Replied
  <2> QED
    BY <1>1, <2>1, <2>2 DEF Flow
<1>10. BufferWhole'
  <2> SUFFICES ASSUME pc' \in {"sample", "sampled"}, NEW uid \in Uids(at)', uid \notin running', uid \notin raised'
               PROVE  uid \in ended' /\ \A key \in stored' : key.uid = uid => key \in buffer'
    BY DEF BufferWhole
  <2>1. /\ pc \in {"dispatch", "sample", "sampled"} /\ at' = at /\ buffer \subseteq buffer'
        /\ uid \in Uids(at) /\ uid \notin raised
    BY <1>1, <1>4 DEF Flow
  <2>2. CASE uid \in running
    <3>1. snapshot # <<>> /\ uid \in snapshot[1].ended /\ buffer' = buffer \union Replied
      BY <1>1, <2>2 DEF Flow
    <3>2. uid \in ended /\ \A key \in stored : key.uid = uid => key \in Replied
      BY <2>1, <3>1 DEF Working, Whole, RepliedWhole
    <3> QED
      BY <1>1, <1>6, <2>1, <3>1, <3>2 DEF Flow
  <2>3. CASE uid \notin running
    <3>1. pc \in {"sample", "sampled"}
      BY <2>1, <2>3 DEF Working
    <3>2. uid \in ended /\ \A key \in stored : key.uid = uid => key \in buffer
      BY <2>1, <2>3, <3>1 DEF Whole, BufferWhole
    <3> QED
      BY <1>1, <1>6, <2>1, <3>2 DEF Flow
  <2> QED
    BY <2>2, <2>3
<1>11. SampledWhole'
  <2> SUFFICES ASSUME pc' = "sampled"
               PROVE  /\ \A key \in InHand' : key \in stored' /\ key.uid \in Uids(at)'
                      /\ \A uid \in Uids(at)' \ raised' :
                            uid \in ended' /\ \A key \in stored' : key.uid = uid => key \in InHand'
    BY DEF SampledWhole
  <2>1. at' = at /\ Uids(at)' = Uids(at) /\ stored \subseteq stored' /\ raised \subseteq raised' /\ ended \subseteq ended'
    BY <1>1, <1>4 DEF Flow
  <2>2. CASE pc = "sampled" /\ batch' = batch
    <3>1. InHand' = InHand
      BY <2>1, <2>2 DEF InHand, Kind
    <3>2. /\ \A key \in InHand : key \in stored /\ key.uid \in Uids(at)
          /\ \A uid \in Uids(at) \ raised : uid \in ended /\ \A key \in stored : key.uid = uid => key \in InHand
      BY <2>2 DEF Whole, SampledWhole
    <3> QED
      BY <1>6, <2>1, <3>1, <3>2
  <2>3. CASE Sample
    <3>1. /\ UNCHANGED <<buffer, running, stored, raised, ended>> /\ pc = "sample"
          /\ \A uid \in running : ~OfRound([uid |-> uid])
          /\ batch' = [batch EXCEPT ![Kind] = {key \in buffer : OfRound(key)}]
      BY <2>3 DEF Sample, bufferVars, workerVars, queueVars
    <3>2. Kind \in Partitions
      BY <3>1 DEF Driving, Kind, Rounds, Kinds, Partitions
    <3>3. InHand' = {key \in buffer : OfRound(key)}
      BY <2>1, <3>1, <3>2 DEF InHand, Kind, Keyed
    <3>4. \A uid \in Uids(at) : uid \notin running
      BY <3>1, UidsOf DEF OfRound, PartitionOf, StepOf, Kind
    <3>5. \A key \in InHand' : key.uid.round = at
      BY <3>3, SameRound DEF Keyed, Known
    <3>6. \A key \in buffer : key.uid \in Uids(at) => key \in InHand'
      BY <3>3, UidsOf DEF OfRound, PartitionOf, StepOf, Kind
    <3>7. \A key \in InHand' : key \in stored /\ key.uid \in Uids(at)
      BY <3>1, <3>3, <3>5 DEF Whole, Uncleared, Waiting
    <3>8. \A uid \in Uids(at) \ raised : uid \in ended /\ \A key \in stored : key.uid = uid => key \in InHand'
      BY <3>1, <3>4, <3>6 DEF Whole, BufferWhole
    <3> QED
      BY <2>1, <3>1, <3>7, <3>8
  <2> QED
    BY <1>1, <2>2, <2>3 DEF Flow
<1> QED
  BY <1>7, <1>8, <1>9, <1>10, <1>11 DEF Whole

-----------------------------------------------------------------------------
(* What follows                                                            *)

Parts == Driving /\ Working /\ Keyed

LEMMA PartsInvariant == Spec => []Parts
<1>1. Init => Parts
  <2> SUFFICES ASSUME Init PROVE Parts
    OBVIOUS
  <2>1. Driving
    BY DEF Init, Driving, Round, Rounds, Kinds
  <2>2. Working
    BY DEF Init, Working
  <2>3. Keyed
    BY DEF Init, Keyed, Replied
  <2> QED
    BY <2>1, <2>2, <2>3 DEF Parts
<1>2. Parts /\ [Next]_vars => Parts'
  BY PlaceMoves, WorkingStep, KeyedStep DEF Parts
<1> QED
  BY <1>1, <1>2, PTL DEF Spec

\* Prompts run until their end has been put, sessions belong to open or failed prompts, and every trajectory in the
\* queue, the buffer and a batch is one of a session of its prompt or padding.  (generate_sequences, _run_prompt, add.)
THEOREM TypesKept == Spec => []TypeOK
<1>1. Parts => TypeOK
  <2> SUFFICES ASSUME Parts PROVE TypeOK
    OBVIOUS
  <2>1. Len(snapshot) <= 1
    <3>1. CASE snapshot = <<>>
      BY <3>1
    <3>2. CASE snapshot # <<>>
      <4>1. PICK reply : snapshot = <<reply>>
        BY <3>2 DEF Parts, Working
      <4>2. Len(<<reply>>) = 1
        OBVIOUS
      <4>3. Len(snapshot) = 1
        BY <4>1, <4>2, Zenon
      <4> QED
        BY <4>3
    <3> QED
      BY <3>1, <3>2
  <2> QED
    BY <2>1 DEF Parts, Driving, Working, Keyed, TypeOK
<1> QED
  BY <1>1, PartsInvariant, PTL

\* With one batch per validation, whatever the order of polls, outputs, ends and failures: a sampled batch is of the
\* driver's round, is still in the queue, and has every trajectory of every prompt that did not fail.  (sample,
\* _poll_from_transfer_queue, the cleanup of fit and _validate.)
THEOREM BatchesWhole == ASSUME ValBatches = 1 PROVE Spec => []BatchWhole
<1>1. Init => Whole
  BY DEF Init, Whole, Uncleared, EndedOver, RepliedWhole, BufferWhole, SampledWhole, Waiting, Replied
<1>2. Parts /\ Whole /\ [Next]_vars => Whole'
  BY WholeStep DEF Parts
<1>3. Parts /\ Whole => BatchWhole
  <2> SUFFICES ASSUME Parts, Whole, pc = "sampled" PROVE BatchWhole
    BY DEF BatchWhole
  <2>1. /\ \A key \in InHand : key \in stored /\ key.uid \in Uids(at)
        /\ \A uid \in Uids(at) \ raised : uid \in ended /\ \A key \in stored : key.uid = uid => key \in InHand
    BY DEF Whole, SampledWhole
  <2>2. \A uid \in Uids(at) \ raised : ({uid} \X Sessions(uid)) \intersect generating = {}
    BY <2>1 DEF Whole, EndedOver
  <2> QED
    BY <2>1, <2>2 DEF BatchWhole, SampledIsStored
<1> QED
  BY <1>1, <1>2, <1>3, PartsInvariant, PTL DEF Spec

=============================================================================
