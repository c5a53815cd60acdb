------------------------ MODULE PpoCheckpointProofs ------------------------
(***************************************************************************)
(* Proofs about PpoCheckpoint, for any number of ranks, any schedule of    *)
(* steps and saves, any rotation limits and any number of launches.        *)
(*                                                                         *)
(* Retention is the first inductive invariant: what the lists of           *)
(* registered paths and the save under way say about the disk.  It holds   *)
(* for every limit.                                                        *)
(* Durable, the second, relates the tracker, the files and the training    *)
(* state; it needs that no role keeps exactly one checkpoint, the limit    *)
(* under which the code removes what the tracker names.                    *)
(* Continuous, the third, keeps step, epoch and dataloader in step with    *)
(* the training state and makes the tracked checkpoint a prefix of it;     *)
(* from it, for every limit, the job does what TrainingHistory promises.   *)
(***************************************************************************)
EXTENDS PpoCheckpoint, SequenceTheorems, TLAPS

USE RanksAssumption, RolesAssumption, ScheduleAssumption

Live == pc \in {"fit", "capacity", "write", "data", "open", "number", "advance"}
Saving == pc \in {"capacity", "write", "data", "open", "number"}

\* Role r is registered in the save under way.
RoleSaved(r) ==
    \/ pc \in {"data", "open", "number"}
    \/ pc \in {"capacity", "write"} /\ \E j \in 1 .. roleIndex - 1 : Roles[j] = r

\* A dataloader that yielded a batch has drawn an order.
Started(l) == l.yielded > 0 => l.draws > 0

LoadersStarted == Started(loader) /\ \A k \in DOMAIN dataFiles : Started(dataFiles[k])

\* The registered paths of a role ascend, are within the limit and complete.
Registered ==
    \A r \in Role :
        /\ \A i, j \in 1 .. Len(saved[r]) : i < j => saved[r][i] < saved[r][j]
        /\ Keep[r] > 0 => Len(saved[r]) <= Keep[r]
        /\ \A i \in 1 .. Len(saved[r]) : \A n \in Ranks : <<r, saved[r][i], n>> \in DOMAIN shards

\* None of them is ahead of the step, nor at it before it is registered.
NotAhead ==
    \A r \in Role : \A i \in 1 .. Len(saved[r]) :
        /\ Live => saved[r][i] <= globalSteps
        /\ pc = "fit" \/ (Saving /\ ~RoleSaved(r)) => saved[r][i] < globalSteps

\* What the save under way has put on disk so far.
Written ==
    /\ pc = "capacity" => written = {}
    /\ pc = "write" => \A n \in written :
          <<SavingRole, globalSteps, n>> \in DOMAIN shards /\ shards[<<SavingRole, globalSteps, n>>] = history
    /\ pc \in {"write", "data", "open", "number"} => globalSteps \in folders
    /\ \A r \in Role : RoleSaved(r) => \A n \in Ranks :
          <<r, globalSteps, n>> \in DOMAIN shards /\ shards[<<r, globalSteps, n>>] = history
    /\ pc \in {"open", "number"} => globalSteps \in DOMAIN dataFiles /\ dataFiles[globalSteps] = loader

Retention == CheckpointTypeOK /\ LoadersStarted /\ Registered /\ NotAhead /\ Written

\* The weights were trained for as many batches as steps were taken, the last
\* of them the one the dataloader stands at.
Counted ==
    /\ Live => globalSteps >= 1
    /\ pc = "fit" => Len(history) = globalSteps - 1
    /\ Saving \/ pc = "advance" => Len(history) = globalSteps
    /\ Saving => history[globalSteps] = [order |-> loader.draws, pos |-> loader.yielded]

TrackerBehind ==
    /\ pc = "fit" \/ Saving => tracker < globalSteps
    /\ pc = "advance" => tracker <= globalSteps
    /\ tracker = EmptyTracker => pc \in {"number", "off", "stuck"}

\* What rotation may remove, all but the last registered path, is not tracked.
TrackedIsLast ==
    \A r \in Role :
        pc \in {"fit", "advance"} \/ (Saving /\ ~RoleSaved(r)) =>
            \A i \in 1 .. Len(saved[r]) - 1 : saved[r][i] # tracker

Durable == Counted /\ TrackerBehind /\ TrackedIsLast /\ TrackedIsComplete /\ OnlyTornTrackerBlocks

-----------------------------------------------------------------------------
(* The roles, and what trimming a list of paths leaves of it               *)

\* The two possible lists of roles: the actor first, no role twice.
LEMMA RoleFacts ==
    /\ "actor" \in Role
    /\ Len(Roles) \in Nat \ {0}
    /\ \A i \in 1 .. Len(Roles) : Roles[i] \in Role
    /\ \A i, j \in 1 .. Len(Roles) : Roles[i] = Roles[j] => i = j
    /\ \A r \in Role : \E i \in 1 .. Len(Roles) : Roles[i] = r
    /\ Keep \in [Role -> Nat]
<1>1. CASE Roles = <<"actor">>
  <2>1. Len(Roles) = 1 /\ Roles[1] = "actor"
    BY <1>1
  <2> QED
    BY <2>1 DEF Role
<1>2. CASE Roles = <<"actor", "critic">>
  <2>1. Len(Roles) = 2 /\ Roles[1] = "actor" /\ Roles[2] = "critic"
    BY <1>2
  <2> QED
    BY <2>1 DEF Role
<1> QED
  BY <1>1, <1>2

\* What ensure_checkpoint_capacity and register_checkpoint keep of a list when
\* they remove its first d paths.
LEMMA Trimmed ==
    ASSUME NEW s \in Seq(Nat), NEW d \in 0 .. Len(s)
    PROVE  LET t == SubSeq(s, d + 1, Len(s))
           IN  /\ t \in Seq(Nat)
               /\ Len(t) = Len(s) - d
               /\ \A i \in 1 .. Len(t) : t[i] = s[d + i] /\ d + i \in 1 .. Len(s)
<1> DEFINE t == SubSeq(s, d + 1, Len(s))
<1>0. Len(s) \in Nat /\ \A i \in 1 .. Len(s) : s[i] \in Nat
  OBVIOUS
<1>1. \A i \in d + 1 .. Len(s) : s[i] \in Nat
  BY <1>0
<1>2. /\ t \in Seq(Nat)
      /\ Len(t) = IF d + 1 <= Len(s) THEN Len(s) - (d + 1) + 1 ELSE 0
      /\ \A i \in 1 .. Len(s) - (d + 1) + 1 : t[i] = s[d + 1 + i - 1]
  BY <1>0, <1>1, SubSeqProperties
<1> HIDE DEF t
<1>3. Len(t) = Len(s) - d
  BY <1>0, <1>2
<1>4. \A i \in 1 .. Len(t) : t[i] = s[d + i] /\ d + i \in 1 .. Len(s)
  BY <1>0, <1>2, <1>3
<1> QED
  BY <1>2, <1>3, <1>4 DEF t

\* The paths removed are the first d.
LEMMA RemovedPaths ==
    ASSUME NEW s \in Seq(Nat), NEW d \in 0 .. Len(s)
    PROVE  ElementsOf(SubSeq(s, 1, d)) = {s[i] : i \in 1 .. d}
<1> DEFINE t == SubSeq(s, 1, d)
<1>0. Len(s) \in Nat /\ DOMAIN s = 1 .. Len(s)
  OBVIOUS
<1>1. \A i \in 1 .. d : s[i] \in Nat
  BY <1>0
<1>2. /\ Len(t) = IF 1 <= d THEN d - 1 + 1 ELSE 0
      /\ \A i \in 1 .. d - 1 + 1 : t[i] = s[1 + i - 1]
  BY <1>0, <1>1, SubSeqProperties
<1>3. Len(t) = d
  BY <1>0, <1>2
<1>4. \A i \in 1 .. d : t[i] = s[i]
  BY <1>0, <1>2
<1> QED
  BY <1>3, <1>4 DEF ElementsOf

-----------------------------------------------------------------------------
(* The two rotations of a save                                             *)

\* What is left when the first d paths of the list s of role r and their files
\* are removed: an ascending list, complete on disk, and every other file.
Rotated(r, s, d) ==
    /\ saved' \in [Role -> Seq(Nat)]
    /\ \A q \in Role \ {r} : saved'[q] = saved[q]
    /\ Len(saved'[r]) = Len(s) - d
    /\ \A i \in 1 .. Len(saved'[r]) : d + i \in 1 .. Len(s) /\ saved'[r][i] = s[d + i]
    /\ \A i, j \in 1 .. Len(saved'[r]) : i < j => saved'[r][i] < saved'[r][j]
    /\ \A i \in 1 .. Len(saved'[r]) : \A n \in Ranks : <<r, saved'[r][i], n>> \in DOMAIN shards'
    /\ DOMAIN shards' \subseteq DOMAIN shards
    /\ \A q \in DOMAIN shards' : shards'[q] = shards[q]
    /\ \A q \in DOMAIN shards :
          q[1] # r \/ (\A i \in 1 .. d : q[2] # s[i]) => q \in DOMAIN shards'

LEMMA Rotation ==
    ASSUME CheckpointTypeOK, NEW r \in Role, NEW s \in Seq(Nat), NEW d \in 0 .. Len(s),
           \A i, j \in 1 .. Len(s) : i < j => s[i] < s[j],
           \A i \in 1 .. Len(s) : \A n \in Ranks : <<r, s[i], n>> \in DOMAIN shards,
           shards' = Without(r, ElementsOf(SubSeq(s, 1, d))),
           saved' = [saved EXCEPT ![r] = SubSeq(s, d + 1, Len(s))]
    PROVE  Rotated(r, s, d)
<1> DEFINE t == SubSeq(s, d + 1, Len(s))
<1>0. Len(s) \in Nat /\ \A i \in 1 .. Len(s) : s[i] \in Nat
  OBVIOUS
<1>1. /\ t \in Seq(Nat)
      /\ Len(t) = Len(s) - d
      /\ \A i \in 1 .. Len(t) : t[i] = s[d + i] /\ d + i \in 1 .. Len(s)
  BY Trimmed
<1>2. shards' = [q \in {q \in DOMAIN shards : ~(q[1] = r /\ q[2] \in {s[i] : i \in 1 .. d})} |-> shards[q]]
  BY RemovedPaths DEF Without
<1>3. saved' \in [Role -> Seq(Nat)] /\ saved'[r] = t /\ \A q \in Role \ {r} : saved'[q] = saved[q]
  BY <1>1 DEF CheckpointTypeOK
<1> HIDE DEF t
<1>4. \A i, j \in 1 .. Len(t) : i < j => t[i] < t[j]
  <2> SUFFICES ASSUME NEW i \in 1 .. Len(t), NEW j \in 1 .. Len(t), i < j
               PROVE  t[i] < t[j]
    OBVIOUS
  <2>1. d + i \in 1 .. Len(s) /\ d + j \in 1 .. Len(s) /\ d + i < d + j
    BY <1>1
  <2>2. t[i] = s[d + i] /\ t[j] = s[d + j]
    BY <1>1
  <2> QED
    BY <2>1, <2>2
<1>5. ASSUME NEW i \in 1 .. Len(t), NEW n \in Ranks PROVE <<r, t[i], n>> \in DOMAIN shards'
  <2>1. t[i] = s[d + i] /\ d + i \in 1 .. Len(s)
    BY <1>1
  <2>2. \A j \in 1 .. d : s[j] # t[i]
    <3> TAKE j \in 1 .. d
    <3>1. j \in 1 .. Len(s) /\ j < d + i
      BY <1>0, <1>1
    <3> QED
      BY <1>0, <2>1, <3>1
  <2> DEFINE q == <<r, t[i], n>>
  <2>3. q \in DOMAIN shards /\ q[2] = t[i]
    BY <2>1
  <2>4. q[2] \notin {s[j] : j \in 1 .. d}
    BY <2>2, <2>3
  <2> HIDE DEF q
  <2>5. q \in DOMAIN shards'
    BY <1>2, <2>3, <2>4
  <2> QED
    BY <2>5 DEF q
<1>6. /\ DOMAIN shards' \subseteq DOMAIN shards
      /\ \A q \in DOMAIN shards' : shards'[q] = shards[q]
      /\ \A q \in DOMAIN shards :
            q[1] # r \/ (\A i \in 1 .. d : q[2] # s[i]) => q \in DOMAIN shards'
  BY <1>2
<1> QED
  BY <1>1, <1>3, <1>4, <1>5, <1>6 DEF Rotated

\* Making room before a role is saved: all but the last registered path may go.
LEMMA RotationBefore ==
    ASSUME Retention, EnsureCapacity
    PROVE  /\ SavingRole \in Role
           /\ \E d \in 0 .. Len(saved[SavingRole]) :
                 /\ d > 0 => d < Len(saved[SavingRole])
                 /\ Rotated(SavingRole, saved[SavingRole], d)
<1> DEFINE r == SavingRole
           n == Len(saved[r])
           d == IF Keep[r] > 1 /\ n >= Keep[r] THEN n - Keep[r] + 1 ELSE 0
<1>1. r \in Role /\ Keep[r] \in Nat
  BY RoleFacts DEF Retention, CheckpointTypeOK, SavingRole
<1>2. CheckpointTypeOK /\ saved[r] \in Seq(Nat) /\ n \in Nat
  BY <1>1 DEF Retention, CheckpointTypeOK
<1>3. d \in 0 .. n /\ (d > 0 => d < n)
  BY <1>1, <1>2
<1>4. /\ shards' = Without(r, ElementsOf(SubSeq(saved[r], 1, d)))
      /\ saved' = [saved EXCEPT ![r] = SubSeq(saved[r], d + 1, n)]
  BY DEF EnsureCapacity
<1>5. /\ \A i, j \in 1 .. n : i < j => saved[r][i] < saved[r][j]
      /\ \A i \in 1 .. n : \A m \in Ranks : <<r, saved[r][i], m>> \in DOMAIN shards
  BY <1>1 DEF Retention, Registered
<1> HIDE DEF d
<1>6. Rotated(r, saved[r], d)
  BY <1>1, <1>2, <1>3, <1>4, <1>5, Rotation
<1> QED
  BY <1>1, <1>3, <1>6

\* Registering a role that was saved: the new path is the greatest, and unless
\* the limit is one all but the last of the older ones may go.
LEMMA RotationAfter ==
    ASSUME Retention, Register
    PROVE  /\ SavingRole \in Role
           /\ \E d \in 0 .. Len(saved[SavingRole]) :
                 /\ d > 0 /\ Keep[SavingRole] # 1 => d < Len(saved[SavingRole])
                 /\ Keep[SavingRole] > 0 => Len(saved[SavingRole]) + 1 - d <= Keep[SavingRole]
                 /\ Rotated(SavingRole, Append(saved[SavingRole], globalSteps), d)
<1> DEFINE r == SavingRole
           k == Keep[r]
           n == Len(saved[r])
           s == Append(saved[r], globalSteps)
           d == IF k > 0 /\ n + 1 > k THEN n + 1 - k ELSE 0
<1>1. r \in Role /\ k \in Nat
  BY RoleFacts DEF Retention, CheckpointTypeOK, SavingRole
<1>2. CheckpointTypeOK /\ saved[r] \in Seq(Nat) /\ n \in Nat /\ globalSteps \in Nat
  BY <1>1 DEF Retention, CheckpointTypeOK
<1>3. /\ s \in Seq(Nat)
      /\ Len(s) = n + 1
      /\ \A i \in 1 .. n : s[i] = saved[r][i] /\ saved[r][i] \in Nat
      /\ s[n + 1] = globalSteps
  BY <1>2, AppendProperties
<1>4. /\ shards' = Without(r, ElementsOf(SubSeq(s, 1, d)))
      /\ saved' = [saved EXCEPT ![r] = SubSeq(s, d + 1, Len(s))]
  <2> DEFINE drop == IF k > 0 /\ Len(s) > k THEN Len(s) - k ELSE 0
  <2>1. /\ shards' = Without(r, ElementsOf(SubSeq(s, 1, drop)))
        /\ saved' = [saved EXCEPT ![r] = SubSeq(s, drop + 1, Len(s))]
    BY DEF Register
  <2> HIDE DEF s, n, k
  <2>2. drop = d
    BY <1>1, <1>2, <1>3
  <2> QED
    BY <2>1, <2>2
<1>5. /\ d \in 0 .. n
      /\ d > 0 /\ k # 1 => d < n
      /\ k > 0 => n + 1 - d <= k
  <2>1. k > 0 => n <= k
    BY <1>1 DEF Retention, Registered
  <2> HIDE DEF n, k
  <2> QED
    BY <1>1, <1>2, <2>1
<1> HIDE DEF d, s, n
<1>6. \A i, j \in 1 .. Len(s) : i < j => s[i] < s[j]
  <2>1. \A i \in 1 .. n : saved[r][i] < globalSteps
    <3>1. pc = "write" /\ Saving /\ ~RoleSaved(r)
      <4>1. pc = "write" /\ Saving
        BY DEF Register, Saving
      <4>2. \A j \in 1 .. roleIndex - 1 : Roles[j] # r
        BY <1>2, RoleFacts DEF CheckpointTypeOK, SavingRole
      <4> QED
        BY <4>1, <4>2 DEF RoleSaved
    <3> QED
      BY <1>1, <3>1 DEF Retention, NotAhead, n
  <2>2. \A i, j \in 1 .. n : i < j => saved[r][i] < saved[r][j]
    BY <1>1 DEF Retention, Registered, n
  <2> SUFFICES ASSUME NEW i \in 1 .. Len(s), NEW j \in 1 .. Len(s), i < j
               PROVE  s[i] < s[j]
    OBVIOUS
  <2>3. i \in 1 .. n /\ s[i] = saved[r][i]
    BY <1>2, <1>3
  <2>4. CASE j = n + 1
    BY <1>3, <2>1, <2>3, <2>4
  <2>5. CASE j # n + 1
    <3>1. j \in 1 .. n /\ s[j] = saved[r][j]
      BY <1>2, <1>3, <2>5
    <3> QED
      BY <2>2, <2>3, <3>1
  <2> QED
    BY <2>4, <2>5
<1>7. \A i \in 1 .. Len(s) : \A m \in Ranks : <<r, s[i], m>> \in DOMAIN shards
  <2>1. \A m \in Ranks : <<r, globalSteps, m>> \in DOMAIN shards
    BY DEF Retention, Written, Register
  <2>2. \A i \in 1 .. n : \A m \in Ranks : <<r, saved[r][i], m>> \in DOMAIN shards
    BY <1>1 DEF Retention, Registered, n
  <2> SUFFICES ASSUME NEW i \in 1 .. Len(s) PROVE \A m \in Ranks : <<r, s[i], m>> \in DOMAIN shards
    OBVIOUS
  <2>3. CASE i = n + 1
    BY <1>3, <2>1, <2>3
  <2>4. CASE i # n + 1
    BY <1>2, <1>3, <2>2, <2>4
  <2> QED
    BY <2>3, <2>4
<1>8. d \in 0 .. Len(s)
  BY <1>2, <1>3, <1>5
<1>9. Rotated(r, s, d)
  BY <1>1, <1>2, <1>3, <1>4, <1>6, <1>7, <1>8, Rotation
<1> QED
  BY <1>1, <1>5, <1>9 DEF s, n

-----------------------------------------------------------------------------
(* Retention is inductive                                                  *)

LEMMA InitRetention == CheckpointInit => Retention
<1> SUFFICES ASSUME CheckpointInit PROVE Retention
  OBVIOUS
<1>1. saved \in [Role -> Seq(Nat)] /\ \A r \in Role : Len(saved[r]) = 0
  BY DEF CheckpointInit
<1>2. DOMAIN shards = {} /\ DOMAIN dataFiles = {} /\ history \in Seq(Batch)
  BY DEF CheckpointInit
<1>3. loader \in Loader /\ Started(loader)
  BY DEF CheckpointInit, FreshLoader, Loader, Started
<1>4. 1 \in 1 .. Len(Roles)
  BY RoleFacts
<1>5. CheckpointTypeOK
  BY <1>1, <1>2, <1>3, <1>4 DEF CheckpointInit, CheckpointTypeOK
<1> QED
  BY <1>1, <1>2, <1>3, <1>5, RoleFacts
  DEF CheckpointInit, Retention, LoadersStarted, Registered, NotAhead, Written, RoleSaved

\* The type of what one more batch makes of the training state.
LEMMA OneMoreBatch ==
    ASSUME CheckpointTypeOK, Started(loader), loader.yielded < StepsPerEpoch
    PROVE  /\ NextLoader \in Loader
           /\ Started(NextLoader)
           /\ [order |-> NextLoader.draws, pos |-> NextLoader.yielded] \in Batch
<1>1. loader.draws \in Nat /\ loader.yielded \in 0 .. StepsPerEpoch
  BY DEF CheckpointTypeOK, Loader
<1>2. NextLoader.draws \in Nat \ {0} /\ NextLoader.yielded \in 1 .. StepsPerEpoch
  BY <1>1 DEF NextLoader, Started
<1> QED
  BY <1>2 DEF NextLoader, Loader, Batch, Started

\* A resumed dataloader is a saved one or a fresh one.
LEMMA Resumed ==
    ASSUME CheckpointTypeOK, LoadersStarted, NEW k
    PROVE  ResumedLoader(k) \in Loader /\ Started(ResumedLoader(k))
<1>1. FreshLoader \in Loader /\ Started(FreshLoader)
  BY DEF FreshLoader, Loader, Started
<1> QED
  BY <1>1 DEF ResumedLoader, CheckpointTypeOK, LoadersStarted

\* At the end of an epoch the iterator starts anew.
LEMMA EpochEnded ==
    ASSUME CheckpointTypeOK
    PROVE  [loader EXCEPT !.yielded = 0] \in Loader /\ Started([loader EXCEPT !.yielded = 0])
<1>1. loader \in [draws : Nat, yielded : 0 .. StepsPerEpoch] /\ 0 \in 0 .. StepsPerEpoch
  BY DEF CheckpointTypeOK, Loader
<1>2. [loader EXCEPT !.yielded = 0] \in [draws : Nat, yielded : 0 .. StepsPerEpoch]
  BY <1>1
<1>3. [loader EXCEPT !.yielded = 0].yielded = 0
  BY <1>1
<1> QED
  BY <1>2, <1>3 DEF Loader, Started

\* The epoch a step falls into.
LEMMA QuotientIsNat == ASSUME NEW a \in Nat, NEW b \in Nat \ {0} PROVE a \div b \in Nat
<1>1. a \div b \in Int
  OBVIOUS
<1>2. a = b * (a \div b) + (a % b) /\ a % b \in 0 .. b - 1
  OBVIOUS
<1>3. \A q \in Int : q < 0 => b * q <= -b
  OBVIOUS
<1> QED
  BY <1>1, <1>2, <1>3

LEMMA TypeStep == Retention /\ [CheckpointNext]_checkpointVars => CheckpointTypeOK' /\ LoadersStarted'
<1> SUFFICES ASSUME Retention, CheckpointTypeOK, LoadersStarted, [CheckpointNext]_checkpointVars
             PROVE  CheckpointTypeOK' /\ LoadersStarted'
  BY DEF Retention
<1> USE DEF CheckpointTypeOK, LoadersStarted, disk, fitVars
<1>1. CASE LaunchFresh
  <2>1. FreshLoader \in Loader /\ Started(FreshLoader)
    BY DEF FreshLoader, Loader, Started
  <2> QED
    BY <1>1, <2>1 DEF LaunchFresh, Launch
<1>2. CASE LaunchResume
  <2>1. tracker \in Nat
    BY <1>2 DEF LaunchResume, NothingToResume
  <2>2. loader' \in Loader /\ Started(loader)'
    BY <1>2, Resumed DEF LaunchResume, Started
  <2>3. history' \in Seq(Batch)
    <3>1. PICK n \in Ranks : history' = shards[<<"actor", tracker, n>>]
      BY <1>2 DEF LaunchResume
    <3>2. <<"actor", tracker, n>> \in DOMAIN shards
      BY <1>2, RoleFacts DEF LaunchResume, Complete
    <3> QED
      BY <3>1, <3>2
  <2>4. epoch' \in Nat
    <3>1. epoch' = tracker \div StepsPerEpoch
      BY <1>2 DEF LaunchResume
    <3> QED
      BY <2>1, <3>1, QuotientIsNat
  <2> QED
    BY <1>2, <2>1, <2>2, <2>3, <2>4 DEF LaunchResume, Launch
<1>3. CASE LaunchFails
  BY <1>3 DEF LaunchFails, Launch
<1>4. CASE TrainStep
  <2>1. loader' \in Loader /\ Started(loader)' /\ history' \in Seq(Batch)
    BY <1>4, OneMoreBatch DEF TrainStep, Started
  <2>2. pc' \in {"capacity", "advance"}
    BY <1>4 DEF TrainStep
  <2>3. 1 \in 1 .. Len(Roles)
    BY RoleFacts
  <2> QED
    BY <1>4, <2>1, <2>2, <2>3 DEF TrainStep
<1>5. CASE EndEpoch
  <2>1. loader' \in Loader /\ Started(loader)'
    BY <1>5, EpochEnded DEF EndEpoch, Started
  <2>2. epoch' \in Nat
    BY <1>5 DEF EndEpoch
  <2>3. UNCHANGED <<dataFiles, pc, launches, globalSteps, history, roleIndex, written, saved, durable>>
    BY <1>5 DEF EndEpoch
  <2>4. LoadersStarted'
    BY <2>1, <2>3 DEF Started
  <2>5. CheckpointTypeOK'
    BY <1>5, <2>1, <2>2, <2>3 DEF EndEpoch
  <2> QED
    BY <2>4, <2>5
<1>6. CASE EndOfEpochs
  BY <1>6 DEF EndOfEpochs
<1>7. CASE Advance
  BY <1>7 DEF Advance
<1>8. CASE EnsureCapacity
  BY <1>8, RotationBefore DEF EnsureCapacity, Rotated
<1>9. CASE \E n \in Ranks : WriteShard(n)
  <2>1. PICK n \in Ranks : WriteShard(n)
    BY <1>9
  <2>2. SavingRole \in Role
    BY RoleFacts DEF SavingRole
  <2> QED
    BY <2>1, <2>2 DEF WriteShard
<1>10. CASE Register
  <2>1. roleIndex' \in 1 .. Len(Roles) /\ pc' \in {"capacity", "data"}
    BY <1>10, RoleFacts DEF Register
  <2> QED
    BY <1>10, <2>1, RotationAfter DEF Register, Rotated
<1>11. CASE SaveDataloader
  BY <1>11 DEF SaveDataloader
<1>12. CASE OpenTracker
  BY <1>12 DEF OpenTracker
<1>13. CASE WriteTracker
  BY <1>13 DEF WriteTracker
<1>14. CASE Crash
  BY <1>14 DEF Crash
<1>15. CASE UNCHANGED checkpointVars
  BY <1>15 DEF checkpointVars
<1> QED
  BY <1>1, <1>2, <1>3, <1>4, <1>5, <1>6, <1>7, <1>8, <1>9, <1>10, <1>11, <1>12, <1>13, <1>14,
     <1>15 DEF CheckpointNext

\* A step that neither touches the lists nor removes a shard keeps them valid.
LEMMA RegisteredKept ==
    ASSUME Registered, saved' = saved, DOMAIN shards \subseteq DOMAIN shards'
    PROVE  Registered'
  BY DEF Registered

\* A launch forgets the lists.
LEMMA RegisteredFresh ==
    ASSUME saved' = [r \in Role |-> <<>>]
    PROVE  Registered' /\ NotAhead'
<1>1. \A r \in Role : Len(saved'[r]) = 0
  OBVIOUS
<1> QED
  BY <1>1, RoleFacts DEF Registered, NotAhead

LEMMA RegisteredStep == Retention /\ [CheckpointNext]_checkpointVars => Registered'
<1> SUFFICES ASSUME Retention, Registered, CheckpointTypeOK, [CheckpointNext]_checkpointVars PROVE Registered'
  BY DEF Retention
<1>1. CASE LaunchFresh \/ LaunchResume
  BY <1>1, RegisteredFresh DEF LaunchFresh, LaunchResume
<1>2. CASE EnsureCapacity
  <2>1. PICK d \in 0 .. Len(saved[SavingRole]) : Rotated(SavingRole, saved[SavingRole], d)
    BY <1>2, RotationBefore
  <2>2. SavingRole \in Role /\ Len(saved[SavingRole]) \in Nat
    BY <1>2, RotationBefore DEF CheckpointTypeOK
  <2>3. ASSUME NEW r \in Role, r # SavingRole, NEW i \in 1 .. Len(saved[r]), NEW n \in Ranks
        PROVE  <<r, saved[r][i], n>> \in DOMAIN shards'
    BY <2>1, <2>3 DEF Registered, Rotated
  <2>4. \A r \in Role \ {SavingRole} : saved'[r] = saved[r]
    BY <2>1 DEF Rotated
  <2>5. /\ \A i, j \in 1 .. Len(saved'[SavingRole]) :
              i < j => saved'[SavingRole][i] < saved'[SavingRole][j]
        /\ \A i \in 1 .. Len(saved'[SavingRole]) : \A n \in Ranks :
              <<SavingRole, saved'[SavingRole][i], n>> \in DOMAIN shards'
        /\ Len(saved'[SavingRole]) = Len(saved[SavingRole]) - d
    BY <2>1 DEF Rotated
  <2>6. Keep[SavingRole] > 0 => Len(saved'[SavingRole]) <= Keep[SavingRole]
    BY <2>2, <2>5, RoleFacts DEF Registered
  <2> QED
    BY <2>3, <2>4, <2>5, <2>6 DEF Registered
<1>3. CASE Register
  <2> DEFINE s == Append(saved[SavingRole], globalSteps)
  <2>1. PICK d \in 0 .. Len(saved[SavingRole]) :
            /\ Keep[SavingRole] > 0 => Len(saved[SavingRole]) + 1 - d <= Keep[SavingRole]
            /\ Rotated(SavingRole, s, d)
    BY <1>3, RotationAfter
  <2>2. SavingRole \in Role /\ Len(s) = Len(saved[SavingRole]) + 1 /\ Len(saved[SavingRole]) \in Nat
    BY <1>3, RotationAfter, AppendProperties DEF CheckpointTypeOK
  <2>3. ASSUME NEW r \in Role, r # SavingRole, NEW i \in 1 .. Len(saved[r]), NEW n \in Ranks
        PROVE  <<r, saved[r][i], n>> \in DOMAIN shards'
    BY <2>1, <2>3 DEF Registered, Rotated
  <2> HIDE DEF s
  <2>4. \A r \in Role \ {SavingRole} : saved'[r] = saved[r]
    BY <2>1 DEF Rotated
  <2>5. /\ \A i, j \in 1 .. Len(saved'[SavingRole]) :
              i < j => saved'[SavingRole][i] < saved'[SavingRole][j]
        /\ \A i \in 1 .. Len(saved'[SavingRole]) : \A n \in Ranks :
              <<SavingRole, saved'[SavingRole][i], n>> \in DOMAIN shards'
        /\ Len(saved'[SavingRole]) = Len(s) - d
    BY <2>1 DEF Rotated
  <2>6. Keep[SavingRole] > 0 => Len(saved'[SavingRole]) <= Keep[SavingRole]
    BY <2>1, <2>2, <2>5
  <2> QED
    BY <2>3, <2>4, <2>5, <2>6 DEF Registered
<1>4. CASE \E n \in Ranks : WriteShard(n)
  <2>1. saved' = saved /\ DOMAIN shards \subseteq DOMAIN shards'
    BY <1>4 DEF WriteShard
  <2> QED
    BY <2>1, RegisteredKept
<1>5. CASE UNCHANGED <<shards, saved>>
  BY <1>5, RegisteredKept
<1> QED
  BY <1>1, <1>2, <1>3, <1>4, <1>5
  DEF CheckpointNext, LaunchFails, TrainStep, EndEpoch, EndOfEpochs, Advance, SaveDataloader, OpenTracker,
      WriteTracker, Crash, checkpointVars, disk, fitVars

LEMMA NotAheadStep == Retention /\ [CheckpointNext]_checkpointVars => NotAhead'
<1> SUFFICES ASSUME Retention, CheckpointTypeOK, NotAhead, [CheckpointNext]_checkpointVars PROVE NotAhead'
  BY DEF Retention
<1> DEFINE Bounded(r) ==
        \A i \in 1 .. Len(saved[r]) :
            /\ Live => saved[r][i] <= globalSteps
            /\ pc = "fit" \/ (Saving /\ ~RoleSaved(r)) => saved[r][i] < globalSteps
<1>0. /\ globalSteps \in Nat
      /\ \A r \in Role : Len(saved[r]) \in Nat /\ \A i \in 1 .. Len(saved[r]) : saved[r][i] \in Nat
      /\ \A r \in Role : Bounded(r)
  BY DEF CheckpointTypeOK, NotAhead
<1>1. CASE LaunchFresh \/ LaunchResume
  BY <1>1, RegisteredFresh DEF LaunchFresh, LaunchResume
<1>2. CASE LaunchFails \/ EndOfEpochs \/ Crash
  <2>1. ~Live' /\ pc' # "fit" /\ ~Saving'
    BY <1>2 DEF LaunchFails, EndOfEpochs, Crash, Live, Saving
  <2> QED
    BY <2>1 DEF NotAhead
<1>3. CASE TrainStep \/ EndEpoch
  <2>1. pc = "fit" /\ saved' = saved /\ globalSteps' = globalSteps
    BY <1>3 DEF TrainStep, EndEpoch, fitVars
  <2> QED
    BY <1>0, <2>1 DEF NotAhead
<1>4. CASE Advance
  <2>1. Live /\ saved' = saved /\ globalSteps' = globalSteps + 1
    BY <1>4 DEF Advance, Live
  <2> QED
    BY <1>0, <2>1 DEF NotAhead
<1>5. CASE EnsureCapacity
  <2>1. PICK d \in 0 .. Len(saved[SavingRole]) : Rotated(SavingRole, saved[SavingRole], d)
    BY <1>5, RotationBefore
  <2>2. /\ pc = "capacity" /\ pc' = "write"
        /\ globalSteps' = globalSteps /\ roleIndex' = roleIndex
    BY <1>5 DEF EnsureCapacity, fitVars
  <2>3. Live /\ Saving /\ \A r \in Role : RoleSaved(r)' <=> RoleSaved(r)
    BY <2>2 DEF Live, Saving, RoleSaved
  <2> SUFFICES ASSUME NEW r \in Role, NEW i \in 1 .. Len(saved'[r])
               PROVE  saved'[r][i] <= globalSteps /\ (~RoleSaved(r) => saved'[r][i] < globalSteps)
    BY <2>2, <2>3 DEF NotAhead
  <2>4. \E j \in 1 .. Len(saved[r]) : saved'[r][i] = saved[r][j]
    BY <2>1 DEF Rotated
  <2> QED
    BY <1>0, <2>3, <2>4
<1>6. CASE Register
  <2> DEFINE s == Append(saved[SavingRole], globalSteps)
  <2>1. PICK d \in 0 .. Len(saved[SavingRole]) : Rotated(SavingRole, s, d)
    BY <1>6, RotationAfter
  <2>2. /\ pc = "write" /\ pc' \in {"capacity", "data"} /\ globalSteps' = globalSteps
        /\ pc' = "capacity" => roleIndex' = roleIndex + 1
    BY <1>6 DEF Register, fitVars
  <2>3. roleIndex \in Nat \ {0}
    BY RoleFacts DEF CheckpointTypeOK
  <2>4. Live /\ Saving
    BY <2>2 DEF Live, Saving
  <2>5. \A r \in Role : r = SavingRole \/ RoleSaved(r) => RoleSaved(r)'
    <3> SUFFICES ASSUME NEW r \in Role, r = Roles[roleIndex] \/ RoleSaved(r), pc' = "capacity"
                 PROVE  \E j \in 1 .. roleIndex' - 1 : Roles[j] = r
      BY <2>2 DEF RoleSaved, SavingRole
    <3>1. roleIndex' - 1 = roleIndex
      BY <2>2, <2>3
    <3>2. RoleSaved(r) => \E j \in 1 .. roleIndex - 1 : Roles[j] = r
      BY <2>2 DEF RoleSaved
    <3> QED
      BY <2>3, <3>1, <3>2
  <2>6. pc' # "fit"
    BY <2>2
  <2>7. ASSUME NEW r \in Role, r # SavingRole, NEW i \in 1 .. Len(saved'[r])
        PROVE  saved'[r][i] <= globalSteps /\ (~RoleSaved(r)' => saved'[r][i] < globalSteps)
    <3>1. saved'[r] = saved[r]
      BY <2>1, <2>7 DEF Rotated
    <3> QED
      BY <1>0, <2>4, <2>5, <3>1
  <2>8. ASSUME NEW i \in 1 .. Len(saved'[SavingRole])
        PROVE  saved'[SavingRole][i] <= globalSteps
    <3>1. SavingRole \in Role
      BY <1>6, RotationAfter
    <3>2. \E j \in 1 .. Len(s) : saved'[SavingRole][i] = s[j]
      BY <2>1 DEF Rotated
    <3>3. saved[SavingRole] \in Seq(Nat)
      BY <3>1 DEF CheckpointTypeOK
    <3>4. /\ Len(s) = Len(saved[SavingRole]) + 1
          /\ \A j \in 1 .. Len(saved[SavingRole]) : s[j] = saved[SavingRole][j]
          /\ s[Len(saved[SavingRole]) + 1] = globalSteps
      BY <1>0, <3>3, AppendProperties
    <3> HIDE DEF s
    <3>5. \A j \in 1 .. Len(s) : s[j] <= globalSteps
      BY <1>0, <2>4, <3>1, <3>4
    <3> QED
      BY <3>2, <3>5
  <2> QED
    BY <2>2, <2>5, <2>6, <2>7, <2>8 DEF NotAhead
<1>7. CASE (\E n \in Ranks : WriteShard(n)) \/ SaveDataloader \/ OpenTracker \/ WriteTracker \/ UNCHANGED checkpointVars
  <2>1. /\ saved' = saved /\ globalSteps' = globalSteps /\ roleIndex' = roleIndex
        /\ \/ pc' = pc
           \/ pc = "data" /\ pc' = "open"
           \/ pc = "open" /\ pc' = "number"
           \/ pc = "number" /\ pc' = "advance"
    BY <1>7 DEF WriteShard, SaveDataloader, OpenTracker, WriteTracker, checkpointVars, fitVars
  <2>2. /\ Live' => Live
        /\ pc' = "fit" => pc = "fit"
        /\ Saving' => Saving
        /\ \A r \in Role : RoleSaved(r) => RoleSaved(r)' \/ ~Saving'
    BY <2>1 DEF Live, Saving, RoleSaved
  <2>3. ASSUME NEW r \in Role, NEW i \in 1 .. Len(saved[r])
        PROVE  /\ Live' => saved[r][i] <= globalSteps
               /\ pc' = "fit" \/ (Saving' /\ ~RoleSaved(r)') => saved[r][i] < globalSteps
    BY <1>0, <2>2
  <2> QED
    BY <2>1, <2>3 DEF NotAhead
<1> QED
  BY <1>1, <1>2, <1>3, <1>4, <1>5, <1>6, <1>7 DEF CheckpointNext

\* A role being saved is not registered in this save yet.
LEMMA SavingRoleFacts ==
    ASSUME CheckpointTypeOK, pc \in {"capacity", "write"}
    PROVE  SavingRole \in Role /\ ~RoleSaved(SavingRole)
<1>1. roleIndex \in 1 .. Len(Roles) /\ Len(Roles) \in Nat \ {0}
  BY RoleFacts DEF CheckpointTypeOK
<1>2. \A j \in 1 .. roleIndex - 1 : Roles[j] # Roles[roleIndex]
  BY <1>1, RoleFacts
<1> QED
  BY <1>1, <1>2, RoleFacts DEF RoleSaved, SavingRole

\* Register adds that role to those of this save, and no other.
LEMMA RegisteredRoles ==
    ASSUME CheckpointTypeOK, Register, NEW r \in Role, RoleSaved(r)'
    PROVE  r = SavingRole \/ RoleSaved(r)
<1>1. roleIndex \in 1 .. Len(Roles) /\ Len(Roles) \in Nat \ {0}
  BY RoleFacts DEF CheckpointTypeOK
<1>2. PICK j \in 1 .. Len(Roles) : Roles[j] = r
  BY RoleFacts
<1>3. pc = "write"
  BY DEF Register
<1>4. CASE roleIndex < Len(Roles)
  <2>1. pc' = "capacity" /\ roleIndex' - 1 = roleIndex
    BY <1>1, <1>4 DEF Register
  <2>2. PICK i \in 1 .. roleIndex : Roles[i] = r
    BY <2>1 DEF RoleSaved
  <2>3. i = roleIndex \/ i \in 1 .. roleIndex - 1
    BY <1>1, <2>2
  <2> QED
    BY <1>3, <2>2, <2>3 DEF RoleSaved, SavingRole
<1>5. CASE ~(roleIndex < Len(Roles))
  <2>1. j = roleIndex \/ j \in 1 .. roleIndex - 1
    BY <1>1, <1>2, <1>5
  <2> QED
    BY <1>2, <1>3, <2>1 DEF RoleSaved, SavingRole
<1> QED
  BY <1>4, <1>5

LEMMA WrittenStep == Retention /\ [CheckpointNext]_checkpointVars => Written'
<1> SUFFICES ASSUME Retention, CheckpointTypeOK, Written, [CheckpointNext]_checkpointVars PROVE Written'
  BY DEF Retention
<1>1. CASE \/ LaunchFresh \/ LaunchResume \/ LaunchFails \/ EndEpoch \/ EndOfEpochs \/ Advance
           \/ Crash \/ WriteTracker
  <2>1. pc' \in {"fit", "stuck", "done", "off", "advance"}
    BY <1>1 DEF LaunchFresh, LaunchResume, LaunchFails, EndEpoch, EndOfEpochs, Advance, Crash,
                WriteTracker
  <2> QED
    BY <2>1 DEF Written, RoleSaved
<1>2. CASE TrainStep
  <2>1. pc' \in {"capacity", "advance"} /\ roleIndex' = 1 /\ written' = {}
    BY <1>2 DEF TrainStep
  <2>2. \A r \in Role : ~RoleSaved(r)'
    BY <2>1 DEF RoleSaved
  <2> QED
    BY <2>1, <2>2 DEF Written
<1>3. CASE EnsureCapacity
  <2>1. PICK d \in 0 .. Len(saved[SavingRole]) : Rotated(SavingRole, saved[SavingRole], d)
    BY <1>3, RotationBefore
  <2>2. /\ pc = "capacity" /\ pc' = "write" /\ written = {} /\ written' = {}
        /\ globalSteps' \in folders'
        /\ UNCHANGED <<globalSteps, history, roleIndex>>
    BY <1>3 DEF EnsureCapacity, fitVars, Written
  <2>3. ASSUME NEW r \in Role, RoleSaved(r)', NEW n \in Ranks
        PROVE  <<r, globalSteps, n>> \in DOMAIN shards' /\ shards'[<<r, globalSteps, n>>] = history
    <3>1. RoleSaved(r) /\ r # SavingRole
      BY <2>2, <2>3, SavingRoleFacts DEF RoleSaved
    <3>2. <<r, globalSteps, n>> \in DOMAIN shards /\ shards[<<r, globalSteps, n>>] = history
      BY <3>1 DEF Written
    <3> QED
      BY <2>1, <3>1, <3>2 DEF Rotated
  <2> QED
    BY <2>2, <2>3 DEF Written
<1>4. CASE \E n \in Ranks : WriteShard(n)
  <2>1. PICK n \in Ranks : WriteShard(n)
    BY <1>4
  <2> DEFINE path == <<SavingRole, globalSteps, n>>
  <2>2. /\ pc = "write" /\ pc' = "write" /\ written' = written \cup {n}
        /\ shards' = [p \in DOMAIN shards \cup {path} |-> IF p = path THEN history ELSE shards[p]]
        /\ UNCHANGED <<globalSteps, history, roleIndex, folders>>
    BY <2>1 DEF WriteShard, fitVars
  <2>3. \A p \in DOMAIN shards : p \in DOMAIN shards' /\ (shards[p] = history => shards'[p] = history)
    BY <2>2
  <2>4. path \in DOMAIN shards' /\ shards'[path] = history
    BY <2>2
  <2>5. SavingRole' = SavingRole /\ \A r \in Role : RoleSaved(r)' => RoleSaved(r)
    BY <2>2 DEF SavingRole, RoleSaved
  <2> QED
    BY <2>2, <2>3, <2>4, <2>5 DEF Written
<1>5. CASE Register
  <2> DEFINE r0 == SavingRole
             s == Append(saved[r0], globalSteps)
  <2>1. PICK d \in 0 .. Len(saved[r0]) : Rotated(r0, s, d)
    BY <1>5, RotationAfter
  <2>2. /\ pc = "write" /\ pc' \in {"capacity", "data"} /\ written = Ranks /\ written' = {}
        /\ UNCHANGED <<globalSteps, history, folders>>
    BY <1>5 DEF Register, fitVars
  <2>3. r0 \in Role /\ ~RoleSaved(r0) /\ Saving
    BY <2>2, SavingRoleFacts DEF Saving
  <2>4. \A i \in 1 .. d : s[i] # globalSteps
    <3>1. saved[r0] \in Seq(Nat) /\ globalSteps \in Nat
      BY <2>3 DEF CheckpointTypeOK
    <3>2. \A i \in 1 .. Len(saved[r0]) : saved[r0][i] < globalSteps /\ saved[r0][i] \in Nat
      BY <2>3, <3>1 DEF Retention, NotAhead
    <3>3. \A i \in 1 .. Len(saved[r0]) : s[i] = saved[r0][i]
      BY <3>1, AppendProperties
    <3>4. \A i \in 1 .. d : i \in 1 .. Len(saved[r0])
      BY <3>1
    <3> QED
      BY <3>1, <3>2, <3>3, <3>4
  <2> HIDE DEF s
  <2>5. ASSUME NEW r \in Role, RoleSaved(r)', NEW n \in Ranks
        PROVE  <<r, globalSteps, n>> \in DOMAIN shards' /\ shards'[<<r, globalSteps, n>>] = history
    <3>1. r = r0 \/ RoleSaved(r)
      BY <1>5, <2>5, RegisteredRoles
    <3>2. <<r, globalSteps, n>> \in DOMAIN shards /\ shards[<<r, globalSteps, n>>] = history
      BY <2>2, <3>1 DEF Written
    <3>3. r # r0 \/ (\A i \in 1 .. d : globalSteps # s[i])
      BY <2>4
    <3>4. <<r, globalSteps, n>>[1] = r /\ <<r, globalSteps, n>>[2] = globalSteps
      OBVIOUS
    <3> QED
      BY <2>1, <3>2, <3>3, <3>4 DEF Rotated
  <2> QED
    BY <2>2, <2>5 DEF Written
<1>6. CASE SaveDataloader
  <2>1. /\ pc = "data" /\ pc' = "open"
        /\ dataFiles' = [k \in DOMAIN dataFiles \cup {globalSteps} |->
                            IF k = globalSteps THEN loader ELSE dataFiles[k]]
        /\ UNCHANGED <<shards, globalSteps, history, loader, folders>>
    BY <1>6 DEF SaveDataloader, fitVars
  <2> QED
    BY <2>1 DEF Written, RoleSaved
<1>7. CASE OpenTracker
  <2>1. pc = "open" /\ pc' = "number" /\ UNCHANGED <<shards, dataFiles, globalSteps, history, loader, folders>>
    BY <1>7 DEF OpenTracker, fitVars
  <2> QED
    BY <2>1 DEF Written, RoleSaved
<1>8. CASE UNCHANGED checkpointVars
  BY <1>8 DEF checkpointVars, Written, RoleSaved, SavingRole
<1> QED
  BY <1>1, <1>2, <1>3, <1>4, <1>5, <1>6, <1>7, <1>8 DEF CheckpointNext

LEMMA RetentionInvariant == CheckpointSpec => []Retention
<1>1. Retention /\ [CheckpointNext]_checkpointVars => Retention'
  BY TypeStep, RegisteredStep, NotAheadStep, WrittenStep DEF Retention
<1> QED
  BY InitRetention, <1>1, PTL DEF CheckpointSpec

\* The state is typed in every behaviour: no schedule of saves and crashes
\* takes the driver's role index past the roles or a file to another name.
THEOREM TypeCorrect == CheckpointSpec => []CheckpointTypeOK
<1>1. Retention => CheckpointTypeOK
  BY DEF Retention
<1> QED
  BY RetentionInvariant, <1>1, PTL

\* Within a process, register_checkpoint keeps each role's list within its
\* limit, and nothing registered has lost a shard, whatever the limit.
THEOREM RetentionHolds == CheckpointSpec => []RetentionKept
<1>1. Retention => RetentionKept
  BY DEF Retention, Registered, RetentionKept
<1> QED
  BY RetentionInvariant, <1>1, PTL

-----------------------------------------------------------------------------
(* Durable is inductive unless a role keeps exactly one checkpoint         *)

\* The limits for which ensure_checkpoint_capacity and register_checkpoint
\* leave the last registered path alone until a newer one is registered.
KeepsLast == \A r \in Role : Keep[r] # 1

LEMMA InitDurable == CheckpointInit => Durable
  BY DEF CheckpointInit, NoTracker, EmptyTracker, Durable, Counted, TrackerBehind, TrackedIsLast, TrackedIsComplete,
         OnlyTornTrackerBlocks, Live, Saving

\* What a tracker that can be resumed from names.
LEMMA ResumableTracker ==
    ASSUME CheckpointTypeOK, TrackedIsComplete, ~NothingToResume, tracker # EmptyTracker
    PROVE  tracker \in Nat /\ \A n \in Ranks : Len(shards[<<"actor", tracker, n>>]) = tracker
<1>1. tracker \in Nat
  BY DEF CheckpointTypeOK, NothingToResume
<1> QED
  BY <1>1 DEF TrackedIsComplete

LEMMA CountedStep == Retention /\ Durable /\ [CheckpointNext]_checkpointVars => Counted'
<1> SUFFICES ASSUME CheckpointTypeOK, Durable, Counted, [CheckpointNext]_checkpointVars PROVE Counted'
  BY DEF Retention, Durable
<1>0. globalSteps \in Nat /\ history \in Seq(Batch) /\ Len(history) \in Nat
  BY DEF CheckpointTypeOK
<1>1. CASE LaunchFresh
  <2>1. pc' = "fit" /\ globalSteps' = 1 /\ history' = <<>>
    BY <1>1 DEF LaunchFresh
  <2> QED
    BY <2>1 DEF Counted, Saving
<1>2. CASE LaunchResume
  <2>1. pc' = "fit" /\ globalSteps' = tracker + 1 /\ \E n \in Ranks : history' = shards[<<"actor", tracker, n>>]
    BY <1>2 DEF LaunchResume
  <2>2. tracker \in Nat /\ Len(history') = tracker
    BY <1>2, <2>1, ResumableTracker DEF LaunchResume, Durable
  <2> QED
    BY <2>1, <2>2 DEF Counted, Saving
<1>3. CASE TrainStep
  <2> DEFINE b == [order |-> NextLoader.draws, pos |-> NextLoader.yielded]
  <2>1. /\ pc = "fit" /\ pc' \in {"capacity", "advance"} /\ loader' = NextLoader
        /\ history' = Append(history, b) /\ globalSteps' = globalSteps
        /\ loader.yielded < StepsPerEpoch
    BY <1>3 DEF TrainStep
  <2>2. Len(history) = globalSteps - 1 /\ globalSteps >= 1
    BY <2>1 DEF Counted, Live
  <2> HIDE DEF b
  <2>3. Len(history') = Len(history) + 1 /\ history'[Len(history) + 1] = b
    BY <1>0, <2>1
  <2>4. Len(history') = globalSteps' /\ history'[globalSteps'] = b
    BY <1>0, <2>1, <2>2, <2>3
  <2> QED
    BY <2>1, <2>2, <2>4 DEF Counted, Saving, b
<1>4. CASE EndEpoch
  <2>1. pc = "fit" /\ pc' = "fit" /\ UNCHANGED <<globalSteps, history>>
    BY <1>4 DEF EndEpoch
  <2> QED
    BY <2>1 DEF Counted, Live, Saving
<1>5. CASE Advance
  <2>1. pc = "advance" /\ pc' \in {"fit", "done"} /\ globalSteps' = globalSteps + 1 /\ history' = history
    BY <1>5 DEF Advance
  <2> QED
    BY <1>0, <2>1 DEF Counted, Live, Saving
<1>6. CASE LaunchFails \/ EndOfEpochs \/ Crash
  <2>1. pc' \in {"stuck", "done", "off"}
    BY <1>6 DEF LaunchFails, EndOfEpochs, Crash
  <2> QED
    BY <2>1 DEF Counted, Live, Saving
<1>7. CASE \/ EnsureCapacity \/ (\E n \in Ranks : WriteShard(n)) \/ Register \/ SaveDataloader
           \/ OpenTracker \/ WriteTracker
  <2>1. Saving /\ (Saving' \/ pc' = "advance") /\ pc' # "fit" /\ UNCHANGED fitVars
    BY <1>7 DEF EnsureCapacity, WriteShard, Register, SaveDataloader, OpenTracker, WriteTracker, Saving
  <2> QED
    BY <2>1 DEF Counted, Live, Saving, fitVars
<1>8. CASE UNCHANGED checkpointVars
  BY <1>8 DEF checkpointVars, Counted, Live, Saving
<1> QED
  BY <1>1, <1>2, <1>3, <1>4, <1>5, <1>6, <1>7, <1>8 DEF CheckpointNext

\* The folder of a tracked step exists.
TrackedHasFolder == tracker >= 0 => tracker \in folders

LEMMA TrackerBehindStep == CheckpointTypeOK /\ TrackerBehind /\ TrackedHasFolder /\ [CheckpointNext]_checkpointVars => TrackerBehind'
<1> SUFFICES ASSUME CheckpointTypeOK, TrackerBehind, TrackedHasFolder, [CheckpointNext]_checkpointVars PROVE TrackerBehind'
  OBVIOUS
<1>0. globalSteps \in Nat /\ tracker \in Nat \cup {-1, -2}
  BY DEF CheckpointTypeOK, NoTracker, EmptyTracker
<1>1. CASE LaunchFresh
  <2>1. pc' = "fit" /\ globalSteps' = 1 /\ tracker' = tracker /\ NothingToResume
    BY <1>1 DEF LaunchFresh, disk
  <2>2. tracker = -1
    BY <1>0, <2>1 DEF NothingToResume, NoTracker, TrackedHasFolder
  <2> QED
    BY <2>1, <2>2 DEF TrackerBehind, Saving, EmptyTracker
<1>2. CASE LaunchResume
  <2>1. pc' = "fit" /\ globalSteps' = tracker + 1 /\ tracker' = tracker /\ tracker # EmptyTracker
    BY <1>2 DEF LaunchResume, disk
  <2> QED
    BY <1>0, <2>1 DEF TrackerBehind, Saving
<1>3. CASE LaunchFails \/ Crash
  <2>1. pc' \in {"stuck", "off"}
    BY <1>3 DEF LaunchFails, Crash
  <2> QED
    BY <2>1 DEF TrackerBehind, Saving
<1>4. CASE TrainStep \/ EndEpoch \/ EndOfEpochs
  <2>1. pc = "fit" /\ UNCHANGED <<tracker, globalSteps>>
    BY <1>4 DEF TrainStep, EndEpoch, EndOfEpochs, disk, fitVars
  <2> QED
    BY <1>0, <2>1 DEF TrackerBehind
<1>5. CASE Advance
  <2>1. pc = "advance" /\ pc' \in {"fit", "done"} /\ globalSteps' = globalSteps + 1 /\ tracker' = tracker
    BY <1>5 DEF Advance, disk
  <2> QED
    BY <1>0, <2>1 DEF TrackerBehind, Saving
<1>6. CASE EnsureCapacity \/ (\E n \in Ranks : WriteShard(n)) \/ Register \/ SaveDataloader
  <2>1. /\ pc \in {"capacity", "write", "data"} /\ pc' \in {"capacity", "write", "data", "open"}
        /\ UNCHANGED <<tracker, globalSteps>>
    BY <1>6 DEF EnsureCapacity, WriteShard, Register, SaveDataloader, fitVars
  <2> QED
    BY <2>1 DEF TrackerBehind, Saving
<1>7. CASE OpenTracker
  <2>1. pc' = "number" /\ tracker' = -2 /\ globalSteps' = globalSteps
    BY <1>7 DEF OpenTracker, EmptyTracker, fitVars
  <2> QED
    BY <1>0, <2>1 DEF TrackerBehind
<1>8. CASE WriteTracker
  <2>1. pc' = "advance" /\ tracker' = globalSteps /\ globalSteps' = globalSteps
    BY <1>8 DEF WriteTracker, fitVars
  <2> QED
    BY <1>0, <2>1 DEF TrackerBehind, EmptyTracker, Saving
<1>9. CASE UNCHANGED checkpointVars
  BY <1>9 DEF checkpointVars, TrackerBehind, Saving
<1> QED
  BY <1>1, <1>2, <1>3, <1>4, <1>5, <1>6, <1>7, <1>8, <1>9 DEF CheckpointNext

LEMMA TrackedIsLastStep == Retention /\ Durable /\ [CheckpointNext]_checkpointVars => TrackedIsLast'
<1> SUFFICES ASSUME Retention, CheckpointTypeOK, TrackedIsLast, [CheckpointNext]_checkpointVars PROVE TrackedIsLast'
  BY DEF Retention, Durable
<1>0. \A r \in Role : Len(saved[r]) \in Nat /\ \A i \in 1 .. Len(saved[r]) : saved[r][i] \in Nat
  BY DEF CheckpointTypeOK
<1>1. CASE LaunchFresh \/ LaunchResume
  <2>1. \A r \in Role : Len(saved'[r]) = 0
    BY <1>1 DEF LaunchFresh, LaunchResume
  <2> QED
    BY <2>1 DEF TrackedIsLast
<1>2. CASE LaunchFails \/ EndOfEpochs \/ Crash
  <2>1. pc' \in {"stuck", "done", "off"}
    BY <1>2 DEF LaunchFails, EndOfEpochs, Crash
  <2> QED
    BY <2>1 DEF TrackedIsLast, Saving
<1>3. CASE TrainStep \/ EndEpoch \/ Advance
  <2>1. pc \in {"fit", "advance"} /\ UNCHANGED <<saved, tracker>>
    BY <1>3 DEF TrainStep, EndEpoch, Advance, disk
  <2> QED
    BY <2>1 DEF TrackedIsLast
<1>4. CASE EnsureCapacity
  <2>1. PICK d \in 0 .. Len(saved[SavingRole]) : Rotated(SavingRole, saved[SavingRole], d)
    BY <1>4, RotationBefore
  <2>2. pc = "capacity" /\ pc' = "write" /\ UNCHANGED <<tracker, roleIndex>>
    BY <1>4 DEF EnsureCapacity
  <2>3. SavingRole \in Role /\ Saving /\ \A r \in Role : RoleSaved(r)' <=> RoleSaved(r)
    BY <2>2, SavingRoleFacts DEF Saving, RoleSaved
  <2> SUFFICES ASSUME NEW r \in Role, ~RoleSaved(r), NEW i \in 1 .. Len(saved'[r]) - 1
               PROVE  saved'[r][i] # tracker
    BY <2>2, <2>3 DEF TrackedIsLast
  <2>4. \A j \in 1 .. Len(saved[r]) - 1 : saved[r][j] # tracker
    BY <2>3 DEF TrackedIsLast
  <2>5. CASE r # SavingRole
    BY <2>1, <2>4, <2>5 DEF Rotated
  <2>6. CASE r = SavingRole
    <3>1. Len(saved'[r]) = Len(saved[r]) - d /\ i \in 1 .. Len(saved'[r])
      BY <1>0, <2>1, <2>6 DEF Rotated
    <3>2. saved'[r][i] = saved[r][d + i]
      BY <2>1, <2>6, <3>1 DEF Rotated
    <3>3. d + i \in 1 .. Len(saved[r]) - 1
      BY <1>0, <2>6, <3>1
    <3> QED
      BY <2>4, <3>2, <3>3
  <2> QED
    BY <2>5, <2>6
<1>5. CASE Register
  <2>1. PICK d \in 0 .. Len(saved[SavingRole]) :
            Rotated(SavingRole, Append(saved[SavingRole], globalSteps), d)
    BY <1>5, RotationAfter
  <2>2. pc = "write" /\ pc' \in {"capacity", "data"} /\ tracker' = tracker
    BY <1>5 DEF Register
  <2>3. roleIndex \in 1 .. Len(Roles) /\ Len(Roles) \in Nat
    BY RoleFacts DEF CheckpointTypeOK
  <2>4. ASSUME NEW r \in Role, ~RoleSaved(r)' PROVE ~RoleSaved(r) /\ r # SavingRole
    <3>1. pc' = "capacity"
      BY <2>2, <2>4 DEF RoleSaved
    <3>2. roleIndex' = roleIndex + 1
      BY <1>5, <3>1 DEF Register
    <3>3. \A j \in 1 .. roleIndex : Roles[j] # r
      BY <2>3, <2>4, <3>1, <3>2 DEF RoleSaved
    <3> QED
      BY <2>2, <2>3, <3>3 DEF RoleSaved, SavingRole
  <2>5. Saving
    BY <2>2 DEF Saving
  <2> SUFFICES ASSUME NEW r \in Role, ~RoleSaved(r)', NEW i \in 1 .. Len(saved'[r]) - 1
               PROVE  saved'[r][i] # tracker
    BY <2>2 DEF TrackedIsLast
  <2>6. ~RoleSaved(r) /\ saved'[r] = saved[r]
    BY <2>1, <2>4 DEF Rotated
  <2> QED
    BY <2>5, <2>6 DEF TrackedIsLast
<1>6. CASE \E n \in Ranks : WriteShard(n)
  <2>1. pc = "write" /\ UNCHANGED <<pc, saved, tracker, roleIndex>>
    BY <1>6 DEF WriteShard
  <2> QED
    BY <2>1 DEF TrackedIsLast, Saving, RoleSaved
<1>7. CASE SaveDataloader \/ OpenTracker
  <2>1. pc' \in {"open", "number"}
    BY <1>7 DEF SaveDataloader, OpenTracker
  <2> QED
    BY <2>1 DEF TrackedIsLast, RoleSaved
<1>8. CASE WriteTracker
  <2>1. pc = "number" /\ pc' = "advance" /\ tracker' = globalSteps /\ saved' = saved
    BY <1>8 DEF WriteTracker
  <2> SUFFICES ASSUME NEW r \in Role, NEW i \in 1 .. Len(saved[r]) - 1
               PROVE  saved[r][i] # globalSteps
    BY <2>1 DEF TrackedIsLast
  <2>2. i \in 1 .. Len(saved[r]) /\ Len(saved[r]) \in 1 .. Len(saved[r]) /\ i < Len(saved[r])
    BY <1>0
  <2>3. saved[r][i] < saved[r][Len(saved[r])]
    BY <2>2 DEF Retention, Registered
  <2>4. saved[r][Len(saved[r])] <= globalSteps
    BY <2>1, <2>2 DEF Retention, NotAhead, Live
  <2>5. globalSteps \in Nat /\ saved[r][i] \in Nat /\ saved[r][Len(saved[r])] \in Nat
    BY <1>0, <2>2 DEF CheckpointTypeOK
  <2> QED
    BY <2>3, <2>4, <2>5
<1>9. CASE UNCHANGED checkpointVars
  BY <1>9 DEF checkpointVars, TrackedIsLast, Saving, RoleSaved
<1> QED
  BY <1>1, <1>2, <1>3, <1>4, <1>5, <1>6, <1>7, <1>8, <1>9 DEF CheckpointNext

\* Neither rotation removes a shard of the step the tracker names.
LEMMA RotationSparesTracked ==
    ASSUME Retention, TrackerBehind, TrackedIsLast, KeepsLast, EnsureCapacity \/ Register,
           tracker >= 0, NEW r \in Role, NEW n \in Ranks, <<r, tracker, n>> \in DOMAIN shards
    PROVE  <<r, tracker, n>> \in DOMAIN shards' /\ shards'[<<r, tracker, n>>] = shards[<<r, tracker, n>>]
<1> DEFINE r0 == SavingRole
           N == Len(saved[r0])
           path == <<r, tracker, n>>
<1>1. pc \in {"capacity", "write"} /\ Saving /\ CheckpointTypeOK
  BY DEF EnsureCapacity, Register, Saving, Retention
<1>2. r0 \in Role /\ ~RoleSaved(r0)
  BY <1>1, SavingRoleFacts
<1>3. saved[r0] \in Seq(Nat) /\ N \in Nat
  BY <1>1, <1>2 DEF CheckpointTypeOK
<1>4. \A i \in 1 .. N - 1 : saved[r0][i] # tracker
  BY <1>1, <1>2 DEF TrackedIsLast
<1>5. path[1] = r /\ path[2] = tracker
  OBVIOUS
<1>6. CASE EnsureCapacity
  <2>1. PICK d \in 0 .. N : (d > 0 => d < N) /\ Rotated(r0, saved[r0], d)
    BY <1>6, RotationBefore
  <2>2. \A i \in 1 .. d : saved[r0][i] # tracker
    BY <1>3, <1>4, <2>1
  <2> QED
    BY <1>5, <2>1, <2>2 DEF Rotated
<1>7. CASE Register
  <2> DEFINE s == Append(saved[r0], globalSteps)
  <2>1. PICK d \in 0 .. N : (d > 0 => d < N) /\ Rotated(r0, s, d)
    BY <1>2, <1>7, RotationAfter DEF KeepsLast
  <2>2. globalSteps \in Nat
    BY <1>1 DEF CheckpointTypeOK
  <2>3. \A i \in 1 .. N : s[i] = saved[r0][i]
    BY <1>3, <2>2, AppendProperties
  <2> HIDE DEF s, N
  <2>4. \A i \in 1 .. d : s[i] # tracker
    <3> SUFFICES ASSUME NEW i \in 1 .. d PROVE s[i] # tracker
      OBVIOUS
    <3>1. i \in 1 .. N /\ i \in 1 .. N - 1
      BY <1>3, <2>1
    <3> QED
      BY <1>4, <2>3, <3>1
  <2> QED
    BY <1>5, <2>1, <2>4 DEF Rotated
<1> QED
  BY <1>6, <1>7

LEMMA TrackedIsCompleteStep == KeepsLast /\ Retention /\ Durable /\ [CheckpointNext]_checkpointVars => TrackedIsComplete'
<1> SUFFICES ASSUME KeepsLast, Retention, CheckpointTypeOK, Durable, [CheckpointNext]_checkpointVars PROVE TrackedIsComplete'
  BY DEF Retention
<1> USE DEF Durable
<1>0. globalSteps \in Nat /\ tracker \in Nat \cup {-1, -2}
  BY DEF CheckpointTypeOK, NoTracker, EmptyTracker
<1>1. CASE UNCHANGED disk
  BY <1>1 DEF disk, TrackedIsComplete, Complete
<1>2. CASE EnsureCapacity \/ Register
  <2>1. UNCHANGED <<tracker, dataFiles>> /\ folders \subseteq folders'
    BY <1>2 DEF EnsureCapacity, Register
  <2> SUFFICES ASSUME tracker >= 0 PROVE TrackedIsComplete'
    BY <2>1 DEF TrackedIsComplete
  <2>2. \A r \in Role, n \in Ranks :
            /\ <<r, tracker, n>> \in DOMAIN shards'
            /\ shards'[<<r, tracker, n>>] = shards[<<r, tracker, n>>]
    BY <1>2, RotationSparesTracked DEF TrackedIsComplete, Complete
  <2> QED
    BY <2>1, <2>2, RoleFacts DEF TrackedIsComplete, Complete
<1>3. CASE \E n \in Ranks : WriteShard(n)
  <2>1. PICK m \in Ranks : WriteShard(m)
    BY <1>3
  <2>2. tracker < globalSteps
    BY <2>1 DEF WriteShard, TrackerBehind, Saving
  <2>3. UNCHANGED <<tracker, dataFiles, folders>>
    BY <2>1 DEF WriteShard
  <2> DEFINE path == <<SavingRole, globalSteps, m>>
  <2>4. shards' = [p \in DOMAIN shards \cup {path} |-> IF p = path THEN history ELSE shards[p]]
    BY <2>1 DEF WriteShard
  <2>5. \A r \in Role, n \in Ranks : <<r, tracker, n>> # path
    BY <1>0, <2>2
  <2> HIDE DEF path
  <2>6. \A r \in Role, n \in Ranks : <<r, tracker, n>> \in DOMAIN shards =>
            /\ <<r, tracker, n>> \in DOMAIN shards'
            /\ shards'[<<r, tracker, n>>] = shards[<<r, tracker, n>>]
    BY <2>4, <2>5
  <2> QED
    BY <2>3, <2>6, RoleFacts DEF TrackedIsComplete, Complete
<1>4. CASE SaveDataloader
  <2>1. /\ tracker < globalSteps
        /\ UNCHANGED <<tracker, shards, folders>>
        /\ dataFiles' = [k \in DOMAIN dataFiles \cup {globalSteps} |->
                            IF k = globalSteps THEN loader ELSE dataFiles[k]]
    BY <1>4 DEF SaveDataloader, TrackerBehind, Saving
  <2>2. tracker \in DOMAIN dataFiles => tracker \in DOMAIN dataFiles' /\ dataFiles'[tracker] = dataFiles[tracker]
    BY <1>0, <2>1
  <2> QED
    BY <2>1, <2>2 DEF TrackedIsComplete, Complete
<1>5. CASE OpenTracker
  <2>1. tracker' = -2
    BY <1>5 DEF OpenTracker, EmptyTracker
  <2> QED
    BY <2>1 DEF TrackedIsComplete
<1>6. CASE WriteTracker
  <2>1. pc = "number" /\ tracker' = globalSteps /\ UNCHANGED <<shards, dataFiles, folders>>
    BY <1>6 DEF WriteTracker
  <2>2. /\ globalSteps \in folders
        /\ globalSteps \in DOMAIN dataFiles /\ dataFiles[globalSteps] = loader
        /\ \A r \in Role, n \in Ranks :
              <<r, globalSteps, n>> \in DOMAIN shards /\ shards[<<r, globalSteps, n>>] = history
    BY <2>1 DEF Retention, Written, RoleSaved
  <2>3. /\ Len(history) = globalSteps
        /\ history[globalSteps] = [order |-> loader.draws, pos |-> loader.yielded]
    BY <2>1 DEF Counted, Saving
  <2>4. loader = [draws |-> loader.draws, yielded |-> loader.yielded]
    BY DEF CheckpointTypeOK, Loader
  <2>5. \A n \in Ranks : shards[<<"actor", globalSteps, n>>] = history
    BY <2>2, RoleFacts
  <2>6. loader = [draws |-> history[globalSteps].order, yielded |-> history[globalSteps].pos]
    BY <2>3, <2>4
  <2> QED
    BY <2>1, <2>2, <2>3, <2>5, <2>6 DEF TrackedIsComplete, Complete
<1> QED
  BY <1>1, <1>2, <1>3, <1>4, <1>5, <1>6
  DEF CheckpointNext, LaunchFresh, LaunchResume, LaunchFails, TrainStep, EndEpoch, EndOfEpochs, Advance, Crash,
      checkpointVars, disk

LEMMA OnlyTornStep == Retention /\ Durable /\ [CheckpointNext]_checkpointVars => OnlyTornTrackerBlocks'
<1> SUFFICES ASSUME CheckpointTypeOK, Durable, [CheckpointNext]_checkpointVars, pc' = "stuck" PROVE tracker' = EmptyTracker
  BY DEF Retention, OnlyTornTrackerBlocks
<1>1. CASE LaunchFails
  <2>1. tracker \in Nat => Complete(tracker)
    BY DEF Durable, TrackedIsComplete
  <2>2. tracker = EmptyTracker
    BY <1>1, <2>1 DEF LaunchFails, NothingToResume, CheckpointTypeOK
  <2> QED
    BY <1>1, <2>2 DEF LaunchFails, disk
<1>2. CASE UNCHANGED checkpointVars
  BY <1>2 DEF checkpointVars, Durable, OnlyTornTrackerBlocks
<1> QED
  BY <1>1, <1>2
  DEF CheckpointNext, LaunchFresh, LaunchResume, TrainStep, EndEpoch, EndOfEpochs, Advance, EnsureCapacity,
      WriteShard, Register, SaveDataloader, OpenTracker, WriteTracker, Crash

LEMMA DurableInvariant == ASSUME KeepsLast PROVE CheckpointSpec => []Durable
<1>1. Retention /\ Durable /\ [CheckpointNext]_checkpointVars => Durable'
  <2>1. Retention /\ Durable => CheckpointTypeOK /\ TrackerBehind /\ TrackedHasFolder
    BY DEF Retention, Durable, TrackedIsComplete, TrackedHasFolder
  <2> QED
    BY <2>1, CountedStep, TrackerBehindStep, TrackedIsLastStep, TrackedIsCompleteStep, OnlyTornStep DEF Durable
<1> QED
  BY InitDurable, RetentionInvariant, <1>1, PTL DEF CheckpointSpec

\* After a crash anywhere, the checkpoint that latest_checkpointed_iteration.txt
\* names has the shards of all roles and ranks, all of one training state, and
\* the dataloader state that goes with it, unless a role keeps one checkpoint.
THEOREM TrackedStaysComplete == ASSUME KeepsLast PROVE CheckpointSpec => []TrackedIsComplete
<1>1. Durable => TrackedIsComplete
  BY DEF Durable
<1> QED
  BY DurableInvariant, <1>1, PTL

\* With such limits a relaunch fails only on a tracker file that was being
\* rewritten when the process died.
THEOREM OnlyTearingBlocks == ASSUME KeepsLast PROVE CheckpointSpec => []OnlyTornTrackerBlocks
<1>1. Durable => OnlyTornTrackerBlocks
  BY DEF Durable
<1> QED
  BY DurableInvariant, <1>1, PTL

-----------------------------------------------------------------------------
(* The training history, whatever the limits                               *)

\* Dataloader l in epoch e stands where weights of history h stand: so many
\* whole epochs, so many batches of the running one, in the last one's order.
Walked(l, e, h) ==
    /\ Len(h) = e * StepsPerEpoch + l.yielded
    /\ l.yielded > 0 => l.draws = h[Len(h)].order

InStep ==
    /\ Live => globalSteps >= 1 /\ Walked(loader, epoch, history)
    /\ pc = "fit" => globalSteps = Len(history) + 1
    /\ Saving \/ pc = "advance" => globalSteps = Len(history) /\ loader.yielded > 0

\* What the tracker names is a point the history of this life went through,
\* and the last one whose save finished.
TrackedPrefix ==
    /\ tracker = NoTracker => durable = 0
    /\ tracker >= 0 =>
          /\ tracker \in 1 .. Len(history)
          /\ tracker \in folders
          /\ durable = tracker
          /\ \A n \in Ranks :
                LET path == <<"actor", tracker, n>>
                IN  path \in DOMAIN shards => shards[path] = SubSeq(history, 1, tracker)
          /\ tracker \in DOMAIN dataFiles
          /\ dataFiles[tracker].yielded > 0
          /\ \E e \in Nat : Walked(dataFiles[tracker], e, SubSeq(history, 1, tracker))

Continuous == InStep /\ TrackerBehind /\ TrackedPrefix /\ FinishedMeansTrained

\* A position within an epoch is the remainder of the position in all epochs.
LEMMA RemainderInEpoch ==
    ASSUME NEW e \in Nat, NEW s \in Nat \ {0}, NEW y \in 0 .. s - 1
    PROVE  (e * s + y) % s = y
<1> DEFINE a == e * s + y
           q == a \div s
           r == a % s
<1>1. /\ a \in Int /\ q \in Int /\ r \in 0 .. s - 1
      /\ a = s * q + r
  OBVIOUS
<1>2. /\ \A d \in Int : d > 0 => s * d >= s
      /\ \A d \in Int : d < 0 => s * d <= -s
  <2>1. \A d \in Int : d > 0 => s * d >= s
    OBVIOUS
  <2>2. \A d \in Int : d < 0 => s * d <= -s
    OBVIOUS
  <2> QED
    BY <2>1, <2>2
<1>3. e - q \in Int /\ s * (e - q) = r - y
  BY <1>1
<1>4. r - y < s /\ r - y > -s
  BY <1>1
<1>5. e - q = 0
  BY <1>2, <1>3, <1>4
<1> QED
  BY <1>1, <1>3, <1>5

\* A prefix, and a prefix of a prefix.
LEMMA Prefix ==
    ASSUME NEW h \in Seq(Batch), NEW k \in 0 .. Len(h)
    PROVE  /\ SubSeq(h, 1, k) \in Seq(Batch)
           /\ Len(SubSeq(h, 1, k)) = k
           /\ \A i \in 1 .. k : SubSeq(h, 1, k)[i] = h[i]
<1>1. Len(h) \in Nat /\ \A i \in 1 .. k : h[i] \in Batch
  OBVIOUS
<1> QED
  BY <1>1, SubSeqProperties

LEMMA PrefixKept ==
    ASSUME NEW g \in Seq(Batch), NEW h \in Seq(Batch), NEW k \in 0 .. Len(g), k \in 0 .. Len(h),
           \A i \in 1 .. k : g[i] = h[i]
    PROVE  SubSeq(h, 1, k) = SubSeq(g, 1, k)
<1>1. SubSeq(g, 1, k) \in Seq(Batch) /\ Len(SubSeq(g, 1, k)) = k /\ \A i \in 1 .. k : SubSeq(g, 1, k)[i] = g[i]
  BY Prefix
<1>2. SubSeq(h, 1, k) \in Seq(Batch) /\ Len(SubSeq(h, 1, k)) = k /\ \A i \in 1 .. k : SubSeq(h, 1, k)[i] = h[i]
  BY Prefix
<1> QED
  BY <1>1, <1>2, SeqEqual

LEMMA InitContinuous == CheckpointInit => Continuous
  BY DEF CheckpointInit, NoTracker, EmptyTracker, Continuous, InStep, TrackerBehind, TrackedPrefix, FinishedMeansTrained,
         Live, Saving

\* A resumed dataloader stands where the weights of the checkpoint stand: at
\* an epoch boundary a fresh one does, elsewhere the saved one.
LEMMA ResumedWalked ==
    ASSUME CheckpointTypeOK, TrackedPrefix, tracker \in Nat
    PROVE  /\ tracker \div StepsPerEpoch \in Nat
           /\ Walked(ResumedLoader(tracker), tracker \div StepsPerEpoch, SubSeq(history, 1, tracker))
<1> DEFINE l == dataFiles[tracker]
           h == SubSeq(history, 1, tracker)
           q == tracker \div StepsPerEpoch
           r == tracker % StepsPerEpoch
<1>1. PICK e \in Nat : Walked(l, e, h)
  BY DEF TrackedPrefix
<1>2. tracker \in DOMAIN dataFiles /\ l.yielded > 0 /\ l.yielded \in 0 .. StepsPerEpoch /\ tracker \in 0 .. Len(history)
  BY DEF CheckpointTypeOK, Loader, TrackedPrefix
<1>3. Len(h) = tracker
  BY <1>2, Prefix DEF CheckpointTypeOK
<1>4. q \in Nat
  BY QuotientIsNat
<1>5. r \in 0 .. StepsPerEpoch - 1 /\ StepsPerEpoch * q + r = tracker
  OBVIOUS
<1>6. tracker = q * StepsPerEpoch + r
  BY <1>4, <1>5
<1>7. tracker = e * StepsPerEpoch + l.yielded
  BY <1>1, <1>3 DEF Walked
<1>8. CASE r = 0
  <2>1. ResumedLoader(tracker) = FreshLoader /\ FreshLoader.yielded = 0
    BY <1>8 DEF ResumedLoader, FreshLoader
  <2> QED
    BY <1>3, <1>4, <1>6, <1>8, <2>1 DEF Walked
<1>9. CASE r # 0
  <2>1. ResumedLoader(tracker) = l
    BY <1>2, <1>9 DEF ResumedLoader
  <2>2. l.yielded # StepsPerEpoch
    <3> SUFFICES ASSUME l.yielded = StepsPerEpoch PROVE FALSE
      OBVIOUS
    <3>1. tracker = (e + 1) * StepsPerEpoch + 0
      BY <1>7
    <3>2. e + 1 \in Nat /\ 0 \in 0 .. StepsPerEpoch - 1
      OBVIOUS
    <3>3. ((e + 1) * StepsPerEpoch + 0) % StepsPerEpoch = 0
      BY <3>2, RemainderInEpoch
    <3> QED
      BY <3>1, <3>3, <1>9
  <2>3. l.yielded \in 0 .. StepsPerEpoch - 1
    BY <1>2, <2>2
  <2>4. r = l.yielded
    BY <1>7, <2>3, RemainderInEpoch
  <2>5. tracker = q * StepsPerEpoch + l.yielded
    BY <1>6, <2>4
  <2> QED
    BY <1>1, <1>3, <1>4, <2>1, <2>5 DEF Walked
<1> QED
  BY <1>4, <1>5, <1>8, <1>9

\* What a relaunch finds: a job that never saved, or the tracked prefix.
LEMMA Relaunched ==
    ASSUME CheckpointTypeOK, TrackedPrefix
    PROVE  /\ LaunchFresh => tracker = NoTracker /\ durable = 0
           /\ LaunchResume => tracker \in 1 .. Len(history) /\ history' = SubSeq(history, 1, tracker)
<1>1. tracker \in Nat \cup {-1, -2}
  BY DEF CheckpointTypeOK, NoTracker, EmptyTracker
<1>2. ASSUME LaunchFresh PROVE tracker = NoTracker /\ durable = 0
  BY <1>1, <1>2 DEF LaunchFresh, NothingToResume, TrackedPrefix
<1>3. ASSUME LaunchResume PROVE tracker \in 1 .. Len(history) /\ history' = SubSeq(history, 1, tracker)
  <2>1. tracker \in Nat /\ Complete(tracker)
    BY <1>1, <1>3 DEF LaunchResume, NothingToResume, NoTracker, EmptyTracker
  <2>2. PICK n \in Ranks : history' = shards[<<"actor", tracker, n>>]
    BY <1>3 DEF LaunchResume
  <2>3. <<"actor", tracker, n>> \in DOMAIN shards
    BY <2>1, RoleFacts DEF Complete
  <2> QED
    BY <2>1, <2>2, <2>3 DEF TrackedPrefix
<1> QED
  BY <1>2, <1>3

\* One more batch: the same order, or a new one after a whole epoch.
LEMMA TrainedWalked ==
    ASSUME CheckpointTypeOK, InStep, TrainStep
    PROVE  /\ Walked(loader', epoch, history')
           /\ loader'.yielded = loader.yielded + 1
           /\ Len(history') = Len(history) + 1
           /\ \A i \in 1 .. Len(history) : history'[i] = history[i]
           /\ history'[Len(history) + 1] = [order |-> loader'.draws, pos |-> loader'.yielded]
<1> DEFINE b == [order |-> NextLoader.draws, pos |-> NextLoader.yielded]
<1>1. /\ history' = Append(history, b) /\ loader' = NextLoader /\ history \in Seq(Batch) /\ Len(history) \in Nat
      /\ Live /\ loader.yielded \in Nat /\ epoch * StepsPerEpoch \in Nat
  BY DEF TrainStep, CheckpointTypeOK, Loader, Live
<1>2. loader'.yielded = loader.yielded + 1 /\ loader'.draws = b.order
  BY <1>1 DEF NextLoader
<1>3. b = [order |-> loader'.draws, pos |-> loader'.yielded]
  BY <1>1
<1> HIDE DEF b
<1>4. /\ Len(history') = Len(history) + 1
      /\ \A i \in 1 .. Len(history) : history'[i] = history[i]
      /\ history'[Len(history) + 1] = b
  BY <1>1
<1>5. Len(history) = epoch * StepsPerEpoch + loader.yielded
  BY <1>1 DEF InStep, Walked
<1>6. Len(history') = epoch * StepsPerEpoch + loader'.yielded
  BY <1>1, <1>2, <1>4, <1>5
<1> QED
  BY <1>2, <1>3, <1>4, <1>6 DEF Walked

LEMMA InStepStep == CheckpointTypeOK /\ InStep /\ TrackedPrefix /\ [CheckpointNext]_checkpointVars => InStep'
<1> SUFFICES ASSUME CheckpointTypeOK, InStep, TrackedPrefix, [CheckpointNext]_checkpointVars PROVE InStep'
  OBVIOUS
<1>0. /\ globalSteps \in Nat /\ history \in Seq(Batch) /\ Len(history) \in Nat /\ epoch \in Nat
      /\ loader \in Loader /\ loader.yielded \in 0 .. StepsPerEpoch
  BY DEF CheckpointTypeOK, Loader
<1>1. CASE LaunchFresh
  <2>1. pc' = "fit" /\ globalSteps' = 1 /\ history' = <<>> /\ epoch' = 0 /\ loader' = FreshLoader
    BY <1>1 DEF LaunchFresh
  <2>2. loader'.yielded = 0 /\ Len(history') = 0
    BY <2>1 DEF FreshLoader
  <2> QED
    BY <2>1, <2>2 DEF InStep, Walked, Saving
<1>2. CASE LaunchResume
  <2>1. pc' = "fit" /\ globalSteps' = tracker + 1 /\ epoch' = tracker \div StepsPerEpoch
        /\ loader' = ResumedLoader(tracker)
    BY <1>2 DEF LaunchResume
  <2>2. tracker \in 1 .. Len(history) /\ history' = SubSeq(history, 1, tracker)
    BY <1>2, Relaunched
  <2>3. Len(history') = tracker
    BY <1>0, <2>2, Prefix
  <2>4. Walked(loader', epoch', history')
    BY <1>0, <2>1, <2>2, ResumedWalked
  <2> QED
    BY <1>0, <2>1, <2>2, <2>3, <2>4 DEF InStep, Saving
<1>3. CASE TrainStep
  <2>1. /\ pc = "fit" /\ pc' \in {"capacity", "advance"} /\ epoch' = epoch /\ globalSteps' = globalSteps
    BY <1>3 DEF TrainStep
  <2>2. Walked(loader', epoch, history') /\ loader'.yielded = loader.yielded + 1 /\ Len(history') = Len(history) + 1
    BY <1>3, TrainedWalked
  <2>3. globalSteps = Len(history) + 1
    BY <2>1 DEF InStep
  <2> QED
    BY <1>0, <2>1, <2>2, <2>3 DEF InStep
<1>4. CASE EndEpoch
  <2>1. /\ pc = "fit" /\ pc' = "fit" /\ UNCHANGED <<globalSteps, history>>
        /\ loader.yielded = StepsPerEpoch /\ epoch' = epoch + 1 /\ loader' = [loader EXCEPT !.yielded = 0]
    BY <1>4 DEF EndEpoch
  <2>2. loader'.yielded = 0
    BY <1>0, <2>1 DEF Loader
  <2>3. Len(history) = epoch * StepsPerEpoch + StepsPerEpoch /\ globalSteps >= 1 /\ globalSteps = Len(history) + 1
    BY <2>1 DEF InStep, Walked, Live
  <2>4. (epoch + 1) * StepsPerEpoch = epoch * StepsPerEpoch + StepsPerEpoch
    BY <1>0
  <2> QED
    BY <2>1, <2>2, <2>3, <2>4 DEF InStep, Walked, Saving
<1>5. CASE Advance
  <2>1. pc = "advance" /\ pc' \in {"fit", "done"} /\ globalSteps' = globalSteps + 1
        /\ UNCHANGED <<epoch, loader, history>>
    BY <1>5 DEF Advance
  <2>2. Walked(loader, epoch, history) /\ globalSteps = Len(history)
    BY <2>1 DEF InStep, Live
  <2> QED
    BY <1>0, <2>1, <2>2 DEF InStep, Saving
<1>6. CASE LaunchFails \/ EndOfEpochs \/ Crash
  <2>1. pc' \in {"stuck", "done", "off"}
    BY <1>6 DEF LaunchFails, EndOfEpochs, Crash
  <2> QED
    BY <2>1 DEF InStep, Live, Saving
<1>7. CASE \/ EnsureCapacity \/ (\E n \in Ranks : WriteShard(n)) \/ Register \/ SaveDataloader
           \/ OpenTracker \/ WriteTracker
  <2>1. Saving /\ (Saving' \/ pc' = "advance") /\ pc' # "fit" /\ UNCHANGED fitVars
    BY <1>7 DEF EnsureCapacity, WriteShard, Register, SaveDataloader, OpenTracker, WriteTracker, Saving
  <2>2. Live /\ UNCHANGED <<globalSteps, epoch, loader, history>>
    BY <2>1 DEF Live, Saving, fitVars
  <2> QED
    BY <2>1, <2>2 DEF InStep
<1>8. CASE UNCHANGED checkpointVars
  BY <1>8 DEF checkpointVars, InStep, Live, Saving
<1> QED
  BY <1>1, <1>2, <1>3, <1>4, <1>5, <1>6, <1>7, <1>8 DEF CheckpointNext

\* A step that leaves the tracker and its files alone and only appends to the
\* history keeps what the tracker names.
LEMMA PrefixExtended ==
    ASSUME CheckpointTypeOK, TrackedPrefix, history' \in Seq(Batch), UNCHANGED <<tracker, durable>>,
           tracker >= 0 =>
               /\ Len(history') >= tracker
               /\ \A i \in 1 .. tracker : history'[i] = history[i]
               /\ tracker \in folders'
               /\ \A n \in Ranks :
                     LET path == <<"actor", tracker, n>>
                     IN  path \in DOMAIN shards' => path \in DOMAIN shards /\ shards'[path] = shards[path]
               /\ tracker \in DOMAIN dataFiles' /\ dataFiles'[tracker] = dataFiles[tracker]
    PROVE  TrackedPrefix'
<1>1. CASE tracker >= 0
  <2>1. /\ tracker \in 1 .. Len(history) /\ tracker \in 1 .. Len(history') /\ tracker \in Nat
        /\ history \in Seq(Batch) /\ Len(history) \in Nat /\ Len(history') \in Nat
    BY <1>1 DEF TrackedPrefix, CheckpointTypeOK
  <2>2. SubSeq(history', 1, tracker) = SubSeq(history, 1, tracker)
    <3>1. tracker \in 0 .. Len(history) /\ tracker \in 0 .. Len(history') /\ \A i \in 1 .. tracker : history[i] = history'[i]
      BY <1>1, <2>1
    <3> QED
      BY <2>1, <3>1, PrefixKept
  <2> QED
    BY <1>1, <2>1, <2>2 DEF TrackedPrefix
<1>2. CASE ~(tracker >= 0)
  BY <1>2 DEF TrackedPrefix
<1> QED
  BY <1>1, <1>2

LEMMA TrackedPrefixStep == Retention /\ InStep /\ TrackerBehind /\ TrackedPrefix /\ [CheckpointNext]_checkpointVars => TrackedPrefix'
<1> SUFFICES ASSUME Retention, CheckpointTypeOK, Written, InStep, TrackerBehind, TrackedPrefix, [CheckpointNext]_checkpointVars
             PROVE  TrackedPrefix'
  BY DEF Retention
<1>0. /\ globalSteps \in Nat /\ history \in Seq(Batch) /\ Len(history) \in Nat /\ tracker \in Nat \cup {-1, -2}
      /\ epoch \in Nat
      /\ tracker >= 0 => tracker \in 1 .. Len(history) /\ tracker \in folders /\ tracker \in DOMAIN dataFiles
  BY DEF CheckpointTypeOK, NoTracker, EmptyTracker, TrackedPrefix
<1>t. history' \in Seq(Batch)
  BY TypeStep DEF CheckpointTypeOK
<1>1. CASE LaunchFresh
  <2>1. tracker = NoTracker /\ durable = 0 /\ UNCHANGED <<tracker, durable>>
    BY <1>1, Relaunched DEF LaunchFresh, disk
  <2> QED
    BY <2>1 DEF TrackedPrefix, NoTracker
<1>2. CASE LaunchResume
  <2>1. tracker \in 1 .. Len(history) /\ history' = SubSeq(history, 1, tracker) /\ UNCHANGED <<disk, durable>>
    BY <1>2, Relaunched DEF LaunchResume
  <2>2. Len(history') = tracker /\ \A i \in 1 .. tracker : history'[i] = history[i]
    BY <1>0, <2>1, Prefix
  <2> QED
    BY <1>0, <1>t, <2>1, <2>2, PrefixExtended DEF disk
<1>3. CASE TrainStep
  <2>1. UNCHANGED <<disk, durable>> /\ Len(history') = Len(history) + 1
        /\ \A i \in 1 .. Len(history) : history'[i] = history[i]
    BY <1>3, TrainedWalked DEF TrainStep
  <2> QED
    BY <1>0, <1>t, <2>1, PrefixExtended DEF disk
<1>4. CASE LaunchFails \/ EndEpoch \/ EndOfEpochs \/ Advance \/ Crash \/ UNCHANGED checkpointVars
  <2>1. UNCHANGED <<disk, history, durable>>
    BY <1>4 DEF LaunchFails, EndEpoch, EndOfEpochs, Advance, Crash, checkpointVars, disk, fitVars
  <2> QED
    BY <1>0, <1>t, <2>1, PrefixExtended DEF disk
<1>5. CASE EnsureCapacity
  <2>1. PICK d \in 0 .. Len(saved[SavingRole]) : Rotated(SavingRole, saved[SavingRole], d)
    BY <1>5, RotationBefore
  <2>2. UNCHANGED <<dataFiles, tracker, history, durable>> /\ folders \subseteq folders'
    BY <1>5 DEF EnsureCapacity, fitVars
  <2>3. DOMAIN shards' \subseteq DOMAIN shards /\ \A q \in DOMAIN shards' : shards'[q] = shards[q]
    BY <2>1 DEF Rotated
  <2> QED
    BY <1>0, <1>t, <2>2, <2>3, PrefixExtended
<1>6. CASE \E n \in Ranks : WriteShard(n)
  <2>1. PICK n \in Ranks : WriteShard(n)
    BY <1>6
  <2>2. UNCHANGED <<dataFiles, folders, tracker, history, durable>> /\ Saving
    BY <2>1 DEF WriteShard, fitVars, Saving
  <2>3. tracker # globalSteps
    BY <1>0, <2>2 DEF TrackerBehind
  <2>4. \A q \in DOMAIN shards' : q[2] # globalSteps => q \in DOMAIN shards /\ shards'[q] = shards[q]
    BY <2>1 DEF WriteShard
  <2> QED
    BY <1>0, <1>t, <2>2, <2>3, <2>4, PrefixExtended
<1>7. CASE Register
  <2>1. PICK d \in 0 .. Len(saved[SavingRole]) : Rotated(SavingRole, Append(saved[SavingRole], globalSteps), d)
    BY <1>7, RotationAfter
  <2>2. UNCHANGED <<dataFiles, folders, tracker, history, durable>>
    BY <1>7 DEF Register, fitVars
  <2>3. DOMAIN shards' \subseteq DOMAIN shards /\ \A q \in DOMAIN shards' : shards'[q] = shards[q]
    BY <2>1 DEF Rotated
  <2> QED
    BY <1>0, <1>t, <2>2, <2>3, PrefixExtended
<1>8. CASE SaveDataloader
  <2>1. UNCHANGED <<shards, folders, tracker, history, durable>> /\ Saving
    BY <1>8 DEF SaveDataloader, fitVars, Saving
  <2>2. tracker # globalSteps
    BY <1>0, <2>1 DEF TrackerBehind
  <2>3. \A k \in DOMAIN dataFiles : k \in DOMAIN dataFiles' /\ (k # globalSteps => dataFiles'[k] = dataFiles[k])
    BY <1>8 DEF SaveDataloader
  <2> QED
    BY <1>0, <1>t, <2>1, <2>2, <2>3, PrefixExtended
<1>9. CASE OpenTracker
  BY <1>9 DEF OpenTracker, TrackedPrefix, NoTracker, EmptyTracker
<1>10. CASE WriteTracker
  <2>1. /\ pc = "number" /\ tracker' = globalSteps /\ durable' = globalSteps
        /\ UNCHANGED <<shards, dataFiles, folders, globalSteps, epoch, loader, history>>
    BY <1>10 DEF WriteTracker, fitVars
  <2>2. Live /\ Saving /\ RoleSaved("actor")
    BY <2>1 DEF Live, Saving, RoleSaved
  <2>3. globalSteps >= 1 /\ Walked(loader, epoch, history) /\ globalSteps = Len(history) /\ loader.yielded > 0
    BY <2>2 DEF InStep
  <2>4. SubSeq(history, 1, globalSteps) = history
    <3>1. /\ SubSeq(history, 1, globalSteps) \in Seq(Batch) /\ Len(SubSeq(history, 1, globalSteps)) = globalSteps
          /\ \A i \in 1 .. globalSteps : SubSeq(history, 1, globalSteps)[i] = history[i]
      BY <1>0, <2>3, Prefix
    <3> QED
      BY <1>0, <2>3, <3>1, SeqEqual
  <2>5. \A n \in Ranks : shards[<<"actor", globalSteps, n>>] = history
    BY <2>2, RoleFacts DEF Written
  <2>6. globalSteps \in folders /\ globalSteps \in DOMAIN dataFiles /\ dataFiles[globalSteps] = loader
    BY <2>1 DEF Written
  <2>7. globalSteps \in 1 .. Len(history) /\ globalSteps # NoTracker
    BY <1>0, <2>3 DEF NoTracker
  <2> QED
    BY <1>0, <2>1, <2>3, <2>4, <2>5, <2>6, <2>7 DEF TrackedPrefix
<1> QED
  BY <1>1, <1>2, <1>3, <1>4, <1>5, <1>6, <1>7, <1>8, <1>9, <1>10 DEF CheckpointNext

LEMMA ProductMonotone ==
    ASSUME NEW a \in Nat, NEW b \in Nat, NEW s \in Nat, a >= b
    PROVE  a * s >= s * b
<1> DEFINE d == a - b
<1>1. d \in Nat
  OBVIOUS
<1>2. \A i \in Nat : i * s >= 0
  OBVIOUS
<1>3. d * s >= 0
  BY <1>1, <1>2
<1>4. d * s = a * s - s * b
  OBVIOUS
<1>5. d * s \in Int /\ a * s \in Int /\ s * b \in Int
  OBVIOUS
<1> HIDE DEF d
<1> QED
  BY <1>3, <1>4, <1>5

LEMMA FinishedStep == CheckpointTypeOK /\ InStep /\ FinishedMeansTrained /\ [CheckpointNext]_checkpointVars => FinishedMeansTrained'
<1> SUFFICES ASSUME CheckpointTypeOK, InStep, FinishedMeansTrained, [CheckpointNext]_checkpointVars, pc' = "done"
             PROVE  Len(history') >= TotalSteps \/ Len(history') >= StepsPerEpoch * TotalEpochs
  BY DEF FinishedMeansTrained
<1>0. globalSteps \in Nat /\ Len(history) \in Nat /\ epoch \in Nat /\ loader.yielded \in Nat
  BY DEF CheckpointTypeOK, Loader
<1>1. CASE Advance
  <2>1. globalSteps = Len(history) /\ globalSteps >= TotalSteps /\ history' = history
    BY <1>1 DEF Advance, InStep, IsLastStep
  <2> QED
    BY <2>1
<1>2. CASE EndOfEpochs
  <2>1. Len(history) = epoch * StepsPerEpoch + loader.yielded /\ epoch >= TotalEpochs /\ history' = history
    BY <1>2 DEF EndOfEpochs, InStep, Live, Walked, fitVars
  <2>2. epoch \in Nat /\ TotalEpochs \in Nat /\ StepsPerEpoch \in Nat /\ epoch >= TotalEpochs
    BY <1>0, <2>1
  <2>3. epoch * StepsPerEpoch >= StepsPerEpoch * TotalEpochs
    BY ONLY <2>2, ProductMonotone
  <2> DEFINE walked == epoch * StepsPerEpoch
             asked == StepsPerEpoch * TotalEpochs
  <2>4. walked \in Int /\ asked \in Int /\ walked >= asked /\ Len(history) = walked + loader.yielded
    BY <1>0, <2>1, <2>3
  <2> HIDE DEF walked, asked
  <2>5. Len(history) >= asked
    BY <1>0, <2>4
  <2> QED
    BY <2>1, <2>5 DEF asked
<1>3. CASE UNCHANGED checkpointVars
  BY <1>3 DEF checkpointVars, FinishedMeansTrained
<1> QED
  BY <1>1, <1>2, <1>3
  DEF CheckpointNext, LaunchFresh, LaunchResume, LaunchFails, TrainStep, EndEpoch, EnsureCapacity, WriteShard, Register,
      SaveDataloader, OpenTracker, WriteTracker, Crash

LEMMA ContinuousInvariant == CheckpointSpec => []Continuous
<1>1. Retention /\ Continuous /\ [CheckpointNext]_checkpointVars => Continuous'
  <2>1. Retention /\ Continuous => CheckpointTypeOK /\ TrackedHasFolder
    BY DEF Retention, Continuous, TrackedPrefix, TrackedHasFolder
  <2> QED
    BY <2>1, InStepStep, TrackerBehindStep, TrackedPrefixStep, FinishedStep DEF Continuous
<1> QED
  BY InitContinuous, RetentionInvariant, <1>1, PTL DEF CheckpointSpec

\* fit ends only when the weights were trained for the steps or for the epochs
\* it was asked for, over any number of crashes and relaunches.
THEOREM FinishedIsTrained == CheckpointSpec => []FinishedMeansTrained
<1>1. Continuous => FinishedMeansTrained
  BY DEF Continuous
<1> QED
  BY ContinuousInvariant, <1>1, PTL

\* Every step is one of the promise: one more batch, the end of a save, a fall
\* back to the last one that ended, or a stutter.
LEMMA HistoryStep == Retention /\ Continuous /\ [CheckpointNext]_checkpointVars => [Promise!Next]_(Promise!vars)
<1> SUFFICES ASSUME Retention, CheckpointTypeOK, Continuous, InStep, TrackedPrefix, [CheckpointNext]_checkpointVars
             PROVE  Promise!Next \/ UNCHANGED <<history, durable>>
  BY DEF Retention, Continuous, Promise!vars
<1>0. history \in Seq(Batch) /\ Len(history) \in Nat
  BY DEF CheckpointTypeOK
<1>1. CASE LaunchFresh
  <2>1. durable = 0 /\ durable' = durable /\ history' = <<>>
    BY <1>1, Relaunched DEF LaunchFresh
  <2>2. 0 \in durable .. Len(history) /\ history' = SubSeq(history, 1, 0)
    <3>1. SubSeq(history, 1, 0) \in Seq(Batch) /\ Len(SubSeq(history, 1, 0)) = 0
      BY <1>0, Prefix
    <3> QED
      BY <1>0, <2>1, <3>1
  <2> QED
    BY <2>1, <2>2 DEF Promise!Next, Promise!FallBack
<1>2. CASE LaunchResume
  <2>1. tracker \in 1 .. Len(history) /\ history' = SubSeq(history, 1, tracker) /\ durable' = durable
    BY <1>2, Relaunched DEF LaunchResume
  <2>2. durable = tracker /\ tracker \in durable .. Len(history)
    BY <1>0, <2>1 DEF TrackedPrefix
  <2> QED
    BY <2>1, <2>2 DEF Promise!Next, Promise!FallBack
<1>3. CASE TrainStep
  <2>1. /\ Walked(loader', epoch, history') /\ loader'.yielded = loader.yielded + 1
        /\ Len(history') = Len(history) + 1
        /\ \A i \in 1 .. Len(history) : history'[i] = history[i]
        /\ history'[Len(history) + 1] = [order |-> loader'.draws, pos |-> loader'.yielded]
    BY <1>3, TrainedWalked
  <2>2. /\ pc = "fit" /\ loader.yielded < StepsPerEpoch /\ durable' = durable /\ loader' = NextLoader
        /\ loader.yielded \in 0 .. StepsPerEpoch /\ epoch \in Nat
    BY <1>3 DEF TrainStep, CheckpointTypeOK, Loader
  <2>3. Walked(loader, epoch, history)
    BY <2>2 DEF InStep, Live
  <2>4. SubSeq(history', 1, Len(history)) = history
    <3>1. history' \in Seq(Batch)
      BY TypeStep DEF CheckpointTypeOK
    <3> QED
      BY <1>0, <2>1, <3>1, Prefix, SeqEqual
  <2>5. Len(history) % StepsPerEpoch = loader.yielded
    <3>1. Len(history) = epoch * StepsPerEpoch + loader.yielded /\ loader.yielded \in 0 .. StepsPerEpoch - 1
      BY <2>2, <2>3 DEF Walked
    <3> QED
      BY <2>2, <3>1, RemainderInEpoch
  <2>6. loader.yielded > 0 => loader'.draws = history[Len(history)].order
    BY <2>2, <2>3 DEF NextLoader, Walked
  <2>7. history'[Len(history')] = [order |-> loader'.draws, pos |-> loader.yielded + 1]
    BY <2>1
  <2>8. Promise!Continues(history, history'[Len(history')])
    BY <2>2, <2>5, <2>6, <2>7 DEF Promise!Continues
  <2> QED
    BY <2>1, <2>2, <2>4, <2>8 DEF Promise!Next, Promise!Train
<1>4. CASE WriteTracker
  <2>1. durable' = Len(history) /\ history' = history
    BY <1>4 DEF WriteTracker, InStep, Saving, fitVars
  <2> QED
    BY <2>1 DEF Promise!Next, Promise!FinishSave
<1> QED
  BY <1>1, <1>2, <1>3, <1>4
  DEF CheckpointNext, LaunchFails, EndEpoch, EndOfEpochs, Advance, EnsureCapacity, WriteShard, Register, SaveDataloader,
      OpenTracker, Crash, checkpointVars, fitVars

\* Whatever the schedule and the limits and wherever the process dies, the
\* weights were trained on whole epochs, each in one order, without a gap or a
\* repetition, and a relaunch never goes back behind a save that ended.
\* (fit, _save_checkpoint and _load_checkpoint implement TrainingHistory.)
THEOREM HistoryImplemented == CheckpointSpec => TrainsOnWholeEpochs
<1>1. CheckpointInit => Promise!Init
  BY DEF CheckpointInit, Promise!Init
<1> QED
  BY <1>1, RetentionInvariant, ContinuousInvariant, HistoryStep, PTL DEF CheckpointSpec, TrainsOnWholeEpochs, Promise!Spec

=============================================================================
