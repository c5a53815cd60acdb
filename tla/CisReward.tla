----------------------------- MODULE CisReward -----------------------------
(***************************************************************************)
(* Rewards of CIS-GRPO.  CISRewardManager.__call__                         *)
(* (cis_grpo/reward_manager.py) scores a batch: it decodes row after row,  *)
(* scores each with base_reward (cis_grpo/reward.py), groups the rows by   *)
(* uid and shapes the rewards of a group after looking at the answers of   *)
(* its counterfactual rows.                                                *)
(*                                                                         *)
(* A response is what the scoring sees of it: what _norm_ans makes of the  *)
(* boxed answer, whether the format matches, the number of valid tokens.   *)
(* Rewards are integers, One standing for 1.0.                             *)
(***************************************************************************)
EXTENDS Integers, Sequences, FiniteSets, FiniteSetsExt

CONSTANTS
    Uids,            \* uids of the batch
    Responses,       \* responses a rollout may give
    NoAnswer,        \* "", the answer of an empty box
    NoBox,           \* "none", the answer of a response without a box: for it
                     \* extract_boxed_content returns the string "None"
    Correct,         \* per uid, the answers grade_answer accepts
    IdentitySwapped, \* uids whose counterfactual rows show their own image
    One,             \* the integer that stands for 1.0
    Alpha,           \* alpha: bonus of a real rollout
    Beta,            \* beta: penalty of a counterfactual rollout
    FormatWeight,    \* self.format_weight, 0.1 or 0.0 by use_format_in_base
    CfFormatWeight,  \* cf_format_weight
    MaxLen,          \* response_length of the padded batch
    MaxRows          \* bound: rows of a batch

ASSUME ResponsesAssumption ==
    \A r \in Responses :
        /\ r.format \in BOOLEAN
        /\ r.len \in 0 .. MaxLen
        /\ r.len = 0 => r.answer = NoBox /\ ~r.format
ASSUME AnswersAssumption ==
    /\ NoBox # NoAnswer
    /\ Correct \in [Uids -> SUBSET {r.answer : r \in Responses}]
    /\ IdentitySwapped \subseteq Uids
ASSUME WeightsAssumption ==
    /\ {One, Alpha, Beta, FormatWeight, CfFormatWeight, MaxRows} \subseteq Nat
    /\ MaxLen \in Nat \ {0}
    /\ FormatWeight <= One

RowRecords == [uid : Uids, isCf : BOOLEAN, response : Responses]

-----------------------------------------------------------------------------
(* cis_grpo/reward.py                                                      *)

Acc(row) == IF row.response.answer \in Correct[row.uid] THEN 1 ELSE 0
Format(row) == IF row.response.format THEN 1 ELSE 0

BaseReward(row) == (One - FormatWeight) * Acc(row) + FormatWeight * Format(row)

-----------------------------------------------------------------------------
(* CISRewardManager.__call__                                               *)

VARIABLES
    rows,      \* the batch, as far as it is decoded
    realIdxs,  \* per uid, the rows of its group that are not counterfactual
    cfIdxs,    \* per uid, the rows of its group that are
    groups,    \* uids of the groups still to be shaped, in order of appearance
    stage,     \* "decode", "shape" or "done"
    rewards,   \* reward_tensor, per row and token
    info,      \* reward_extra_info, entry by entry
    bonuses,   \* n_real_bonus
    leaks      \* n_cf_correct

rewardVars == <<rows, realIdxs, cfIdxs, groups, stage, rewards, info, bonuses, leaks>>

\* The reward of a counterfactual row.
CfReward(row) == CfFormatWeight * Format(row) - Beta * Acc(row)

\* The answers of a group's counterfactual rows.  A row without a box has one.
CfAnswers(u) == [k \in 1 .. Len(cfIdxs[u]) |-> rows[cfIdxs[u][k]].response.answer]

\* cf_answers as a set: an empty box has no vote.
Given(s) == {s[k] : k \in 1 .. Len(s)} \ {NoAnswer}

Count(s, a) == Cardinality({k \in 1 .. Len(s) : s[k] = a})
FirstIndex(s, a) == Min({k \in 1 .. Len(s) : s[k] = a})

\* Mutant of MostCommon: the answer seen first.
MostCommonFirst(s) ==
    CHOOSE a \in Given(s) : \A b \in Given(s) : FirstIndex(s, a) <= FirstIndex(s, b)

\* Counter(cf_answers).most_common(1): among equals, the one counted first.
MostCommon(s) ==
    CHOOSE a \in Given(s) : \A b \in Given(s) :
        \/ Count(s, a) > Count(s, b)
        \/ Count(s, a) = Count(s, b) /\ FirstIndex(s, a) <= FirstIndex(s, b)

CfMajority(u) == IF Given(CfAnswers(u)) = {} THEN NoAnswer ELSE MostCommon(CfAnswers(u))

\* A real rollout earns the bonus: there is a majority and it answers otherwise.
Differs(i) ==
    /\ CfMajority(rows[i].uid) # NoAnswer
    /\ rows[i].response.answer # CfMajority(rows[i].uid)

Bonus(i) == IF ~rows[i].isCf /\ Differs(i) THEN Alpha ELSE 0

Shaped(i) == IF rows[i].isCf THEN CfReward(rows[i]) ELSE BaseReward(rows[i]) + Bonus(i)

\* _write_reward: the last valid token, the first one of an empty response.
LastToken(len) == IF len <= 0 THEN 1 ELSE len

\* The rewards once those of the rows s lists are written.
Written(s) ==
    [i \in 1 .. Len(rows) |->
        IF \E k \in 1 .. Len(s) : s[k] = i
        THEN [rewards[i] EXCEPT ![LastToken(rows[i].response.len)] = Shaped(i)]
        ELSE rewards[i]]

Entry(i) ==
    [score |-> Shaped(i), acc |-> Acc(rows[i]), format |-> Format(rows[i]),
     bonus |-> Bonus(i), isCf |-> rows[i].isCf]

RewardInit ==
    /\ rows = <<>>
    /\ realIdxs = [u \in Uids |-> <<>>]
    /\ cfIdxs = [u \in Uids |-> <<>>]
    /\ groups = <<>>
    /\ stage = "decode"
    /\ rewards = <<>>
    /\ info = <<>>
    /\ bonuses = 0
    /\ leaks = 0

\* Passes 1 and 2 for the next row: decode, score, enter it in its group, on
\* the list of its kind.
DecodeRow(row) ==
    /\ stage = "decode"
    /\ Len(rows) < MaxRows
    /\ rows' = Append(rows, row)
    /\ rewards' = Append(rewards, [t \in 1 .. MaxLen |-> 0])
    /\ groups' = IF \E k \in 1 .. Len(groups) : groups[k] = row.uid
                 THEN groups ELSE Append(groups, row.uid)
    /\ IF row.isCf
       THEN cfIdxs' = [cfIdxs EXCEPT ![row.uid] = Append(@, Len(rows) + 1)] /\ UNCHANGED realIdxs
       ELSE realIdxs' = [realIdxs EXCEPT ![row.uid] = Append(@, Len(rows) + 1)] /\ UNCHANGED cfIdxs
    /\ UNCHANGED <<stage, info, bonuses, leaks>>

EndDecode ==
    /\ stage = "decode"
    /\ rows # <<>>
    /\ stage' = "shape"
    /\ UNCHANGED <<rows, realIdxs, cfIdxs, groups, rewards, info, bonuses, leaks>>

\* Mutant of ShapeGroup: the counterfactual rows are forgotten.
ShapeGroupReal ==
    /\ stage = "shape"
    /\ groups # <<>>
    /\ LET real == realIdxs[Head(groups)]
       IN  /\ rewards' = Written(real)
           /\ info' = info \o [k \in 1 .. Len(real) |-> Entry(real[k])]
           /\ bonuses' = bonuses + Cardinality({k \in 1 .. Len(real) : Differs(real[k])})
    /\ groups' = Tail(groups)
    /\ UNCHANGED <<rows, realIdxs, cfIdxs, stage, leaks>>

\* Mutant of ShapeGroup: the counterfactual rows come first.
ShapeGroupCfFirst ==
    /\ stage = "shape"
    /\ groups # <<>>
    /\ LET real == realIdxs[Head(groups)]
           cf == cfIdxs[Head(groups)]
           group == cf \o real
       IN  /\ rewards' = Written(group)
           /\ info' = info \o [k \in 1 .. Len(group) |-> Entry(group[k])]
           /\ bonuses' = bonuses + Cardinality({k \in 1 .. Len(real) : Differs(real[k])})
           /\ leaks' = leaks + Cardinality({k \in 1 .. Len(cf) : Acc(rows[cf[k]]) = 1})
    /\ groups' = Tail(groups)
    /\ UNCHANGED <<rows, realIdxs, cfIdxs, stage>>

\* Pass 3 for the next group: its real rows, then its counterfactual rows.
ShapeGroup ==
    /\ stage = "shape"
    /\ groups # <<>>
    /\ LET real == realIdxs[Head(groups)]
           cf == cfIdxs[Head(groups)]
           group == real \o cf
       IN  /\ rewards' = Written(group)
           /\ info' = info \o [k \in 1 .. Len(group) |-> Entry(group[k])]
           /\ bonuses' = bonuses + Cardinality({k \in 1 .. Len(real) : Differs(real[k])})
           /\ leaks' = leaks + Cardinality({k \in 1 .. Len(cf) : Acc(rows[cf[k]]) = 1})
    /\ groups' = Tail(groups)
    /\ UNCHANGED <<rows, realIdxs, cfIdxs, stage>>

Return ==
    /\ stage = "shape"
    /\ groups = <<>>
    /\ stage' = "done"
    /\ UNCHANGED <<rows, realIdxs, cfIdxs, groups, rewards, info, bonuses, leaks>>

RewardNext ==
    \/ \E row \in RowRecords : DecodeRow(row)
    \/ EndDecode
    \/ ShapeGroup
    \/ Return

RewardSpec == RewardInit /\ [][RewardNext]_rewardVars

-----------------------------------------------------------------------------
(* Properties                                                              *)

Indices == 1 .. Len(rows)
RealRows(u) == {i \in Indices : rows[i].uid = u /\ ~rows[i].isCf}
CfRows(u) == {i \in Indices : rows[i].uid = u /\ rows[i].isCf}

\* The answers no other answer of the group's counterfactual rows outnumbers.
Modes(u) ==
    LET votes(a) == Cardinality({i \in CfRows(u) : rows[i].response.answer = a})
        answers == {rows[i].response.answer : i \in CfRows(u)} \ {NoAnswer}
    IN  {a \in answers : \A b \in answers : votes(a) >= votes(b)}

\* Steps 3 to 5 of the manager's description, without its order of evaluation:
\* one mode of the counterfactual answers is the group's majority; a real row
\* has its base reward and, if it differs from a majority there is, the bonus;
\* a counterfactual row has its penalty; the last valid token carries it and
\* every other token has zero.
RewardsFollowGroups ==
    stage = "done" =>
        \A u \in Uids : \E m \in (IF Modes(u) = {} THEN {NoAnswer} ELSE Modes(u)) :
            \A i \in RealRows(u) \cup CfRows(u) : \A t \in 1 .. MaxLen :
                rewards[i][t] =
                    IF t # Max({1, rows[i].response.len}) THEN 0
                    ELSE IF rows[i].isCf THEN CfFormatWeight * Format(rows[i]) - Beta * Acc(rows[i])
                    ELSE BaseReward(rows[i]) +
                            (IF m # NoAnswer /\ rows[i].response.answer # m THEN Alpha ELSE 0)

\* The exported entries are those of the rows, each row once, and the counters
\* behind the rates agree with them.
InfoCoversRows ==
    stage = "done" =>
        /\ Len(info) = Len(rows)
        /\ \A e \in {info[k] : k \in 1 .. Len(info)} :
              Cardinality({k \in 1 .. Len(info) : info[k] = e})
                = Cardinality({i \in Indices :
                      /\ rewards[i][LastToken(rows[i].response.len)] = e.score
                      /\ Entry(i) = e})
        /\ Alpha > 0 => bonuses = Cardinality({k \in 1 .. Len(info) : info[k].bonus > 0})
        /\ leaks = Cardinality({k \in 1 .. Len(info) : info[k].isCf /\ info[k].acc = 1})

\* The rows of a group are adjacent, its real rows first.
Adjacent ==
    \A i, j \in Indices : i <= j /\ rows[i].uid = rows[j].uid =>
        /\ \A k \in i .. j : rows[k].uid = rows[i].uid
        /\ rows[i].isCf => rows[j].isCf

\* Lists like these become columns of the batch, entry k taken for row k
\* (ray_trainer.py:1594).  It is, although entries are appended group by group
\* and real rows first, if the rows of a group are adjacent and its real rows
\* come first.
EntriesInRowOrder == stage = "done" /\ Adjacent => info = [i \in Indices |-> Entry(i)]

\* "The reward manager treats identity-swap CF rows as unweighted noise so they
\* don't poison the alpha-bonus / -beta penalty signals" (dataset.py:244): they
\* carry no penalty and earn the real rows of their prompt no bonus.  The
\* manager does not look at what a row shows.
IdentitySwapIsNoise ==
    stage = "done" =>
        \A u \in IdentitySwapped :
            /\ \A i \in CfRows(u) : rewards[i][LastToken(rows[i].response.len)] >= 0
            /\ \A i \in RealRows(u) : rewards[i][LastToken(rows[i].response.len)] = BaseReward(rows[i])
=============================================================================
