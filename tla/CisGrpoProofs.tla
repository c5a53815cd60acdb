--------------------------- MODULE CisGrpoProofs ---------------------------
(***************************************************************************)
(* Proofs about the two modules of cis_grpo.  CisReward: for every batch   *)
(* of any number of rows, prompts and responses, every grading of the      *)
(* answers and all weights.  CisSwapMap: for every number of rows, every   *)
(* dataset that passes the length filter, every budget and every number of *)
(* passes.                                                                 *)
(***************************************************************************)
EXTENDS CisSwapMap, CisReward, FiniteSetTheorems, FunctionTheorems, WellFoundedInduction, TLAPS

-----------------------------------------------------------------------------
(* Rewards: lists                                                          *)

\* s lists the elements of S, each of them once.
Lists(s, S) ==
    /\ s \in Seq(S)
    /\ \A j, k \in 1 .. Len(s) : s[j] = s[k] => j = k
    /\ \A x \in S : \E k \in 1 .. Len(s) : s[k] = x

Places(s, Q) == {k \in 1 .. Len(s) : s[k] \in Q}

LEMMA ListAppended ==
    ASSUME NEW S, NEW s, Lists(s, S), NEW x, x \notin S
    PROVE  Lists(Append(s, x), S \cup {x})
<1> DEFINE t == Append(s, x)
<1>1. /\ s \in Seq(S) /\ Len(s) \in Nat /\ \A k \in 1 .. Len(s) : s[k] \in S
      /\ \A j, k \in 1 .. Len(s) : s[j] = s[k] => j = k
      /\ \A y \in S : \E k \in 1 .. Len(s) : s[k] = y
  BY DEF Lists
<1>2. /\ t \in Seq(S \cup {x}) /\ Len(t) = Len(s) + 1 /\ t[Len(s) + 1] = x
      /\ \A k \in 1 .. Len(s) : t[k] = s[k]
  <2>1. s \in Seq(S \cup {x})
    BY <1>1
  <2> QED
    BY <2>1
<1> HIDE DEF t
<1>3. ASSUME NEW j \in 1 .. Len(t), NEW k \in 1 .. Len(t), t[j] = t[k] PROVE j = k
  <2>1. (j \in 1 .. Len(s) \/ j = Len(s) + 1) /\ (k \in 1 .. Len(s) \/ k = Len(s) + 1)
    BY <1>1, <1>2
  <2>2. \A m \in 1 .. Len(s) : t[m] \in S
    BY <1>1, <1>2
  <2>3. CASE j \in 1 .. Len(s) /\ k \in 1 .. Len(s)
    <3>1. s[j] = s[k]
      BY <1>2, <1>3, <2>3
    <3> QED
      BY <1>1, <2>3, <3>1
  <2>4. t[j] \in S <=> t[k] \in S
    BY <1>3
  <2> QED
    BY <1>2, <2>1, <2>2, <2>3, <2>4
<1>4. \A y \in S \cup {x} : \E k \in 1 .. Len(t) : t[k] = y
  <2>1. ASSUME NEW y \in S PROVE \E k \in 1 .. Len(t) : t[k] = y
    <3>1. PICK k \in 1 .. Len(s) : s[k] = y
      BY <1>1
    <3>2. k \in 1 .. Len(t)
      <4>1. Len(s) \in Nat /\ Len(t) = Len(s) + 1
        BY <1>1, <1>2
      <4> QED
        BY <4>1
    <3>3. t[k] = y
      BY <1>2, <3>1
    <3> QED
      BY <3>2, <3>3
  <2>2. Len(s) + 1 \in 1 .. Len(t)
    BY <1>1, <1>2
  <2> QED
    BY <1>2, <2>1, <2>2
<1> QED
  BY <1>2, <1>3, <1>4 DEF Lists, t

LEMMA Concatenated ==
    ASSUME NEW S, NEW s \in Seq(S), NEW t \in Seq(S)
    PROVE  /\ s \o t \in Seq(S) /\ Len(s) \in Nat /\ Len(t) \in Nat /\ Len(s \o t) = Len(s) + Len(t)
           /\ \A k \in 1 .. Len(s) : (s \o t)[k] = s[k]
           /\ \A k \in 1 .. Len(t) : Len(s) + k \in 1 .. Len(s \o t) /\ (s \o t)[Len(s) + k] = t[k]
           /\ \A k \in 1 .. Len(s \o t) : k \notin 1 .. Len(s) =>
                 k - Len(s) \in 1 .. Len(t) /\ (s \o t)[k] = t[k - Len(s)]
  OBVIOUS

LEMMA ListsJoined ==
    ASSUME NEW S, NEW s, Lists(s, S), NEW T, NEW t, Lists(t, T), S \cap T = {}
    PROVE  Lists(s \o t, S \cup T)
<1> DEFINE c == s \o t
<1>1. s \in Seq(S) /\ t \in Seq(T) /\ s \in Seq(S \cup T) /\ t \in Seq(S \cup T)
  BY DEF Lists
<1>2. /\ c \in Seq(S \cup T) /\ Len(s) \in Nat /\ Len(t) \in Nat /\ Len(c) = Len(s) + Len(t)
      /\ \A k \in 1 .. Len(s) : c[k] = s[k]
      /\ \A k \in 1 .. Len(t) : Len(s) + k \in 1 .. Len(c) /\ c[Len(s) + k] = t[k]
      /\ \A k \in 1 .. Len(c) : k \notin 1 .. Len(s) => k - Len(s) \in 1 .. Len(t) /\ c[k] = t[k - Len(s)]
  BY <1>1, Concatenated
<1>3. (\A k \in 1 .. Len(s) : s[k] \in S) /\ (\A k \in 1 .. Len(t) : t[k] \in T)
  BY <1>1
<1> HIDE DEF c
<1>4. ASSUME NEW j \in 1 .. Len(c), NEW k \in 1 .. Len(c), c[j] = c[k] PROVE j = k
  <2>1. CASE j \in 1 .. Len(s) /\ k \in 1 .. Len(s)
    BY <1>2, <1>4, <2>1 DEF Lists
  <2>2. CASE j \notin 1 .. Len(s) /\ k \notin 1 .. Len(s)
    <3>1. /\ j - Len(s) \in 1 .. Len(t) /\ c[j] = t[j - Len(s)]
          /\ k - Len(s) \in 1 .. Len(t) /\ c[k] = t[k - Len(s)]
      BY <1>2, <2>2
    <3>2. t[j - Len(s)] = t[k - Len(s)]
      BY <1>4, <3>1
    <3>3. j - Len(s) = k - Len(s)
      BY <3>1, <3>2 DEF Lists
    <3> QED
      BY <1>2, <3>3
  <2>3. CASE ~(j \in 1 .. Len(s) <=> k \in 1 .. Len(s))
    BY <1>2, <1>3, <1>4, <2>3
  <2> QED
    BY <2>1, <2>2, <2>3
<1>5. ASSUME NEW x \in S \cup T PROVE \E k \in 1 .. Len(c) : c[k] = x
  <2>1. CASE x \in S
    <3>1. PICK k \in 1 .. Len(s) : s[k] = x
      BY <2>1 DEF Lists
    <3> QED
      BY <1>2, <3>1
  <2>2. CASE x \in T
    <3>1. PICK k \in 1 .. Len(t) : t[k] = x
      BY <2>2 DEF Lists
    <3> QED
      BY <1>2, <3>1
  <2> QED
    BY <2>1, <2>2
<1> QED
  BY <1>2, <1>4, <1>5 DEF Lists, c

LEMMA UpTo ==
    ASSUME NEW n \in Nat
    PROVE  IsFiniteSet(1 .. n) /\ Cardinality(1 .. n) = n
<1>1. IsFiniteSet(1 .. n) /\ Cardinality(1 .. n) = IF 1 > n THEN 0 ELSE n - 1 + 1
  BY FS_Interval
<1> QED
  BY <1>1

LEMMA PlacesFinite ==
    ASSUME NEW S, NEW s \in Seq(S), NEW Q
    PROVE  IsFiniteSet(Places(s, Q)) /\ Cardinality(Places(s, Q)) \in 0 .. Len(s)
<1>1. Len(s) \in Nat /\ IsFiniteSet(1 .. Len(s)) /\ Cardinality(1 .. Len(s)) = Len(s)
  BY UpTo
<1>2. Places(s, Q) \in SUBSET (1 .. Len(s))
  BY DEF Places
<1>3. IsFiniteSet(Places(s, Q)) /\ Cardinality(Places(s, Q)) <= Len(s)
  BY <1>1, <1>2, FS_Subset
<1>4. Cardinality(Places(s, Q)) \in Nat
  BY <1>3, FS_CardinalityType
<1> QED
  BY <1>1, <1>3, <1>4

\* A set has as many elements as their list has places.
LEMMA PlacesCount ==
    ASSUME NEW S, NEW s, Lists(s, S), NEW Q
    PROVE  Cardinality(Places(s, Q)) = Cardinality(S \cap Q)
<1> DEFINE f == [k \in Places(s, Q) |-> s[k]]
<1>1. s \in Seq(S) /\ \A k \in 1 .. Len(s) : s[k] \in S
  BY DEF Lists
<1>2. f \in Bijection(Places(s, Q), S \cap Q)
  <2>1. f \in [Places(s, Q) -> S \cap Q]
    BY <1>1 DEF Places
  <2>2. \A j, k \in Places(s, Q) : f[j] = f[k] => j = k
    BY DEF Lists, Places
  <2>3. \A x \in S \cap Q : \E k \in Places(s, Q) : f[k] = x
    BY DEF Lists, Places
  <2> HIDE DEF f
  <2> QED
    BY <2>1, <2>2, <2>3, Fun_IsBij
<1>3. ExistsBijection(Places(s, Q), S \cap Q)
  BY <1>2 DEF ExistsBijection
<1>4. IsFiniteSet(Places(s, Q))
  BY <1>1, PlacesFinite
<1> QED
  BY <1>3, <1>4, FS_Bijection

LEMMA PlacesJoined ==
    ASSUME NEW S, NEW s \in Seq(S), NEW t \in Seq(S), NEW Q
    PROVE  Cardinality(Places(s \o t, Q)) = Cardinality(Places(s, Q)) + Cardinality(Places(t, Q))
<1> DEFINE late == {Len(s) + k : k \in Places(t, Q)}
           f == [k \in Places(t, Q) |-> Len(s) + k]
<1>1. /\ s \o t \in Seq(S) /\ Len(s) \in Nat /\ Len(t) \in Nat /\ Len(s \o t) = Len(s) + Len(t)
      /\ \A k \in 1 .. Len(s) : (s \o t)[k] = s[k]
      /\ \A k \in 1 .. Len(t) : Len(s) + k \in 1 .. Len(s \o t) /\ (s \o t)[Len(s) + k] = t[k]
      /\ \A k \in 1 .. Len(s \o t) : k \notin 1 .. Len(s) => k - Len(s) \in 1 .. Len(t) /\ (s \o t)[k] = t[k - Len(s)]
  BY Concatenated
<1>2. \A k \in Places(t, Q) : k \in 1 .. Len(t) /\ k \in Int
  BY <1>1 DEF Places
<1>3. Places(s \o t, Q) = Places(s, Q) \cup late
  <2>1. ASSUME NEW k \in Places(s \o t, Q) PROVE k \in Places(s, Q) \cup late
    <3>1. CASE k \in 1 .. Len(s)
      BY <1>1, <3>1 DEF Places
    <3>2. CASE k \notin 1 .. Len(s)
      <4>1. k \in 1 .. Len(s \o t) /\ (s \o t)[k] \in Q
        BY DEF Places
      <4>2. k - Len(s) \in Places(t, Q)
        BY <1>1, <3>2, <4>1 DEF Places
      <4>3. k = Len(s) + (k - Len(s))
        BY <1>1, <4>1
      <4> QED
        BY <4>2, <4>3
    <3> QED
      BY <3>1, <3>2
  <2>2. ASSUME NEW k \in Places(s, Q) PROVE k \in Places(s \o t, Q)
    <3>1. k \in 1 .. Len(s) /\ s[k] \in Q /\ k \in 1 .. Len(s \o t)
      BY <1>1 DEF Places
    <3> QED
      BY <1>1, <3>1 DEF Places
  <2>3. ASSUME NEW k \in Places(t, Q) PROVE Len(s) + k \in Places(s \o t, Q)
    <3>1. k \in 1 .. Len(t) /\ t[k] \in Q
      BY DEF Places
    <3> QED
      BY <1>1, <3>1 DEF Places
  <2> QED
    BY <2>1, <2>2, <2>3
<1>4. Places(s, Q) \cap late = {}
  BY <1>1, <1>2 DEF Places
<1>5. f \in Bijection(Places(t, Q), late)
  <2>1. f \in [Places(t, Q) -> late]
    OBVIOUS
  <2>2. \A j, k \in Places(t, Q) : f[j] = f[k] => j = k
    BY <1>1, <1>2
  <2>3. \A x \in late : \E k \in Places(t, Q) : f[k] = x
    OBVIOUS
  <2> HIDE DEF f, late
  <2> QED
    BY <2>1, <2>2, <2>3, Fun_IsBij
<1> HIDE DEF f, late
<1>6. /\ IsFiniteSet(Places(s, Q)) /\ IsFiniteSet(Places(t, Q))
      /\ Cardinality(Places(s, Q)) \in Nat /\ Cardinality(Places(t, Q)) \in Nat
  BY <1>1, PlacesFinite
<1>7. IsFiniteSet(late) /\ Cardinality(late) = Cardinality(Places(t, Q))
  <2>1. ExistsBijection(Places(t, Q), late)
    BY <1>5 DEF ExistsBijection
  <2> QED
    BY <1>6, <2>1, FS_Bijection
<1>8. Cardinality(Places(s, Q) \cup late) = Cardinality(Places(s, Q)) + Cardinality(late) - Cardinality({})
  BY <1>4, <1>6, <1>7, FS_Union
<1> QED
  BY <1>3, <1>6, <1>7, <1>8, FS_EmptySet

-----------------------------------------------------------------------------
(* Rewards: the majority of a group                                        *)

\* A set of numbers has a least one.
LEMMA LeastNumber ==
    ASSUME NEW T, T \subseteq Nat, T # {}
    PROVE  \E x \in T : \A y \in T : x <= y
<1>1. PICK x \in T : \A y \in T : <<y, x>> \notin OpToRel(<, Nat)
  BY WFMin, NatLessThanWellFounded
<1>2. \A y \in T : ~(y < x)
  BY <1>1 DEF OpToRel
<1> QED
  BY <1>2

LEMMA CountType ==
    ASSUME NEW S, NEW s \in Seq(S), NEW a
    PROVE  Count(s, a) = Cardinality(Places(s, {a})) /\ Count(s, a) \in 0 .. Len(s)
<1>1. {k \in 1 .. Len(s) : s[k] = a} = Places(s, {a})
  BY DEF Places
<1> QED
  BY <1>1, PlacesFinite DEF Count

LEMMA FirstIndexType ==
    ASSUME NEW S, NEW s \in Seq(S), NEW a \in Given(s)
    PROVE  FirstIndex(s, a) \in Nat
<1> DEFINE T == {k \in 1 .. Len(s) : s[k] = a}
<1>1. T \subseteq Nat /\ T # {}
  BY DEF Given
<1>2. \E k \in T : \A j \in T : k <= j
  <2> HIDE DEF T
  <2> QED
    BY <1>1, LeastNumber
<1>3. Min(T) \in T
  <2> HIDE DEF T
  <2> QED
    BY <1>2 DEF Min
<1> QED
  BY <1>1, <1>3 DEF FirstIndex

\* most_common(1) answers with one of the answers, none of which is given
\* more often.
LEMMA MostCommonIsMode ==
    ASSUME NEW S, NEW s \in Seq(S), Given(s) # {}
    PROVE  MostCommon(s) \in Given(s) /\ \A b \in Given(s) : Count(s, MostCommon(s)) >= Count(s, b)
<1> DEFINE Gap == {Len(s) - Count(s, a) : a \in Given(s)}
<1>1. \A a : Count(s, a) \in 0 .. Len(s)
  BY CountType
<1>2. Len(s) \in Nat
  OBVIOUS
<1>3. Gap \subseteq Nat /\ Gap # {}
  BY <1>1, <1>2
<1>4. PICK a \in Given(s) : \A b \in Given(s) : Len(s) - Count(s, a) <= Len(s) - Count(s, b)
  <2>1. PICK x \in Gap : \A y \in Gap : x <= y
    <3> HIDE DEF Gap
    <3> QED
      BY <1>3, LeastNumber
  <2> QED
    BY <2>1
<1>5. \A b \in Given(s) : Count(s, a) >= Count(s, b)
  BY <1>1, <1>2, <1>4
<1> DEFINE Top == {b \in Given(s) : Count(s, b) = Count(s, a)}
           Firsts == {FirstIndex(s, b) : b \in Top}
<1>6. Firsts \subseteq Nat /\ Firsts # {}
  BY FirstIndexType
<1>7. PICK m \in Top : \A b \in Top : FirstIndex(s, m) <= FirstIndex(s, b)
  <2>1. PICK x \in Firsts : \A y \in Firsts : x <= y
    <3> HIDE DEF Firsts
    <3> QED
      BY <1>6, LeastNumber
  <2> QED
    BY <2>1
<1>8. \A b \in Given(s) :
          \/ Count(s, m) > Count(s, b)
          \/ Count(s, m) = Count(s, b) /\ FirstIndex(s, m) <= FirstIndex(s, b)
  BY <1>1, <1>5, <1>7
<1>9. MostCommon(s) \in Given(s) /\ \A b \in Given(s) :
          \/ Count(s, MostCommon(s)) > Count(s, b)
          \/ Count(s, MostCommon(s)) = Count(s, b) /\ FirstIndex(s, MostCommon(s)) <= FirstIndex(s, b)
  BY <1>7, <1>8 DEF MostCommon
<1> QED
  BY <1>1, <1>9

-----------------------------------------------------------------------------
(* Rewards: the inductive invariant                                        *)

\* Row i is in a group that is still to be shaped.
Waiting(i) == \E k \in 1 .. Len(groups) : groups[k] = rows[i].uid

Batch ==
    /\ rows \in Seq(RowRecords)
    /\ stage \in {"decode", "shape", "done"}
    /\ stage = "done" => groups = <<>>
    /\ groups \in Seq(Uids)
    /\ \A j, k \in 1 .. Len(groups) : groups[j] = groups[k] => j = k

\* Every row is on the list of its kind in the group of its uid, once.
Grouping ==
    /\ DOMAIN realIdxs = Uids /\ DOMAIN cfIdxs = Uids
    /\ \A u \in Uids : Lists(realIdxs[u], RealRows(u)) /\ Lists(cfIdxs[u], CfRows(u))

Decoding == stage = "decode" => info = <<>> /\ bonuses = 0 /\ leaks = 0 /\ \A i \in Indices : Waiting(i)

\* A row carries nothing before its group is shaped, and its shaped reward at
\* its last valid token afterwards.
Carried(i) ==
    [t \in 1 .. MaxLen |->
        IF Waiting(i) \/ t # LastToken(rows[i].response.len) THEN 0 ELSE Shaped(i)]
Tensor ==
    /\ DOMAIN rewards = Indices /\ rewards \in Seq([1 .. MaxLen -> Int])
    /\ \A i \in Indices : rewards[i] = Carried(i)

\* The entries are those of the rows shaped so far, in the order of some list.
Exported ==
    \E s : /\ Lists(s, {i \in Indices : ~Waiting(i)})
           /\ info = [k \in 1 .. Len(s) |-> Entry(s[k])]

Counted ==
    /\ Alpha > 0 => bonuses = Cardinality({k \in 1 .. Len(info) : info[k].bonus > 0})
    /\ leaks = Cardinality({k \in 1 .. Len(info) : info[k].isCf /\ info[k].acc = 1})

RewardInv == Batch /\ Grouping /\ Decoding /\ Tensor /\ Exported /\ Counted

\* The types of what is scored.
LEMMA ScoreTypes ==
    ASSUME NEW row \in RowRecords
    PROVE  /\ row.uid \in Uids /\ row.isCf \in BOOLEAN /\ row.response \in Responses
           /\ LastToken(row.response.len) \in 1 .. MaxLen
           /\ Acc(row) \in {0, 1} /\ Format(row) \in {0, 1}
           /\ BaseReward(row) \in Int /\ CfReward(row) \in Int
<1>1. row.uid \in Uids /\ row.isCf \in BOOLEAN /\ row.response \in Responses
  BY DEF RowRecords
<1>2. MaxLen \in Nat \ {0} /\ row.response.len \in 0 .. MaxLen
  BY <1>1, ResponsesAssumption, WeightsAssumption
<1>3. Acc(row) \in {0, 1} /\ Format(row) \in {0, 1}
  BY DEF Acc, Format
<1>4. One \in Int /\ Beta \in Int /\ FormatWeight \in Int /\ CfFormatWeight \in Int
  BY WeightsAssumption
<1>5. BaseReward(row) \in Int /\ CfReward(row) \in Int
  <2> HIDE DEF Acc, Format
  <2> QED
    BY <1>3, <1>4 DEF BaseReward, CfReward
<1>6. LastToken(row.response.len) \in 1 .. MaxLen
  BY <1>2 DEF LastToken
<1> QED
  BY <1>1, <1>3, <1>5, <1>6

LEMMA ShapedType ==
    ASSUME NEW i, rows[i] \in RowRecords
    PROVE  Bonus(i) \in Int /\ Shaped(i) \in Int
<1>1. Bonus(i) \in Int
  BY WeightsAssumption DEF Bonus
<1> QED
  BY <1>1, ScoreTypes DEF Shaped

\* What the model computes of a row depends on the rows and their groups only.
LEMMA SameBatch ==
    ASSUME rows' = rows, cfIdxs' = cfIdxs
    PROVE  /\ \A i : Shaped(i)' = Shaped(i) /\ Entry(i)' = Entry(i)
           /\ Indices' = Indices
           /\ \A u : RealRows(u)' = RealRows(u) /\ CfRows(u)' = CfRows(u)
<1>1. \A u : CfAnswers(u)' = CfAnswers(u)
  BY DEF CfAnswers
<1>2. \A u : CfMajority(u)' = CfMajority(u)
  BY <1>1 DEF CfMajority
<1>3. \A i : Bonus(i)' = Bonus(i)
  BY <1>2 DEF Bonus, Differs
<1>4. \A i : Shaped(i)' = Shaped(i)
  BY <1>3 DEF Shaped
<1> QED
  BY <1>3, <1>4 DEF Entry, Indices, RealRows, CfRows

LEMMA RewardInitInv == RewardInit => RewardInv
<1> SUFFICES ASSUME RewardInit PROVE RewardInv
  OBVIOUS
<1>1. Indices = {} /\ Len(rows) = 0 /\ Len(info) = 0 /\ Len(groups) = 0
  BY DEF RewardInit, Indices
<1>2. Batch
  BY DEF RewardInit, Batch
<1>3. Lists(<<>>, {})
  BY DEF Lists
<1>4. Grouping
  <2>1. \A u \in Uids : RealRows(u) = {} /\ CfRows(u) = {}
    BY <1>1 DEF RealRows, CfRows
  <2> QED
    BY <1>3, <2>1 DEF RewardInit, Grouping
<1>5. Decoding
  BY <1>1 DEF RewardInit, Decoding
<1>6. Tensor
  BY <1>1 DEF RewardInit, Tensor
<1>7. Exported
  <2>1. {i \in Indices : ~Waiting(i)} = {}
    BY <1>1
  <2>2. info = [k \in 1 .. Len(<<>>) |-> Entry(<<>>[k])]
    BY DEF RewardInit
  <2> QED
    BY <1>3, <2>1, <2>2 DEF Exported
<1>8. Counted
  <2>1. {k \in 1 .. Len(info) : info[k].bonus > 0} = {}
    BY <1>1
  <2>2. {k \in 1 .. Len(info) : info[k].isCf /\ info[k].acc = 1} = {}
    BY <1>1
  <2> QED
    BY <2>1, <2>2, FS_EmptySet DEF RewardInit, Counted
<1> QED
  BY <1>2, <1>4, <1>5, <1>6, <1>7, <1>8 DEF RewardInv

LEMMA DecodeRowInv == ASSUME RewardInv, NEW row \in RowRecords, DecodeRow(row) PROVE RewardInv'
<1> USE DEF RewardInv
<1> DEFINE n == Len(rows) + 1
<1>1. /\ rows \in Seq(RowRecords) /\ groups \in Seq(Uids) /\ rows' \in Seq(RowRecords) /\ Len(rows) \in Nat /\ Len(groups) \in Nat
      /\ stage = "decode" /\ stage' = stage /\ rows' = Append(rows, row)
      /\ info = <<>> /\ info' = info /\ bonuses = 0 /\ bonuses' = 0 /\ leaks = 0 /\ leaks' = 0
  BY DEF DecodeRow, Batch, Decoding
<1>2. row.uid \in Uids /\ row.isCf \in BOOLEAN
  BY ScoreTypes
<1>3. /\ Len(rows') = n /\ Indices' = Indices \cup {n} /\ n \notin Indices /\ rows'[n] = row
      /\ \A i \in Indices : rows'[i] = rows[i]
  BY <1>1 DEF Indices
<1>4. /\ groups' \in Seq(Uids) /\ Len(groups') \in Nat
      /\ \A j, k \in 1 .. Len(groups') : groups'[j] = groups'[k] => j = k
      /\ \A k \in 1 .. Len(groups) : k \in 1 .. Len(groups') /\ groups'[k] = groups[k]
      /\ \E k \in 1 .. Len(groups') : groups'[k] = row.uid
  <2>1. CASE \E k \in 1 .. Len(groups) : groups[k] = row.uid
    BY <1>1, <2>1 DEF DecodeRow, Batch
  <2>2. CASE ~\E k \in 1 .. Len(groups) : groups[k] = row.uid
    <3>1. groups' = Append(groups, row.uid)
      BY <2>2 DEF DecodeRow
    <3>2. /\ groups' \in Seq(Uids) /\ Len(groups') = Len(groups) + 1 /\ groups'[Len(groups) + 1] = row.uid
          /\ \A k \in 1 .. Len(groups) : groups'[k] = groups[k]
      BY <1>1, <1>2, <3>1
    <3>3. ASSUME NEW j \in 1 .. Len(groups'), NEW k \in 1 .. Len(groups'), groups'[j] = groups'[k] PROVE j = k
      <4>1. /\ j \in 1 .. Len(groups) \/ j = Len(groups) + 1
            /\ k \in 1 .. Len(groups) \/ k = Len(groups) + 1
        BY <1>1, <3>2
      <4>2. CASE j \in 1 .. Len(groups) /\ k \in 1 .. Len(groups)
        <5>1. groups[j] = groups[k]
          BY <3>2, <3>3, <4>2
        <5> QED
          BY <4>2, <5>1 DEF Batch
      <4> QED
        BY <2>2, <3>2, <3>3, <4>1, <4>2
    <3>4. Len(groups) + 1 \in 1 .. Len(groups')
      BY <1>1, <3>2
    <3> QED
      BY <1>1, <3>2, <3>3, <3>4
  <2> QED
    BY <2>1, <2>2
<1>5. Batch'
  BY <1>1, <1>4 DEF Batch
<1>6. Grouping'
  <2>1. ASSUME NEW u \in Uids
        PROVE  /\ RealRows(u)' = IF u = row.uid /\ ~row.isCf THEN RealRows(u) \cup {n} ELSE RealRows(u)
               /\ CfRows(u)' = IF u = row.uid /\ row.isCf THEN CfRows(u) \cup {n} ELSE CfRows(u)
               /\ n \notin RealRows(u) /\ n \notin CfRows(u)
    BY <1>2, <1>3 DEF RealRows, CfRows
  <2>2. DOMAIN realIdxs' = Uids /\ DOMAIN cfIdxs' = Uids
    BY <1>2 DEF DecodeRow, Grouping
  <2>3. ASSUME NEW u \in Uids
        PROVE  /\ realIdxs'[u] = IF u = row.uid /\ ~row.isCf THEN Append(realIdxs[u], n) ELSE realIdxs[u]
               /\ cfIdxs'[u] = IF u = row.uid /\ row.isCf THEN Append(cfIdxs[u], n) ELSE cfIdxs[u]
    BY <1>2 DEF DecodeRow, Grouping
  <2>4. ASSUME NEW u \in Uids
        PROVE  /\ Lists(realIdxs[u], RealRows(u)) /\ Lists(Append(realIdxs[u], n), RealRows(u) \cup {n})
               /\ Lists(cfIdxs[u], CfRows(u)) /\ Lists(Append(cfIdxs[u], n), CfRows(u) \cup {n})
    BY <2>1, ListAppended DEF Grouping
  <2>5. ASSUME NEW u \in Uids PROVE Lists(realIdxs[u], RealRows(u))' /\ Lists(cfIdxs[u], CfRows(u))'
    <3>1. Lists(realIdxs'[u], RealRows(u)') /\ Lists(cfIdxs'[u], CfRows(u)')
      BY <2>1, <2>3, <2>4
    <3> QED
      BY <3>1
  <2> QED
    BY <2>2, <2>5 DEF Grouping
<1>7. \A i \in Indices' : Waiting(i)'
  <2>1. ASSUME NEW i, i = n PROVE Waiting(i)'
    BY <1>3, <1>4, <2>1 DEF Waiting
  <2>2. ASSUME NEW i \in Indices PROVE Waiting(i)'
    <3>1. PICK k \in 1 .. Len(groups) : groups[k] = rows[i].uid
      BY <1>1 DEF Decoding, Waiting
    <3>2. k \in 1 .. Len(groups') /\ groups'[k] = rows'[i].uid
      BY <1>3, <1>4, <3>1
    <3> QED
      BY <3>2 DEF Waiting
  <2> QED
    BY <1>3, <2>1, <2>2
<1>8. Decoding'
  BY <1>1, <1>7 DEF Decoding
<1>9. Tensor'
  <2> DEFINE zeros == [t \in 1 .. MaxLen |-> 0]
  <2>1. rewards \in Seq([1 .. MaxLen -> Int]) /\ Len(rewards) = Len(rows)
    BY <1>1 DEF Tensor, Indices
  <2>2. \A i \in Indices : rewards[i] = zeros
    BY <1>1 DEF Tensor, Carried, Decoding
  <2>3. rewards' = Append(rewards, zeros) /\ zeros \in [1 .. MaxLen -> Int]
    BY DEF DecodeRow
  <2>4. \A i \in Indices' : rewards'[i] = zeros
    <3> HIDE DEF zeros
    <3>1. rewards'[n] = zeros /\ \A i \in 1 .. Len(rows) : rewards'[i] = rewards[i]
      BY <1>1, <2>1, <2>3
    <3>2. Indices = 1 .. Len(rows)
      BY DEF Indices
    <3> QED
      BY <1>3, <2>2, <3>1, <3>2
  <2>5. rewards' \in Seq([1 .. MaxLen -> Int]) /\ DOMAIN rewards' = Indices'
    BY <1>1, <1>3, <2>1, <2>3 DEF Indices
  <2>6. \A i \in Indices' : Carried(i)' = zeros
    BY <1>7 DEF Carried
  <2> QED
    BY <2>4, <2>5, <2>6 DEF Tensor
<1>10. Exported'
  <2>1. {i \in Indices' : ~Waiting(i)'} = {} /\ Lists(<<>>, {})
    BY <1>7 DEF Lists
  <2>2. info' = [k \in 1 .. Len(<<>>) |-> Entry(<<>>[k])']
    BY <1>1
  <2> QED
    BY <2>1, <2>2 DEF Exported
<1>11. Counted'
  BY <1>1 DEF Counted
<1> QED
  BY <1>5, <1>6, <1>8, <1>9, <1>10, <1>11

\* A step that touches neither batch nor results keeps what is said of them.
LEMMA ResultsKept ==
    /\ RewardInv
    /\ UNCHANGED <<rows, realIdxs, cfIdxs, groups, rewards, info, bonuses, leaks>>
    /\ stage' = stage \/ stage' = "shape" \/ (stage' = "done" /\ groups = <<>>)
    => RewardInv'
<1> SUFFICES ASSUME RewardInv, UNCHANGED <<rows, realIdxs, cfIdxs, groups, rewards, info, bonuses, leaks>>,
                    stage' = stage \/ stage' = "shape" \/ (stage' = "done" /\ groups = <<>>)
             PROVE  RewardInv'
  OBVIOUS
<1> USE DEF RewardInv
<1>1. /\ \A i : Shaped(i)' = Shaped(i) /\ Entry(i)' = Entry(i) /\ Waiting(i)' = Waiting(i)
      /\ Indices' = Indices
      /\ \A u : RealRows(u)' = RealRows(u) /\ CfRows(u)' = CfRows(u)
  BY SameBatch DEF Waiting
<1>2. Batch' /\ Counted'
  BY DEF Batch, Counted
<1>3. Grouping'
  BY <1>1 DEF Grouping, Lists
<1>4. Decoding'
  BY <1>1 DEF Decoding
<1>5. Tensor'
  <2>1. \A i : Carried(i)' = Carried(i)
    BY <1>1 DEF Carried
  <2> QED
    BY <1>1, <2>1 DEF Tensor
<1>6. Exported'
  BY <1>1 DEF Exported
<1> QED
  BY <1>2, <1>3, <1>4, <1>5, <1>6

\* The group in turn: the list of its rows, and who waits after it.
LEMMA NextGroup ==
    ASSUME RewardInv, groups # <<>>, groups' = Tail(groups), rows' = rows
    PROVE  /\ Head(groups) \in Uids
           /\ Lists(realIdxs[Head(groups)] \o cfIdxs[Head(groups)], {i \in Indices : rows[i].uid = Head(groups)})
           /\ \A i \in Indices : rows[i].uid = Head(groups) => Waiting(i)
           /\ \A i : Waiting(i)' <=> Waiting(i) /\ rows[i].uid # Head(groups)
           /\ groups' \in Seq(Uids) /\ \A j, k \in 1 .. Len(groups') : groups'[j] = groups'[k] => j = k
<1> DEFINE u == Head(groups)
<1>1. /\ groups \in Seq(Uids) /\ Len(groups) \in Nat \ {0} /\ u = groups[1] /\ u \in Uids
      /\ groups' \in Seq(Uids) /\ Len(groups') = Len(groups) - 1
      /\ \A k \in 1 .. Len(groups) - 1 : groups'[k] = groups[k + 1]
      /\ \A j, k \in 1 .. Len(groups) : groups[j] = groups[k] => j = k
  BY DEF RewardInv, Batch
<1> HIDE DEF u
<1>2. Lists(realIdxs[u] \o cfIdxs[u], {i \in Indices : rows[i].uid = u})
  <2>1. Lists(realIdxs[u], RealRows(u)) /\ Lists(cfIdxs[u], CfRows(u))
    BY <1>1 DEF RewardInv, Grouping
  <2>2. RealRows(u) \cap CfRows(u) = {} /\ RealRows(u) \cup CfRows(u) = {i \in Indices : rows[i].uid = u}
    BY DEF RealRows, CfRows
  <2>3. Lists(realIdxs[u] \o cfIdxs[u], RealRows(u) \cup CfRows(u))
    BY <2>1, <2>2, ListsJoined
  <2> QED
    BY <2>2, <2>3
<1>3. \A i \in Indices : rows[i].uid = u => Waiting(i)
  BY <1>1 DEF Waiting
<1>4. \A j, k \in 1 .. Len(groups') : groups'[j] = groups'[k] => j = k
  <2> SUFFICES ASSUME NEW j \in 1 .. Len(groups'), NEW k \in 1 .. Len(groups'), groups'[j] = groups'[k]
               PROVE  j = k
    OBVIOUS
  <2>1. j + 1 \in 1 .. Len(groups) /\ k + 1 \in 1 .. Len(groups) /\ groups[j + 1] = groups[k + 1]
    BY <1>1
  <2>2. j + 1 = k + 1
    BY <1>1, <2>1
  <2> QED
    BY <1>1, <2>2
<1>5. ASSUME NEW i PROVE Waiting(i)' <=> Waiting(i) /\ rows[i].uid # u
  <2>1. ASSUME NEW k \in 1 .. Len(groups'), groups'[k] = rows[i].uid PROVE Waiting(i) /\ rows[i].uid # u
    <3>1. k + 1 \in 1 .. Len(groups) /\ k + 1 # 1 /\ groups[k + 1] = rows[i].uid /\ 1 \in 1 .. Len(groups)
      BY <1>1, <2>1
    <3>2. rows[i].uid # u
      BY <1>1, <3>1
    <3> QED
      BY <3>1, <3>2 DEF Waiting
  <2>2. ASSUME NEW k \in 1 .. Len(groups), groups[k] = rows[i].uid, rows[i].uid # u
        PROVE  \E j \in 1 .. Len(groups') : groups'[j] = rows[i].uid
    <3>1. k # 1
      BY <1>1, <2>2
    <3>2. k - 1 \in 1 .. Len(groups') /\ groups'[k - 1] = groups[k]
      BY <1>1, <3>1
    <3> QED
      BY <2>2, <3>2
  <2>3. Waiting(i)' <=> \E k \in 1 .. Len(groups') : groups'[k] = rows[i].uid
    BY DEF Waiting
  <2> QED
    BY <2>1, <2>2, <2>3 DEF Waiting
<1> QED
  BY <1>1, <1>2, <1>3, <1>4, <1>5 DEF u

\* Writing the rewards of a group gives its rows what they carry.
LEMMA GroupWritten ==
    ASSUME RewardInv, groups # <<>>, groups' = Tail(groups), rows' = rows, cfIdxs' = cfIdxs,
           rewards' = Written(realIdxs[Head(groups)] \o cfIdxs[Head(groups)])
    PROVE  Tensor'
<1> DEFINE u == Head(groups)
           g == realIdxs[u] \o cfIdxs[u]
<1>1. /\ Lists(g, {i \in Indices : rows[i].uid = u})
      /\ \A i \in Indices : rows[i].uid = u => Waiting(i)
      /\ \A i : Waiting(i)' <=> Waiting(i) /\ rows[i].uid # u
  BY NextGroup
<1>2. rewards' = Written(g)
  OBVIOUS
<1> HIDE DEF u, g
<1>3. /\ \A i \in Indices : (\E k \in 1 .. Len(g) : g[k] = i) <=> rows[i].uid = u
  <2>1. \A k \in 1 .. Len(g) : g[k] \in {i \in Indices : rows[i].uid = u}
    BY <1>1 DEF Lists
  <2> QED
    BY <1>1, <2>1 DEF Lists
<1>4. Indices' = Indices /\ Indices = 1 .. Len(rows) /\ Len(rows) \in Nat /\ \A i : Shaped(i)' = Shaped(i)
  BY SameBatch DEF Indices, RewardInv, Batch
<1>5. \A i \in Indices : rows[i] \in RowRecords
  BY <1>4 DEF RewardInv, Batch
<1>6. ASSUME NEW i \in Indices
      PROVE  rewards'[i] = Carried(i)' /\ Carried(i)' \in [1 .. MaxLen -> Int]
  <2> DEFINE last == LastToken(rows[i].response.len)
  <2>1. last \in 1 .. MaxLen /\ Shaped(i) \in Int
    BY <1>5, ScoreTypes, ShapedType
  <2>2. Carried(i)' = [t \in 1 .. MaxLen |-> IF Waiting(i)' \/ t # last THEN 0 ELSE Shaped(i)]
    BY <1>4 DEF Carried
  <2>3. rewards[i] = [t \in 1 .. MaxLen |-> IF Waiting(i) \/ t # last THEN 0 ELSE Shaped(i)]
    BY DEF RewardInv, Tensor, Carried
  <2>4. rewards'[i] = IF rows[i].uid = u THEN [rewards[i] EXCEPT ![last] = Shaped(i)] ELSE rewards[i]
    BY <1>2, <1>3, <1>4 DEF Written
  <2> HIDE DEF last
  <2>5. CASE rows[i].uid = u
    <3>1. Waiting(i) /\ ~Waiting(i)'
      BY <1>1, <2>5
    <3>2. rewards'[i] = [t \in 1 .. MaxLen |-> IF t # last THEN 0 ELSE Shaped(i)]
      BY <2>1, <2>3, <2>4, <2>5, <3>1
    <3> QED
      BY <2>1, <2>2, <3>1, <3>2
  <2>6. CASE rows[i].uid # u
    BY <1>1, <2>1, <2>2, <2>3, <2>4, <2>6
  <2> QED
    BY <2>5, <2>6
<1>7. DOMAIN rewards' = Indices /\ rewards' = [i \in 1 .. Len(rows) |-> rewards'[i]]
  BY <1>2, <1>4 DEF Written
<1>8. rewards' \in Seq([1 .. MaxLen -> Int])
  BY <1>4, <1>6, <1>7
<1> QED
  BY <1>4, <1>6, <1>7, <1>8 DEF Tensor

Entries(s) == [k \in 1 .. Len(s) |-> Entry(s[k])]

LEMMA EntriesJoined ==
    ASSUME NEW S, NEW s \in Seq(S), NEW t \in Seq(S)
    PROVE  /\ Entries(s) \o Entries(t) = Entries(s \o t)
           /\ Entries(s) \in Seq({Entry(x) : x \in S}) /\ Len(Entries(s)) = Len(s)
<1> DEFINE a == Entries(s)
           b == Entries(t)
           E == {Entry(x) : x \in S}
<1>1. /\ a \in Seq(E) /\ Len(a) = Len(s) /\ \A k \in 1 .. Len(s) : a[k] = Entry(s[k])
      /\ b \in Seq(E) /\ Len(b) = Len(t) /\ \A k \in 1 .. Len(t) : b[k] = Entry(t[k])
  BY DEF Entries
<1>2. /\ s \o t \in Seq(S) /\ Len(s) \in Nat /\ Len(t) \in Nat /\ Len(s \o t) = Len(s) + Len(t)
      /\ \A k \in 1 .. Len(s) : (s \o t)[k] = s[k]
      /\ \A k \in 1 .. Len(s \o t) : k \notin 1 .. Len(s) => k - Len(s) \in 1 .. Len(t) /\ (s \o t)[k] = t[k - Len(s)]
  BY Concatenated
<1> HIDE DEF a, b, E
<1>3. /\ a \o b \in Seq(E) /\ Len(a \o b) = Len(a) + Len(b)
      /\ \A k \in 1 .. Len(a) : (a \o b)[k] = a[k]
      /\ \A k \in 1 .. Len(a \o b) : k \notin 1 .. Len(a) => k - Len(a) \in 1 .. Len(b) /\ (a \o b)[k] = b[k - Len(a)]
  <2>1. a \in Seq(E) /\ b \in Seq(E)
    BY <1>1
  <2> QED
    BY <2>1, Concatenated
<1>4. a \o b = [k \in 1 .. Len(s \o t) |-> (a \o b)[k]]
  <2> DEFINE c == a \o b
  <2>1. c \in Seq(E) /\ Len(c) = Len(s \o t)
    BY <1>1, <1>2, <1>3
  <2> HIDE DEF c
  <2>2. c = [k \in 1 .. Len(s \o t) |-> c[k]]
    BY <2>1
  <2> QED
    BY <2>2 DEF c
<1>5. \A k \in 1 .. Len(s \o t) : (a \o b)[k] = Entry((s \o t)[k])
  BY <1>1, <1>2, <1>3
<1>6. Entries(s \o t) = [k \in 1 .. Len(s \o t) |-> Entry((s \o t)[k])]
  BY DEF Entries
<1>7. a \o b = Entries(s \o t)
  BY <1>4, <1>5, <1>6
<1> QED
  BY <1>1, <1>7 DEF a, b, E

\* The entries of a group are those of its rows.
LEMMA GroupExported ==
    ASSUME RewardInv, groups # <<>>, groups' = Tail(groups), rows' = rows, cfIdxs' = cfIdxs,
           NEW g, g = realIdxs[Head(groups)] \o cfIdxs[Head(groups)],
           info' = info \o [k \in 1 .. Len(g) |-> Entry(g[k])]
    PROVE  Exported'
<1> DEFINE u == Head(groups)
<1>1. /\ Lists(g, {i \in Indices : rows[i].uid = u})
      /\ \A i \in Indices : rows[i].uid = u => Waiting(i)
      /\ \A i : Waiting(i)' <=> Waiting(i) /\ rows[i].uid # u
  BY NextGroup
<1> HIDE DEF u
<1>2. PICK s : Lists(s, {i \in Indices : ~Waiting(i)}) /\ info = Entries(s)
  BY DEF RewardInv, Exported, Entries
<1>3. Lists(s \o g, {i \in Indices : ~Waiting(i)} \cup {i \in Indices : rows[i].uid = u})
  BY <1>1, <1>2, ListsJoined
<1>4. Indices' = Indices /\ \A i : Entry(i)' = Entry(i)
  BY SameBatch
<1>5. {i \in Indices : ~Waiting(i)} \cup {i \in Indices : rows[i].uid = u} = {i \in Indices' : ~Waiting(i)'}
  BY <1>1, <1>4
<1>6. s \in Seq(Indices) /\ g \in Seq(Indices)
  BY <1>1, <1>2 DEF Lists
<1>7. info' = [k \in 1 .. Len(s \o g) |-> Entry((s \o g)[k])']
  <2>1. info' = Entries(s) \o Entries(g)
    BY <1>2 DEF Entries
  <2>2. Entries(s) \o Entries(g) = Entries(s \o g)
    BY <1>6, EntriesJoined
  <2> QED
    BY <1>4, <2>1, <2>2 DEF Entries
<1> QED
  BY <1>3, <1>5, <1>7 DEF Exported

\* How many entries a group adds to either counter.
LEMMA EntriesCounted ==
    ASSUME NEW S, NEW s \in Seq(S), NEW t \in Seq(S), NEW Q
    PROVE  Cardinality(Places(Entries(s \o t), Q))
             = Cardinality(Places(Entries(s), Q)) + Cardinality(Places(Entries(t), Q))
<1> DEFINE E == {Entry(x) : x \in S}
<1>1. /\ Entries(s) \in Seq(E) /\ Entries(t) \in Seq(E) /\ Entries(s) \o Entries(t) = Entries(s \o t)
      /\ Len(Entries(s)) = Len(s) /\ Len(Entries(t)) = Len(t)
  BY EntriesJoined
<1>2. Cardinality(Places(Entries(s \o t), Q))
        = Cardinality(Places(Entries(s), Q)) + Cardinality(Places(Entries(t), Q))
  <2> HIDE DEF E
  <2>1. Entries(s) \in Seq(E) /\ Entries(t) \in Seq(E)
    BY <1>1
  <2>2. Cardinality(Places(Entries(s) \o Entries(t), Q))
          = Cardinality(Places(Entries(s), Q)) + Cardinality(Places(Entries(t), Q))
    BY <2>1, PlacesJoined
  <2> QED
    BY <1>1, <2>2
<1> QED
  BY <1>2

LEMMA GroupCounted ==
    ASSUME RewardInv, groups # <<>>,
           NEW real, real = realIdxs[Head(groups)], NEW cf, cf = cfIdxs[Head(groups)],
           info' = info \o Entries(real \o cf),
           bonuses' = bonuses + Cardinality({k \in 1 .. Len(real) : Differs(real[k])}),
           leaks' = leaks + Cardinality({k \in 1 .. Len(cf) : Acc(rows[cf[k]]) = 1})
    PROVE  Counted'
<1> DEFINE u == Head(groups)
           E == {Entry(i) : i \in Indices}
           Praised == {e \in E : e.bonus > 0}
           Leaked == {e \in E : e.isCf /\ e.acc = 1}
<1>1. u \in Uids
  BY DEF RewardInv, Batch
<1>2. Lists(real, RealRows(u)) /\ Lists(cf, CfRows(u))
  BY <1>1 DEF RewardInv, Grouping
<1>3. /\ real \in Seq(Indices) /\ cf \in Seq(Indices)
      /\ \A k \in 1 .. Len(real) : real[k] \in Indices /\ rows[real[k]].isCf = FALSE
      /\ \A k \in 1 .. Len(cf) : cf[k] \in Indices /\ rows[cf[k]].isCf = TRUE
  <2>1. \A i \in Indices : rows[i].isCf \in BOOLEAN
    BY ScoreTypes DEF RewardInv, Batch, Indices
  <2>2. RealRows(u) \subseteq Indices /\ CfRows(u) \subseteq Indices
    BY DEF RealRows, CfRows
  <2>3. /\ real \in Seq(RealRows(u)) /\ cf \in Seq(CfRows(u))
        /\ \A k \in 1 .. Len(real) : real[k] \in RealRows(u)
        /\ \A k \in 1 .. Len(cf) : cf[k] \in CfRows(u)
    <3>1. real \in Seq(RealRows(u)) /\ cf \in Seq(CfRows(u))
      BY <1>2 DEF Lists
    <3>2. \A k \in 1 .. Len(real) : real[k] \in RealRows(u)
      BY <3>1
    <3>3. \A k \in 1 .. Len(cf) : cf[k] \in CfRows(u)
      BY <3>1
    <3> QED
      BY <3>1, <3>2, <3>3
  <2>4. real \in Seq(Indices) /\ cf \in Seq(Indices)
    BY <2>2, <2>3
  <2> QED
    BY <2>1, <2>3, <2>4 DEF RealRows, CfRows
<1>4. PICK s : s \in Seq(Indices) /\ info = Entries(s)
  <2>1. PICK s : Lists(s, {i \in Indices : ~Waiting(i)}) /\ info = Entries(s)
    BY DEF RewardInv, Exported, Entries
  <2>2. s \in Seq(Indices)
    BY <2>1 DEF Lists
  <2> QED
    BY <2>1, <2>2
<1>5. /\ real \o cf \in Seq(Indices) /\ info' = Entries(s \o (real \o cf)) /\ info' \in Seq(E)
      /\ info \in Seq(E) /\ Entries(real \o cf) \in Seq(E)
  <2>1. real \o cf \in Seq(Indices) /\ s \o (real \o cf) \in Seq(Indices)
    BY <1>3, <1>4
  <2> QED
    BY <1>4, <2>1, EntriesJoined
<1>6. \A i \in Indices : Entry(i).bonus = Bonus(i) /\ Entry(i).isCf = rows[i].isCf /\ Entry(i).acc = Acc(rows[i])
  BY DEF Entry
<1>7. ASSUME NEW Q
      PROVE  Cardinality(Places(info', Q)) = Cardinality(Places(info, Q))
                + (Cardinality({k \in 1 .. Len(real) : Entry(real[k]) \in Q})
                    + Cardinality({k \in 1 .. Len(cf) : Entry(cf[k]) \in Q}))
  <2>1. Cardinality(Places(info', Q)) = Cardinality(Places(info, Q)) + Cardinality(Places(Entries(real \o cf), Q))
    <3> HIDE DEF E
    <3>1. info \in Seq(E) /\ Entries(real \o cf) \in Seq(E)
      BY <1>5
    <3>2. Cardinality(Places(info \o Entries(real \o cf), Q))
            = Cardinality(Places(info, Q)) + Cardinality(Places(Entries(real \o cf), Q))
      BY <3>1, PlacesJoined
    <3> QED
      BY <3>2
  <2>2. Cardinality(Places(Entries(real \o cf), Q))
          = Cardinality({k \in 1 .. Len(real) : Entry(real[k]) \in Q})
              + Cardinality({k \in 1 .. Len(cf) : Entry(cf[k]) \in Q})
    <3>1. real \in Seq(Indices) /\ cf \in Seq(Indices)
      BY <1>3
    <3>2. Cardinality(Places(Entries(real \o cf), Q))
            = Cardinality(Places(Entries(real), Q)) + Cardinality(Places(Entries(cf), Q))
      BY <3>1, EntriesCounted
    <3>3. /\ Places(Entries(real), Q) = {k \in 1 .. Len(real) : Entry(real[k]) \in Q}
          /\ Places(Entries(cf), Q) = {k \in 1 .. Len(cf) : Entry(cf[k]) \in Q}
      <4>1. Len(Entries(real)) = Len(real) /\ Len(Entries(cf)) = Len(cf)
        BY <3>1, EntriesJoined
      <4> QED
        BY <4>1 DEF Places, Entries
    <3> QED
      BY <3>2, <3>3
  <2> QED
    BY <2>1, <2>2
<1>8. /\ {k \in 1 .. Len(info) : info[k].bonus > 0} = Places(info, Praised)
      /\ {k \in 1 .. Len(info') : info'[k].bonus > 0} = Places(info', Praised)
      /\ {k \in 1 .. Len(info) : info[k].isCf /\ info[k].acc = 1} = Places(info, Leaked)
      /\ {k \in 1 .. Len(info') : info'[k].isCf /\ info'[k].acc = 1} = Places(info', Leaked)
  <2>1. (\A k \in 1 .. Len(info) : info[k] \in E) /\ (\A k \in 1 .. Len(info') : info'[k] \in E)
    <3> HIDE DEF E
    <3> QED
      BY <1>5
  <2> HIDE DEF E
  <2> QED
    BY <2>1 DEF Places
<1>9. Cardinality({}) = 0
  BY FS_EmptySet
<1>10. \A Q : Cardinality(Places(info, Q)) \in Nat
  <2> HIDE DEF E
  <2> QED
    BY <1>5, PlacesFinite
<1>11. ASSUME Alpha > 0 PROVE bonuses' = Cardinality(Places(info', Praised))
  <2>1. {k \in 1 .. Len(real) : Entry(real[k]) \in Praised} = {k \in 1 .. Len(real) : Differs(real[k])}
    BY <1>3, <1>6, <1>11 DEF Bonus
  <2>2. {k \in 1 .. Len(cf) : Entry(cf[k]) \in Praised} = {}
    BY <1>3, <1>6 DEF Bonus
  <2>3. Cardinality({k \in 1 .. Len(real) : Differs(real[k])}) \in Nat
    <3>1. Len(real) \in Nat
      BY <1>3
    <3>2. IsFiniteSet(1 .. Len(real))
      BY <3>1, FS_Interval
    <3>3. {k \in 1 .. Len(real) : Differs(real[k])} \in SUBSET (1 .. Len(real))
      OBVIOUS
    <3> QED
      BY <3>2, <3>3, FS_Subset, FS_CardinalityType
  <2> HIDE DEF Praised
  <2>4. Cardinality(Places(info', Praised))
          = Cardinality(Places(info, Praised)) + Cardinality({k \in 1 .. Len(real) : Differs(real[k])})
    <3>1. Cardinality(Places(info, Praised)) \in Nat
      BY <1>10
    <3>2. Cardinality(Places(info', Praised))
            = Cardinality(Places(info, Praised)) + (Cardinality({k \in 1 .. Len(real) : Differs(real[k])}) + 0)
      BY <1>7, <1>9, <2>1, <2>2
    <3> QED
      BY <2>3, <3>1, <3>2
  <2>5. bonuses = Cardinality(Places(info, Praised))
    BY <1>8, <1>11 DEF RewardInv, Counted
  <2> QED
    BY <2>4, <2>5
<1>12. leaks' = Cardinality(Places(info', Leaked))
  <2>1. {k \in 1 .. Len(real) : Entry(real[k]) \in Leaked} = {}
    BY <1>3, <1>6
  <2>2. {k \in 1 .. Len(cf) : Entry(cf[k]) \in Leaked} = {k \in 1 .. Len(cf) : Acc(rows[cf[k]]) = 1}
    BY <1>3, <1>6
  <2>3. Cardinality({k \in 1 .. Len(cf) : Acc(rows[cf[k]]) = 1}) \in Nat
    <3>1. Len(cf) \in Nat
      BY <1>3
    <3>2. IsFiniteSet(1 .. Len(cf))
      BY <3>1, FS_Interval
    <3>3. {k \in 1 .. Len(cf) : Acc(rows[cf[k]]) = 1} \in SUBSET (1 .. Len(cf))
      OBVIOUS
    <3> QED
      BY <3>2, <3>3, FS_Subset, FS_CardinalityType
  <2> HIDE DEF Leaked
  <2>4. Cardinality(Places(info', Leaked))
          = Cardinality(Places(info, Leaked)) + Cardinality({k \in 1 .. Len(cf) : Acc(rows[cf[k]]) = 1})
    <3>1. Cardinality(Places(info, Leaked)) \in Nat
      BY <1>10
    <3>2. Cardinality(Places(info', Leaked))
            = Cardinality(Places(info, Leaked)) + (0 + Cardinality({k \in 1 .. Len(cf) : Acc(rows[cf[k]]) = 1}))
      BY <1>7, <1>9, <2>1, <2>2
    <3> QED
      BY <2>3, <3>1, <3>2
  <2>5. leaks = Cardinality(Places(info, Leaked))
    BY <1>8 DEF RewardInv, Counted
  <2> QED
    BY <2>4, <2>5
<1> HIDE DEF Praised, Leaked
<1> QED
  BY <1>8, <1>11, <1>12 DEF Counted

LEMMA ShapeGroupInv == RewardInv /\ ShapeGroup => RewardInv'
<1> SUFFICES ASSUME RewardInv, ShapeGroup PROVE RewardInv'
  OBVIOUS
<1> DEFINE real == realIdxs[Head(groups)]
           cf == cfIdxs[Head(groups)]
<1>1. /\ groups # <<>> /\ groups' = Tail(groups) /\ stage = "shape" /\ stage' = "shape"
      /\ rows' = rows /\ realIdxs' = realIdxs /\ cfIdxs' = cfIdxs
      /\ rewards' = Written(real \o cf)
      /\ info' = info \o [k \in 1 .. Len(real \o cf) |-> Entry((real \o cf)[k])]
      /\ bonuses' = bonuses + Cardinality({k \in 1 .. Len(real) : Differs(real[k])})
      /\ leaks' = leaks + Cardinality({k \in 1 .. Len(cf) : Acc(rows[cf[k]]) = 1})
  BY DEF ShapeGroup
<1>2. Tensor'
  BY <1>1, GroupWritten
<1>3. Exported'
  BY <1>1, GroupExported
<1>4. Counted'
  <2>1. info' = info \o Entries(real \o cf)
    BY <1>1 DEF Entries
  <2> QED
    BY <1>1, <2>1, GroupCounted
<1>5. Batch'
  <2>1. groups' \in Seq(Uids) /\ \A j, k \in 1 .. Len(groups') : groups'[j] = groups'[k] => j = k
    BY <1>1, NextGroup
  <2> QED
    BY <1>1, <2>1 DEF RewardInv, Batch
<1>6. Grouping'
  <2>1. \A u : RealRows(u)' = RealRows(u) /\ CfRows(u)' = CfRows(u)
    BY <1>1, SameBatch
  <2> QED
    BY <1>1, <2>1 DEF RewardInv, Grouping, Lists
<1>7. Decoding'
  BY <1>1 DEF Decoding
<1> QED
  BY <1>2, <1>3, <1>4, <1>5, <1>6, <1>7 DEF RewardInv

LEMMA RewardNextInv == RewardInv /\ [RewardNext]_rewardVars => RewardInv'
<1> SUFFICES ASSUME RewardInv, [RewardNext]_rewardVars PROVE RewardInv'
  OBVIOUS
<1>1. CASE \E row \in RowRecords : DecodeRow(row)
  BY <1>1, DecodeRowInv
<1>2. CASE EndDecode
  <2>1. UNCHANGED <<rows, realIdxs, cfIdxs, groups, rewards, info, bonuses, leaks>> /\ stage' = "shape"
    BY <1>2 DEF EndDecode
  <2> QED
    BY <2>1, ResultsKept
<1>3. CASE ShapeGroup
  BY <1>3, ShapeGroupInv
<1>4. CASE Return
  <2>1. /\ UNCHANGED <<rows, realIdxs, cfIdxs, groups, rewards, info, bonuses, leaks>>
        /\ stage' = "done" /\ groups = <<>>
    BY <1>4 DEF Return
  <2> QED
    BY <2>1, ResultsKept
<1>5. CASE UNCHANGED rewardVars
  BY <1>5, ResultsKept DEF rewardVars
<1> QED
  BY <1>1, <1>2, <1>3, <1>4, <1>5 DEF RewardNext

\* The inductive invariant holds throughout.
THEOREM RewardInvariance == RewardSpec => []RewardInv
  BY RewardInitInv, RewardNextInv, PTL DEF RewardSpec

-----------------------------------------------------------------------------
(* Rewards: the properties                                                 *)

\* The majority of a group is one of the modes of its counterfactual answers,
\* and there is none when none of them has an answer.
LEMMA MajorityIsMode ==
    ASSUME RewardInv, NEW u \in Uids
    PROVE  IF Modes(u) = {} THEN CfMajority(u) = NoAnswer ELSE CfMajority(u) \in Modes(u)
<1> DEFINE s == CfAnswers(u)
           answers == {rows[i].response.answer : i \in CfRows(u)} \ {NoAnswer}
           By(a) == {i \in CfRows(u) : rows[i].response.answer = a}
           votes(a) == Cardinality(By(a))
           A == {rows[i].response.answer : i \in CfRows(u)}
<1>1. Lists(cfIdxs[u], CfRows(u))
  BY DEF RewardInv, Grouping
<1>2. /\ cfIdxs[u] \in Seq(CfRows(u)) /\ Len(cfIdxs[u]) \in Nat
      /\ \A k \in 1 .. Len(cfIdxs[u]) : cfIdxs[u][k] \in CfRows(u)
      /\ \A i \in CfRows(u) : \E k \in 1 .. Len(cfIdxs[u]) : cfIdxs[u][k] = i
  <2>1. cfIdxs[u] \in Seq(CfRows(u)) /\ \A i \in CfRows(u) : \E k \in 1 .. Len(cfIdxs[u]) : cfIdxs[u][k] = i
    BY <1>1 DEF Lists
  <2> QED
    BY <2>1
<1>3. /\ s \in Seq(A) /\ Len(s) = Len(cfIdxs[u])
      /\ \A k \in 1 .. Len(s) : s[k] = rows[cfIdxs[u][k]].response.answer
  BY <1>2 DEF CfAnswers
<1>4. Given(s) = answers
  <2> HIDE DEF s
  <2>1. \A k \in 1 .. Len(s) : s[k] \in A
    BY <1>2, <1>3
  <2>2. ASSUME NEW i \in CfRows(u) PROVE \E k \in 1 .. Len(s) : s[k] = rows[i].response.answer
    <3>1. PICK k \in 1 .. Len(cfIdxs[u]) : cfIdxs[u][k] = i
      BY <1>2
    <3> QED
      BY <1>3, <3>1
  <2>3. {s[k] : k \in 1 .. Len(s)} = A
    BY <2>1, <2>2
  <2> QED
    BY <2>3 DEF Given
<1>5. ASSUME NEW a PROVE Count(s, a) = votes(a)
  <2>1. Places(s, {a}) = Places(cfIdxs[u], By(a))
    <3> HIDE DEF s
    <3> QED
      BY <1>2, <1>3 DEF Places
  <2>2. Cardinality(Places(cfIdxs[u], By(a))) = Cardinality(CfRows(u) \cap By(a))
    BY <1>1, PlacesCount
  <2>3. CfRows(u) \cap By(a) = By(a)
    OBVIOUS
  <2>4. Count(s, a) = Cardinality(Places(s, {a}))
    <3> HIDE DEF s, A
    <3> QED
      BY <1>3, CountType
  <2> QED
    BY <2>1, <2>2, <2>3, <2>4
<1>6. Modes(u) = {a \in answers : \A b \in answers : votes(a) >= votes(b)}
  BY DEF Modes
<1>7. CASE answers = {}
  BY <1>4, <1>6, <1>7 DEF CfMajority
<1>8. CASE answers # {}
  <2>1. CfMajority(u) = MostCommon(s)
    BY <1>4, <1>8 DEF CfMajority
  <2>2. MostCommon(s) \in Given(s) /\ \A b \in Given(s) : Count(s, MostCommon(s)) >= Count(s, b)
    <3> HIDE DEF s, A
    <3> QED
      BY <1>3, <1>4, <1>8, MostCommonIsMode
  <2>3. MostCommon(s) \in Modes(u)
    <3> HIDE DEF s, votes, answers
    <3> QED
      BY <1>4, <1>5, <1>6, <2>2
  <2> QED
    BY <2>1, <2>3
<1> QED
  BY <1>7, <1>8

\* At the end every row carries its reward.
LEMMA RewardedAtEnd ==
    ASSUME RewardInv, stage = "done", NEW i \in Indices
    PROVE  /\ rows[i] \in RowRecords /\ ~Waiting(i)
           /\ rewards[i] = [t \in 1 .. MaxLen |-> IF t # LastToken(rows[i].response.len) THEN 0 ELSE Shaped(i)]
           /\ rewards[i][LastToken(rows[i].response.len)] = Shaped(i)
<1>1. rows[i] \in RowRecords
  BY DEF RewardInv, Batch, Indices
<1>2. ~Waiting(i)
  BY DEF RewardInv, Batch, Waiting
<1>3. rewards[i] = [t \in 1 .. MaxLen |-> IF t # LastToken(rows[i].response.len) THEN 0 ELSE Shaped(i)]
  BY <1>2 DEF RewardInv, Tensor, Carried
<1>4. LastToken(rows[i].response.len) \in 1 .. MaxLen
  BY <1>1, ScoreTypes
<1> QED
  BY <1>1, <1>2, <1>3, <1>4

\* Every row of a finished batch carries, at its last valid token and nowhere
\* else, its base reward, with the bonus of its group's majority, or its
\* penalty, whatever the order of the rows (_write_reward and the third pass
\* of CISRewardManager.__call__).
THEOREM GroupsShapeRewards == RewardSpec => []RewardsFollowGroups
<1>1. RewardInv => RewardsFollowGroups
  <2> SUFFICES ASSUME RewardInv, stage = "done", NEW u \in Uids
               PROVE  \E m \in (IF Modes(u) = {} THEN {NoAnswer} ELSE Modes(u)) :
                        \A i \in RealRows(u) \cup CfRows(u) : \A t \in 1 .. MaxLen :
                            rewards[i][t] =
                                IF t # Max({1, rows[i].response.len}) THEN 0
                                ELSE IF rows[i].isCf THEN CfFormatWeight * Format(rows[i]) - Beta * Acc(rows[i])
                                ELSE BaseReward(rows[i]) +
                                        (IF m # NoAnswer /\ rows[i].response.answer # m THEN Alpha ELSE 0)
    BY DEF RewardsFollowGroups
  <2>1. CfMajority(u) \in (IF Modes(u) = {} THEN {NoAnswer} ELSE Modes(u))
    BY MajorityIsMode
  <2>2. ASSUME NEW i \in RealRows(u) \cup CfRows(u), NEW t \in 1 .. MaxLen
        PROVE  rewards[i][t] =
                   IF t # Max({1, rows[i].response.len}) THEN 0
                   ELSE IF rows[i].isCf THEN CfFormatWeight * Format(rows[i]) - Beta * Acc(rows[i])
                   ELSE BaseReward(rows[i]) +
                        (IF CfMajority(u) # NoAnswer /\ rows[i].response.answer # CfMajority(u) THEN Alpha ELSE 0)
    <3>1. i \in Indices /\ rows[i].uid = u
      BY DEF RealRows, CfRows
    <3>2. /\ rows[i] \in RowRecords
          /\ rewards[i][t] = IF t # LastToken(rows[i].response.len) THEN 0 ELSE Shaped(i)
      BY <3>1, RewardedAtEnd
    <3>3. rows[i].response.len \in Nat
      BY <3>2, ResponsesAssumption, WeightsAssumption DEF RowRecords
    <3>4. LastToken(rows[i].response.len) = Max({1, rows[i].response.len})
      <4> DEFINE n == rows[i].response.len
                 last == LastToken(n)
      <4>1. n \in Nat
        BY <3>3
      <4> HIDE DEF n
      <4>2. last \in {1, n} /\ last \in Int /\ \A y \in {1, n} : last >= y
        BY <4>1 DEF LastToken
      <4>3. \A x \in {1, n} : (\A y \in {1, n} : x >= y) => x = last
        BY <4>1, <4>2
      <4> HIDE DEF last
      <4>4. Max({1, n}) = last
        BY <4>2, <4>3 DEF Max
      <4> QED
        BY <4>4 DEF n, last
    <3>5. rows[i].isCf => Shaped(i) = CfFormatWeight * Format(rows[i]) - Beta * Acc(rows[i])
      BY DEF Shaped, CfReward
    <3>6. ~rows[i].isCf =>
            Shaped(i) = BaseReward(rows[i]) +
                (IF CfMajority(u) # NoAnswer /\ rows[i].response.answer # CfMajority(u) THEN Alpha ELSE 0)
      BY <3>1 DEF Shaped, Bonus, Differs
    <3> QED
      BY <3>2, <3>4, <3>5, <3>6
  <2> QED
    BY <2>1, <2>2
<1> QED
  BY RewardInvariance, <1>1, PTL

\* The exported entries are those of the rows, each row once, and the counters
\* behind the rates count them.
THEOREM InfoComplete == RewardSpec => []InfoCoversRows
<1>1. RewardInv => InfoCoversRows
  <2> SUFFICES ASSUME RewardInv, stage = "done" PROVE InfoCoversRows
    BY DEF InfoCoversRows
  <2>1. {i \in Indices : ~Waiting(i)} = Indices
    BY RewardedAtEnd
  <2>2. PICK s : Lists(s, Indices) /\ info = Entries(s)
    BY <2>1 DEF RewardInv, Exported, Entries
  <2>3. /\ s \in Seq(Indices) /\ Len(s) \in Nat /\ Len(info) = Len(s)
        /\ \A k \in 1 .. Len(s) : info[k] = Entry(s[k]) /\ s[k] \in Indices
    <3>1. s \in Seq(Indices)
      BY <2>2 DEF Lists
    <3>2. Len(s) \in Nat /\ \A k \in 1 .. Len(s) : s[k] \in Indices
      BY <3>1
    <3> QED
      BY <2>2, <3>1, <3>2, EntriesJoined DEF Entries
  <2>4. Len(info) = Len(rows)
    <3>1. Len(rows) \in Nat /\ Indices = 1 .. Len(rows)
      BY DEF RewardInv, Batch, Indices
    <3>2. Cardinality(1 .. Len(rows)) = Len(rows) /\ Cardinality(1 .. Len(s)) = Len(s)
      BY <2>3, <3>1, UpTo
    <3>3. Cardinality(Places(s, Indices)) = Cardinality(Indices \cap Indices)
      BY <2>2, PlacesCount
    <3>4. Places(s, Indices) = 1 .. Len(s) /\ Indices \cap Indices = 1 .. Len(rows)
      BY <2>3, <3>1 DEF Places
    <3> QED
      BY <2>3, <3>2, <3>3, <3>4
  <2>5. ASSUME NEW e
        PROVE  Cardinality({k \in 1 .. Len(info) : info[k] = e})
                 = Cardinality({i \in Indices :
                       /\ rewards[i][LastToken(rows[i].response.len)] = e.score
                       /\ Entry(i) = e})
    <3> DEFINE Q == {i \in Indices :
                       /\ rewards[i][LastToken(rows[i].response.len)] = e.score
                       /\ Entry(i) = e}
    <3>1. \A i \in Indices : Entry(i) = e => rewards[i][LastToken(rows[i].response.len)] = e.score
      <4>1. \A i \in Indices : Entry(i).score = Shaped(i)
        BY DEF Entry
      <4> QED
        BY <4>1, RewardedAtEnd
    <3>2. {k \in 1 .. Len(info) : info[k] = e} = Places(s, Q)
      BY <2>3, <3>1 DEF Places
    <3>3. Cardinality(Places(s, Q)) = Cardinality(Indices \cap Q)
      BY <2>2, PlacesCount
    <3>4. Indices \cap Q = Q
      OBVIOUS
    <3> QED
      BY <3>2, <3>3, <3>4
  <2>6. Counted
    BY DEF RewardInv
  <2> QED
    BY <2>4, <2>5, <2>6 DEF InfoCoversRows, Counted
<1> QED
  BY RewardInvariance, <1>1, PTL

-----------------------------------------------------------------------------
(* Rewards: the order of the entries                                       *)

Rising(s) == \A j, k \in 1 .. Len(s) : j < k => s[j] < s[k]

\* A rising list of consecutive numbers counts up from the first of them.
LEMMA RisingInterval ==
    ASSUME NEW n \in Nat, NEW S \in SUBSET Nat, NEW s, Lists(s, S), Rising(s),
           \A i \in S : i > n /\ \A j \in n + 1 .. i : j \in S
    PROVE  /\ \A k \in 1 .. Len(s) : s[k] = n + k
           /\ \A i \in Nat : i \in S <=> i \in n + 1 .. n + Len(s)
<1>1. /\ Len(s) \in Nat /\ \A k \in 1 .. Len(s) : s[k] \in S /\ s[k] \in Nat
      /\ \A x \in S : \E k \in 1 .. Len(s) : s[k] = x
  <2>1. s \in Seq(S) /\ \A x \in S : \E k \in 1 .. Len(s) : s[k] = x
    BY DEF Lists
  <2>2. Len(s) \in Nat /\ \A k \in 1 .. Len(s) : s[k] \in S
    BY <2>1
  <2> QED
    BY <2>1, <2>2
<1>2. \A k \in 1 .. Len(s) : s[k] = n + k
  <2> DEFINE Wrong == {k \in 1 .. Len(s) : s[k] # n + k}
  <2>1. SUFFICES ASSUME Wrong # {} PROVE FALSE
    OBVIOUS
  <2>2. PICK k \in Wrong : \A j \in Wrong : k <= j
    <3>1. Wrong \subseteq Nat
      BY <1>1
    <3> HIDE DEF Wrong
    <3> QED
      BY <2>1, <3>1, LeastNumber
  <2>3. k \in 1 .. Len(s) /\ s[k] # n + k
    OBVIOUS
  <2>4. \A j \in 1 .. Len(s) : j < k => s[j] = n + j
    BY <1>1, <2>2
  <2>5. s[k] >= n + k
    <3>1. CASE k = 1
      BY <1>1, <2>3, <3>1
    <3>2. CASE k # 1
      <4>1. k - 1 \in 1 .. Len(s) /\ k - 1 < k
        BY <1>1, <2>3, <3>2
      <4>2. s[k - 1] = n + (k - 1) /\ s[k - 1] < s[k]
        BY <2>3, <2>4, <4>1 DEF Rising
      <4> QED
        BY <1>1, <2>3, <4>2
    <3> QED
      BY <3>1, <3>2
  <2>6. PICK j \in 1 .. Len(s) : s[j] = n + k
    <3>1. n + k \in n + 1 .. s[k]
      BY <1>1, <2>3, <2>5
    <3>2. n + k \in S
      BY <1>1, <2>3, <3>1
    <3> QED
      BY <1>1, <3>2
  <2>7. j < k \/ j = k \/ k < j
    BY <1>1, <2>3
  <2>8. CASE j < k
    BY <1>1, <2>3, <2>4, <2>6, <2>8
  <2>9. CASE k < j
    <3>1. s[k] < s[j]
      BY <2>3, <2>9 DEF Rising
    <3> QED
      BY <1>1, <2>3, <2>5, <2>6, <3>1
  <2> QED
    BY <2>3, <2>6, <2>7, <2>8, <2>9
<1>3. ASSUME NEW i \in Nat, i \in S PROVE i \in n + 1 .. n + Len(s)
  <2>1. PICK k \in 1 .. Len(s) : s[k] = i
    BY <1>1, <1>3
  <2> QED
    BY <1>1, <1>2, <2>1
<1>4. ASSUME NEW i \in Nat, i \in n + 1 .. n + Len(s) PROVE i \in S
  <2>1. i - n \in 1 .. Len(s) /\ n + (i - n) = i
    BY <1>1, <1>4
  <2> QED
    BY <1>1, <1>2, <2>1
<1> QED
  BY <1>2, <1>3, <1>4

LEMMA RisingAppended ==
    ASSUME NEW s \in Seq(Nat), Rising(s), NEW n \in Nat, \A k \in 1 .. Len(s) : s[k] < n
    PROVE  Rising(Append(s, n))
<1> DEFINE t == Append(s, n)
<1>1. /\ Len(t) = Len(s) + 1 /\ Len(s) \in Nat /\ t[Len(s) + 1] = n
      /\ \A k \in 1 .. Len(s) : t[k] = s[k]
  OBVIOUS
<1> HIDE DEF t
<1>2. ASSUME NEW j \in 1 .. Len(t), NEW k \in 1 .. Len(t), j < k PROVE t[j] < t[k]
  <2>1. j \in 1 .. Len(s) /\ (k \in 1 .. Len(s) \/ k = Len(s) + 1)
    BY <1>1, <1>2
  <2> QED
    BY <1>1, <1>2, <2>1 DEF Rising
<1> QED
  BY <1>2 DEF Rising, t

LEMMA RisingJoined ==
    ASSUME NEW s \in Seq(Nat), NEW t \in Seq(Nat), Rising(s), Rising(t),
           \A j \in 1 .. Len(s) : \A k \in 1 .. Len(t) : s[j] < t[k]
    PROVE  Rising(s \o t)
<1> DEFINE c == s \o t
<1>1. /\ Len(s) \in Nat /\ Len(t) \in Nat /\ Len(c) = Len(s) + Len(t)
      /\ \A k \in 1 .. Len(s) : c[k] = s[k]
      /\ \A k \in 1 .. Len(c) : k \notin 1 .. Len(s) => k - Len(s) \in 1 .. Len(t) /\ c[k] = t[k - Len(s)]
  BY Concatenated
<1> HIDE DEF c
<1>2. ASSUME NEW j \in 1 .. Len(c), NEW k \in 1 .. Len(c), j < k PROVE c[j] < c[k]
  <2>1. CASE j \in 1 .. Len(s) /\ k \in 1 .. Len(s)
    BY <1>1, <1>2, <2>1 DEF Rising
  <2>2. CASE j \in 1 .. Len(s) /\ k \notin 1 .. Len(s)
    BY <1>1, <2>2
  <2>3. CASE j \notin 1 .. Len(s)
    <3>1. /\ j - Len(s) \in 1 .. Len(t) /\ c[j] = t[j - Len(s)]
          /\ k - Len(s) \in 1 .. Len(t) /\ c[k] = t[k - Len(s)]
      BY <1>1, <1>2, <2>3
    <3>2. j - Len(s) < k - Len(s)
      BY <1>1, <1>2
    <3> QED
      BY <3>1, <3>2 DEF Rising
  <2> QED
    BY <2>1, <2>2, <2>3
<1> QED
  BY <1>2 DEF Rising, c

RisingLists == \A u \in Uids : Rising(realIdxs[u]) /\ Rising(cfIdxs[u])

\* Every group has a row, and groups wait in the order of their first rows.
FirstSeen ==
    /\ \A k \in 1 .. Len(groups) : \E i \in Indices : rows[i].uid = groups[k]
    /\ \A j, k \in 1 .. Len(groups) : j < k =>
          \E i \in Indices : rows[i].uid = groups[j] /\ \A m \in Indices : rows[m].uid = groups[k] => i < m

\* What has been shaped is a front part of the batch, entry by entry.
FrontShaped ==
    stage # "decode" /\ Adjacent =>
        /\ info = [i \in 1 .. Len(info) |-> Entry(i)]
        /\ Len(info) <= Len(rows)
        /\ \A i \in Indices : Waiting(i) <=> i > Len(info)

OrderInv == RisingLists /\ FirstSeen /\ FrontShaped

LEMMA InfoLength == RewardInv => Len(info) \in Nat
<1> SUFFICES ASSUME RewardInv PROVE Len(info) \in Nat
  OBVIOUS
<1>1. PICK s : Lists(s, {i \in Indices : ~Waiting(i)}) /\ info = Entries(s)
  BY DEF RewardInv, Exported, Entries
<1>2. s \in Seq(Indices)
  BY <1>1 DEF Lists
<1> QED
  BY <1>1, <1>2, EntriesJoined

\* The rows of the group in turn come right after those that are shaped.
LEMMA GroupIsNext ==
    ASSUME RewardInv, OrderInv, groups # <<>>, stage # "decode", Adjacent,
           NEW g, g = realIdxs[Head(groups)] \o cfIdxs[Head(groups)],
           Lists(g, {i \in Indices : rows[i].uid = Head(groups)})
    PROVE  /\ \A k \in 1 .. Len(g) : g[k] = Len(info) + k
           /\ \A i \in Nat : i \in Indices /\ rows[i].uid = Head(groups) <=> i \in Len(info) + 1 .. Len(info) + Len(g)
<1> DEFINE u == Head(groups)
           n == Len(info)
           S == {i \in Indices : rows[i].uid = u}
<1>1. /\ groups \in Seq(Uids) /\ Len(groups) \in Nat \ {0} /\ u = groups[1] /\ u \in Uids
      /\ n \in Nat /\ Len(rows) \in Nat /\ Indices = 1 .. Len(rows)
  BY InfoLength DEF RewardInv, Batch, Indices
<1>2. \A i \in Indices : Waiting(i) <=> i > n
  BY DEF OrderInv, FrontShaped
<1> HIDE DEF u, n
<1>3. \A i \in S : Waiting(i) /\ i > n
  BY <1>1, <1>2 DEF Waiting
<1>4. ASSUME NEW i \in S, NEW j \in n + 1 .. i PROVE j \in S
  <2>1. j \in Indices /\ j <= i /\ n + 1 \in Indices /\ n + 1 <= i
    BY <1>1, <1>3, <1>4
  <2>2. rows[n + 1].uid = u
    <3>1. PICK k \in 1 .. Len(groups) : groups[k] = rows[n + 1].uid
      BY <1>1, <1>2, <2>1 DEF Waiting
    <3>2. SUFFICES ASSUME k # 1 PROVE FALSE
      BY <1>1, <3>1
    <3>3. 1 \in 1 .. Len(groups) /\ 1 < k
      BY <1>1, <3>1, <3>2
    <3>4. PICK m \in Indices : rows[m].uid = groups[1] /\ m < n + 1
      <4>1. PICK m \in Indices : /\ rows[m].uid = groups[1]
                                 /\ \A l \in Indices : rows[l].uid = groups[k] => m < l
        BY <3>1, <3>3 DEF OrderInv, FirstSeen
      <4>2. m < n + 1
        BY <2>1, <3>1, <4>1
      <4> QED
        BY <4>1, <4>2
    <3>5. m \in S
      BY <1>1, <3>4
    <3> QED
      BY <1>1, <1>3, <3>4, <3>5
  <2>3. rows[j].uid = rows[n + 1].uid
    <3>1. j \in n + 1 .. i /\ rows[i].uid = rows[n + 1].uid /\ i \in Indices
      BY <2>2
    <3> QED
      BY <2>1, <3>1 DEF Adjacent
  <2> QED
    BY <2>1, <2>2, <2>3
<1>5. Rising(g)
  <2> DEFINE real == realIdxs[u]
             cf == cfIdxs[u]
  <2>1. Lists(real, RealRows(u)) /\ Lists(cf, CfRows(u)) /\ Rising(real) /\ Rising(cf)
    BY <1>1 DEF RewardInv, Grouping, OrderInv, RisingLists
  <2>2. g = real \o cf
    BY DEF u
  <2>3. RealRows(u) \subseteq Nat /\ CfRows(u) \subseteq Nat
    BY <1>1 DEF RealRows, CfRows
  <2> HIDE DEF real, cf
  <2>4. /\ real \in Seq(Nat) /\ cf \in Seq(Nat)
        /\ \A k \in 1 .. Len(real) : real[k] \in RealRows(u)
        /\ \A k \in 1 .. Len(cf) : cf[k] \in CfRows(u)
    BY <2>1, <2>3 DEF Lists
  <2>5. ASSUME NEW j \in RealRows(u), NEW k \in CfRows(u) PROVE j < k
    <3>1. /\ j \in Indices /\ rows[j].uid = u /\ ~rows[j].isCf
          /\ k \in Indices /\ rows[k].uid = u /\ rows[k].isCf
      BY DEF RealRows, CfRows
    <3>2. ~(k <= j)
      BY <3>1 DEF Adjacent
    <3> QED
      BY <1>1, <3>1, <3>2
  <2>6. Rising(real \o cf)
    BY <2>1, <2>4, <2>5, RisingJoined
  <2> QED
    BY <2>2, <2>6
<1>6. Lists(g, S) /\ S \in SUBSET Nat
  BY <1>1 DEF u
<1>7. /\ \A k \in 1 .. Len(g) : g[k] = n + k
      /\ \A i \in Nat : i \in S <=> i \in n + 1 .. n + Len(g)
  <2>1. PICK T : T = S
    OBVIOUS
  <2>2. T \in SUBSET Nat /\ Lists(g, T) /\ \A i \in T : i > n /\ \A j \in n + 1 .. i : j \in T
    BY <1>3, <1>4, <1>6, <2>1
  <2>3. n \in Nat
    BY <1>1
  <2> HIDE DEF S
  <2>4. /\ \A k \in 1 .. Len(g) : g[k] = n + k
        /\ \A i \in Nat : i \in T <=> i \in n + 1 .. n + Len(g)
    BY ONLY <1>5, <2>2, <2>3, RisingInterval
  <2> QED
    BY <2>1, <2>4
<1> QED
  BY <1>1, <1>7 DEF u, n

LEMMA OrderInitInv == RewardInit => OrderInv
<1> SUFFICES ASSUME RewardInit PROVE OrderInv
  OBVIOUS
<1>1. Len(groups) = 0 /\ stage = "decode" /\ \A u \in Uids : Len(realIdxs[u]) = 0 /\ Len(cfIdxs[u]) = 0
  BY DEF RewardInit
<1> QED
  BY <1>1 DEF OrderInv, RisingLists, Rising, FirstSeen, FrontShaped

LEMMA DecodeRowOrder ==
    ASSUME RewardInv, OrderInv, NEW row \in RowRecords, DecodeRow(row)
    PROVE  OrderInv'
<1> DEFINE n == Len(rows) + 1
<1>1. /\ rows \in Seq(RowRecords) /\ groups \in Seq(Uids) /\ Len(rows) \in Nat /\ Len(groups) \in Nat
      /\ stage = "decode" /\ stage' = stage /\ rows' = Append(rows, row)
  BY DEF DecodeRow, RewardInv, Batch
<1>2. row.uid \in Uids /\ row.isCf \in BOOLEAN
  BY ScoreTypes
<1>3. /\ n \in Nat /\ Indices = 1 .. Len(rows) /\ Indices' = Indices \cup {n} /\ rows'[n] = row
      /\ \A i \in Indices : rows'[i] = rows[i] /\ i \in Nat /\ i < n
  BY <1>1 DEF Indices
<1>4. FrontShaped'
  BY <1>1 DEF FrontShaped
<1>5. RisingLists'
  <2>1. ASSUME NEW u \in Uids PROVE Rising(realIdxs[u])' /\ Rising(cfIdxs[u])'
    <3>1. /\ Lists(realIdxs[u], RealRows(u)) /\ Lists(cfIdxs[u], CfRows(u))
          /\ Rising(realIdxs[u]) /\ Rising(cfIdxs[u])
      BY DEF RewardInv, Grouping, OrderInv, RisingLists
    <3>2. RealRows(u) \subseteq Indices /\ CfRows(u) \subseteq Indices
      BY DEF RealRows, CfRows
    <3>3. /\ realIdxs[u] \in Seq(Nat) /\ \A k \in 1 .. Len(realIdxs[u]) : realIdxs[u][k] < n
          /\ cfIdxs[u] \in Seq(Nat) /\ \A k \in 1 .. Len(cfIdxs[u]) : cfIdxs[u][k] < n
      <4>1. /\ realIdxs[u] \in Seq(Indices) /\ cfIdxs[u] \in Seq(Indices)
        BY <3>1, <3>2 DEF Lists
      <4> HIDE DEF n
      <4> QED
        BY <1>3, <4>1
    <3>4. Rising(Append(realIdxs[u], n)) /\ Rising(Append(cfIdxs[u], n))
      BY <1>3, <3>1, <3>3, RisingAppended
    <3>5. /\ realIdxs'[u] = IF u = row.uid /\ ~row.isCf THEN Append(realIdxs[u], n) ELSE realIdxs[u]
          /\ cfIdxs'[u] = IF u = row.uid /\ row.isCf THEN Append(cfIdxs[u], n) ELSE cfIdxs[u]
      BY <1>2 DEF DecodeRow, RewardInv, Grouping
    <3>6. Rising(realIdxs'[u]) /\ Rising(cfIdxs'[u])
      BY <3>1, <3>4, <3>5
    <3> QED
      BY <3>6 DEF Rising
  <2> QED
    BY <2>1 DEF RisingLists
<1>6. FirstSeen'
  <2>1. CASE \E k \in 1 .. Len(groups) : groups[k] = row.uid
    <3>1. groups' = groups
      BY <2>1 DEF DecodeRow
    <3>2. ASSUME NEW k \in 1 .. Len(groups') PROVE \E i \in Indices' : rows'[i].uid = groups'[k]
      BY <1>3, <3>1 DEF OrderInv, FirstSeen
    <3>3. ASSUME NEW j \in 1 .. Len(groups'), NEW k \in 1 .. Len(groups'), j < k
          PROVE  \E i \in Indices' : rows'[i].uid = groups'[j] /\ \A m \in Indices' : rows'[m].uid = groups'[k] => i < m
      <4>1. PICK i \in Indices : rows[i].uid = groups[j] /\ \A m \in Indices : rows[m].uid = groups[k] => i < m
        BY <3>1, <3>3 DEF OrderInv, FirstSeen
      <4> QED
        BY <1>3, <3>1, <4>1
    <3> QED
      BY <3>2, <3>3 DEF FirstSeen
  <2>2. CASE ~\E k \in 1 .. Len(groups) : groups[k] = row.uid
    <3>1. groups' = Append(groups, row.uid)
      BY <2>2 DEF DecodeRow
    <3>2. /\ Len(groups') = Len(groups) + 1 /\ groups'[Len(groups) + 1] = row.uid
          /\ \A k \in 1 .. Len(groups) : groups'[k] = groups[k]
      BY <1>1, <1>2, <3>1
    <3>3. \A i \in Indices : rows[i].uid # row.uid
      BY <1>1, <2>2 DEF RewardInv, Decoding, Waiting
    <3>4. ASSUME NEW k \in 1 .. Len(groups') PROVE \E i \in Indices' : rows'[i].uid = groups'[k]
      <4>1. k \in 1 .. Len(groups) \/ k = Len(groups) + 1
        BY <1>1, <3>2
      <4> QED
        BY <1>3, <3>2, <4>1 DEF OrderInv, FirstSeen
    <3>5. ASSUME NEW j \in 1 .. Len(groups'), NEW k \in 1 .. Len(groups'), j < k
          PROVE  \E i \in Indices' : rows'[i].uid = groups'[j] /\ \A m \in Indices' : rows'[m].uid = groups'[k] => i < m
      <4>1. j \in 1 .. Len(groups) /\ (k \in 1 .. Len(groups) \/ k = Len(groups) + 1)
        BY <1>1, <3>2, <3>5
      <4>2. CASE k \in 1 .. Len(groups)
        <5>1. PICK i \in Indices : rows[i].uid = groups[j] /\ \A m \in Indices : rows[m].uid = groups[k] => i < m
          BY <3>5, <4>1, <4>2 DEF OrderInv, FirstSeen
        <5> QED
          BY <1>3, <3>2, <4>1, <4>2, <5>1
      <4>3. CASE k = Len(groups) + 1
        <5>1. PICK i \in Indices : rows[i].uid = groups[j]
          BY <4>1 DEF OrderInv, FirstSeen
        <5> QED
          BY <1>3, <3>2, <3>3, <4>1, <4>3, <5>1
      <4> QED
        BY <4>1, <4>2, <4>3
    <3> QED
      BY <3>4, <3>5 DEF FirstSeen
  <2> QED
    BY <2>1, <2>2
<1> QED
  BY <1>4, <1>5, <1>6 DEF OrderInv

LEMMA ShapeGroupOrder == ASSUME RewardInv, OrderInv, ShapeGroup PROVE OrderInv'
<1> DEFINE u == Head(groups)
           g == realIdxs[u] \o cfIdxs[u]
           n == Len(info)
<1>1. /\ groups # <<>> /\ groups' = Tail(groups) /\ stage = "shape" /\ stage' = "shape"
      /\ rows' = rows /\ realIdxs' = realIdxs /\ cfIdxs' = cfIdxs
      /\ info' = info \o Entries(g)
  BY DEF ShapeGroup, Entries
<1>2. /\ Indices' = Indices /\ \A i : Entry(i)' = Entry(i)
      /\ Lists(g, {i \in Indices : rows[i].uid = u})
      /\ \A i : Waiting(i)' <=> Waiting(i) /\ rows[i].uid # u
  BY <1>1, SameBatch, NextGroup
<1>3. RisingLists'
  BY <1>1 DEF OrderInv, RisingLists, Rising
<1>4. FirstSeen'
  <2>1. /\ Len(groups) \in Nat \ {0} /\ Len(groups') = Len(groups) - 1
        /\ \A k \in 1 .. Len(groups) - 1 : groups'[k] = groups[k + 1]
    BY <1>1 DEF RewardInv, Batch
  <2>2. ASSUME NEW k \in 1 .. Len(groups') PROVE k + 1 \in 1 .. Len(groups) /\ groups'[k] = groups[k + 1]
    BY <2>1
  <2>3. ASSUME NEW j \in 1 .. Len(groups'), NEW k \in 1 .. Len(groups'), j < k
        PROVE  \E i \in Indices : rows[i].uid = groups'[j] /\ \A m \in Indices : rows[m].uid = groups'[k] => i < m
    <3>1. j + 1 < k + 1 /\ j + 1 \in 1 .. Len(groups) /\ k + 1 \in 1 .. Len(groups)
      BY <2>1, <2>2, <2>3
    <3> QED
      BY <2>2, <3>1 DEF OrderInv, FirstSeen
  <2>4. ASSUME NEW k \in 1 .. Len(groups') PROVE \E i \in Indices : rows[i].uid = groups'[k]
    BY <2>2 DEF OrderInv, FirstSeen
  <2> QED
    BY <1>1, <1>2, <2>3, <2>4 DEF FirstSeen
<1>5. ASSUME Adjacent' PROVE /\ info' = [i \in 1 .. Len(info') |-> Entry(i)']
                             /\ Len(info') <= Len(rows')
                             /\ \A i \in Indices' : Waiting(i)' <=> i > Len(info')
  <2>1. Adjacent
    BY <1>1, <1>2, <1>5 DEF Adjacent
  <2>2. /\ \A k \in 1 .. Len(g) : g[k] = n + k
        /\ \A i \in Nat : i \in Indices /\ rows[i].uid = u <=> i \in n + 1 .. n + Len(g)
    BY <1>1, <1>2, <2>1, GroupIsNext
  <2>3. /\ info = [i \in 1 .. n |-> Entry(i)] /\ n <= Len(rows)
        /\ \A i \in Indices : Waiting(i) <=> i > n
    BY <1>1, <2>1 DEF OrderInv, FrontShaped
  <2>4. Len(rows) \in Nat /\ Indices = 1 .. Len(rows) /\ n \in Nat /\ g \in Seq(Indices) /\ Len(g) \in Nat
    <3>1. Len(rows) \in Nat /\ Indices = 1 .. Len(rows) /\ n \in Nat
      BY InfoLength DEF RewardInv, Batch, Indices
    <3> HIDE DEF g
    <3>2. g \in Seq({i \in Indices : rows[i].uid = u})
      BY <1>2 DEF Lists
    <3> QED
      BY <3>1, <3>2
  <2> HIDE DEF g, n, u
  <2>5. /\ Entries(g) = [k \in 1 .. Len(g) |-> Entry(n + k)] /\ Len(Entries(g)) = Len(g)
    BY <2>2, <2>4 DEF Entries
  <2>6. n + Len(g) <= Len(rows)
    <3>1. CASE Len(g) = 0
      BY <2>3, <2>4, <3>1
    <3>2. CASE Len(g) # 0
      BY <2>2, <2>4, <3>2
    <3> QED
      BY <3>1, <3>2
  <2>7. /\ info' = [i \in 1 .. n + Len(g) |-> Entry(i)] /\ Len(info') = n + Len(g)
    <3> DEFINE E == {Entry(i) : i \in Nat}
               a == [i \in 1 .. n |-> Entry(i)]
               b == [k \in 1 .. Len(g) |-> Entry(n + k)]
    <3>1. a \in Seq(E) /\ Len(a) = n /\ b \in Seq(E) /\ Len(b) = Len(g)
      BY <2>4
    <3>2. info' = a \o b
      BY <1>1, <2>3, <2>5 DEF g, u
    <3>3. /\ DOMAIN (a \o b) = 1 .. n + Len(g) /\ Len(a \o b) = n + Len(g)
          /\ a \o b = [i \in 1 .. n + Len(g) |-> (a \o b)[i]]
      <4> HIDE DEF a, b, E
      <4>1. a \in Seq(E) /\ b \in Seq(E)
        BY <3>1
      <4>2. a \o b \in Seq(E) /\ Len(a \o b) = Len(a) + Len(b)
        BY <4>1, Concatenated
      <4>3. Len(a \o b) = n + Len(g)
        BY <3>1, <4>2
      <4> DEFINE c == a \o b
      <4>4. c \in Seq(E) /\ Len(c) = n + Len(g)
        BY <4>2, <4>3
      <4> HIDE DEF c
      <4>5. DOMAIN c = 1 .. n + Len(g) /\ c = [i \in 1 .. n + Len(g) |-> c[i]]
        BY <4>4
      <4> QED
        BY <4>4, <4>5 DEF c
    <3>4. ASSUME NEW i \in 1 .. n + Len(g) PROVE (a \o b)[i] = Entry(i)
      <4>1. CASE i \in 1 .. n
        BY <2>4, <3>1, <4>1
      <4>2. CASE i \notin 1 .. n
        <5>1. i - n \in 1 .. Len(g) /\ (a \o b)[i] = b[i - n]
          <6> HIDE DEF a, b, E
          <6> QED
            BY <2>4, <3>1, <3>3, <4>2, Concatenated
        <5>2. n + (i - n) = i
          BY <2>4
        <5> QED
          BY <5>1, <5>2
      <4> QED
        BY <4>1, <4>2
    <3> QED
      BY <3>2, <3>3, <3>4
  <2>8. ASSUME NEW i \in Indices PROVE Waiting(i)' <=> i > n + Len(g)
    <3>1. Waiting(i)' <=> i > n /\ rows[i].uid # u
      BY <1>2, <2>3
    <3>2. i \in Nat /\ (rows[i].uid = u <=> i \in n + 1 .. n + Len(g))
      BY <2>2, <2>4
    <3> QED
      BY <2>4, <3>1, <3>2
  <2> QED
    BY <1>1, <1>2, <2>6, <2>7, <2>8
<1>6. FrontShaped'
  BY <1>5 DEF FrontShaped
<1> QED
  BY <1>3, <1>4, <1>6 DEF OrderInv

\* Nor does a step that touches neither batch nor entries disturb the order.
LEMMA OrderKept ==
    ASSUME RewardInv, OrderInv, UNCHANGED <<rows, realIdxs, cfIdxs, groups, info>>
    PROVE  OrderInv'
<1>1. Indices' = Indices /\ \A i : Entry(i)' = Entry(i) /\ Waiting(i)' = Waiting(i)
  BY SameBatch DEF Waiting
<1>2. RisingLists' /\ FirstSeen'
  BY <1>1 DEF OrderInv, RisingLists, Rising, FirstSeen
<1>3. CASE stage # "decode"
  <2>1. Adjacent' <=> Adjacent
    BY <1>1 DEF Adjacent
  <2>2. info' = [i \in 1 .. Len(info) |-> Entry(i)] <=> info' = [i \in 1 .. Len(info) |-> Entry(i)']
    BY <1>1
  <2>3. FrontShaped'
    BY <1>1, <1>3, <2>1, <2>2 DEF OrderInv, FrontShaped
  <2> QED
    BY <1>2, <2>3 DEF OrderInv
<1>4. CASE stage = "decode"
  <2>1. info = <<>> /\ \A i \in Indices : Waiting(i)
    BY <1>4 DEF RewardInv, Decoding
  <2>2. Len(info) = 0 /\ info = [i \in 1 .. Len(info) |-> Entry(i)]
    BY <2>1
  <2>3. Len(rows) \in Nat /\ Indices = 1 .. Len(rows)
    BY DEF RewardInv, Batch, Indices
  <2>4. FrontShaped'
    BY <1>1, <2>1, <2>2, <2>3 DEF FrontShaped
  <2> QED
    BY <1>2, <2>4 DEF OrderInv
<1> QED
  BY <1>2, <1>3, <1>4 DEF OrderInv

\* A batch whose rows come group by group and real rows first is exported in
\* the order of its rows.
THEOREM EntriesOrdered == RewardSpec => []EntriesInRowOrder
<1>1. RewardInit => OrderInv
  BY OrderInitInv
<1>2. RewardInv /\ OrderInv /\ [RewardNext]_rewardVars => OrderInv'
  <2> SUFFICES ASSUME RewardInv, OrderInv, [RewardNext]_rewardVars PROVE OrderInv'
    OBVIOUS
  <2>1. CASE \E row \in RowRecords : DecodeRow(row)
    BY <2>1, DecodeRowOrder
  <2>2. CASE EndDecode
    BY <2>2, OrderKept DEF EndDecode
  <2>3. CASE ShapeGroup
    BY <2>3, ShapeGroupOrder
  <2>4. CASE Return
    <3>1. UNCHANGED <<rows, realIdxs, cfIdxs, groups, info>> /\ stage = "shape" /\ stage' = "done"
      BY <2>4 DEF Return
    <3> QED
      BY <3>1, OrderKept
  <2>5. CASE UNCHANGED rewardVars
    BY <2>5, OrderKept DEF rewardVars
  <2> QED
    BY <2>1, <2>2, <2>3, <2>4, <2>5 DEF RewardNext
<1>3. RewardInv /\ OrderInv => EntriesInRowOrder
  <2> SUFFICES ASSUME RewardInv, OrderInv, stage = "done", Adjacent
               PROVE  info = [i \in Indices |-> Entry(i)]
    BY DEF EntriesInRowOrder
  <2>1. /\ info = [i \in 1 .. Len(info) |-> Entry(i)] /\ Len(info) <= Len(rows)
        /\ \A i \in Indices : Waiting(i) <=> i > Len(info)
    BY DEF OrderInv, FrontShaped
  <2>2. \A i \in Indices : ~Waiting(i)
    BY DEF RewardInv, Batch, Waiting
  <2>3. Len(rows) \in Nat /\ Len(info) \in Nat /\ Indices = 1 .. Len(rows)
    BY InfoLength DEF RewardInv, Batch, Indices
  <2>4. Len(info) = Len(rows)
    <3>1. CASE Len(rows) = 0
      BY <2>1, <2>3, <3>1
    <3>2. CASE Len(rows) # 0
      <4>1. Len(rows) \in Indices
        BY <2>3, <3>2
      <4> QED
        BY <2>1, <2>2, <2>3, <4>1
    <3> QED
      BY <3>1, <3>2
  <2> QED
    BY <2>1, <2>3, <2>4
<1> QED
  BY RewardInvariance, <1>1, <1>2, <1>3, PTL DEF RewardSpec

-----------------------------------------------------------------------------
(* The swap map                                                            *)

USE NAssumption, BoundsAssumption, DatasetsAssumption

\* Exchanging two entries of a permutation gives a permutation
\* (perm[i], perm[j] = perm[j], perm[i] in _build_swap_map).
LEMMA ExchangeIsPermutation ==
    ASSUME NEW p \in RowPermutations, NEW i \in Row, NEW j \in Row
    PROVE  Exchanged(p, i, j) \in RowPermutations
<1>1. p \in [Row -> Row] /\ \A a, b \in Row : p[a] = p[b] => a = b
  BY DEF RowPermutations
<1>2. Exchanged(p, i, j) \in [Row -> Row]
  BY <1>1 DEF Exchanged
<1>3. ASSUME NEW a \in Row, NEW b \in Row, Exchanged(p, i, j)[a] = Exchanged(p, i, j)[b]
      PROVE  a = b
  BY <1>1, <1>3 DEF Exchanged
<1> QED
  BY <1>2, <1>3 DEF RowPermutations

\* An accepted exchange leaves both rows allowed and every other row as it
\* was: the violators afterwards are those before, without row i.
LEMMA ExchangeOnlyRepairs ==
    ASSUME NEW p \in [Row -> Row], NEW i \in Row, NEW j \in Row,
           Bad(p, i), Acceptable(p, i, j)
    PROVE  /\ Violators(Exchanged(p, i, j)) \subseteq Violators(p)
           /\ i \notin Violators(Exchanged(p, i, j))
           /\ i \in Violators(p)
<1> DEFINE q == Exchanged(p, i, j)
<1>1. j # i /\ Allowed(i, p[j]) /\ Allowed(j, p[i])
  BY DEF Acceptable
<1>2. q[i] = p[j] /\ q[j] = p[i]
  BY <1>1 DEF Exchanged
<1>3. \A k \in Row \ {i, j} : q[k] = p[k]
  BY DEF Exchanged
<1>4. ~Bad(q, i) /\ ~Bad(q, j)
  BY <1>1, <1>2 DEF Bad
<1>5. \A k \in Row \ {i, j} : Bad(q, k) <=> Bad(p, k)
  BY <1>3 DEF Bad
<1> QED
  BY <1>4, <1>5 DEF Violators

\* The redirect leaves no row over the budget: a row that does not fit the
\* image it borrowed fits its own.
LEMMA RedirectFits ==
    ASSUME NEW p \in [Row -> Row], data \in Datasets, NEW i \in Row
    PROVE  data.txt[i] + data.img[Redirected(p)[i]] <= Budget
<1>1. /\ data.txt \in [Row -> Nat] /\ data.img \in [Row -> Nat]
      /\ \A k \in Row : data.txt[k] + data.img[k] <= Budget
  BY DEF KeptRow
<1>2. CASE ~Fits(i, p[i])
  BY <1>1, <1>2 DEF Redirected
<1>3. CASE Fits(i, p[i]) /\ BudgetActive
  BY <1>1, <1>3 DEF Redirected, Fits
<1>4. CASE Fits(i, p[i]) /\ ~BudgetActive
  <2>1. Redirected(p)[i] = p[i] /\ p[i] \in Row
    BY <1>4 DEF Redirected
  <2>2. data.txt[i] = 0 \/ data.img[p[i]] = 0
    BY <1>4, <2>1 DEF BudgetActive
  <2>3. data.txt[i] + data.img[i] <= Budget /\ data.txt[p[i]] + data.img[p[i]] <= Budget
    BY <1>1, <2>1
  <2>4. /\ data.txt[i] \in Nat /\ data.img[i] \in Nat
        /\ data.txt[p[i]] \in Nat /\ data.img[p[i]] \in Nat
    BY <1>1, <2>1
  <2> QED
    BY <2>1, <2>2, <2>3, <2>4
<1> QED
  BY <1>2, <1>3, <1>4

\* What the map in service owes to the permutation it was built from.
Served ==
    /\ swapPc = "ready" /\ Shuffled =>
          /\ swapMap = Redirected(perm)
          /\ ~warned => Violators(perm) = {}
    /\ swapPc = "redirect" => warned = (Violators(perm) # {})

IInv == SwapTypeOK /\ PermutationUnderRepair /\ Served

LEMMA InitInv == SwapInit => IInv
<1> SUFFICES ASSUME SwapInit PROVE IInv
  OBVIOUS
<1>1. Identity \in RowPermutations
  BY DEF Identity, RowPermutations
<1>2. SwapTypeOK
  <2>1. Identity \in [Row -> Row]
    BY DEF Identity
  <2>2. 0 \in 0 .. MaxEpoch /\ 0 \in 0 .. MaxPasses
    OBVIOUS
  <2> QED
    BY <2>1, <2>2 DEF SwapInit, SwapTypeOK
<1> QED
  BY <1>1, <1>2 DEF SwapInit, IInv, PermutationUnderRepair, Served

LEMMA NextInv == IInv /\ [SwapNext]_swapVars => IInv'
<1> SUFFICES ASSUME IInv, [SwapNext]_swapVars PROVE IInv'
  OBVIOUS
<1> USE DEF IInv, PermutationUnderRepair
<1>p. perm \in [Row -> Row]
  BY DEF SwapTypeOK
<1>0. Violators(perm) \subseteq Row
  BY DEF Violators
<1>1. CASE BuildFixedOffset
  <2>1. [i \in Row |-> (i + swapOffset) % N] \in [Row -> Row]
    BY DEF SwapTypeOK, Row
  <2>2. SwapTypeOK'
    BY <1>1, <2>1 DEF BuildFixedOffset, SwapTypeOK
  <2>3. swapOffset' # 0
    BY <1>1 DEF BuildFixedOffset, SwapTypeOK
  <2> QED
    BY <1>1, <2>2, <2>3 DEF BuildFixedOffset, Served, Shuffled
<1>2. CASE BuildHalfOffset
  <2>1. [i \in Row |-> (i + N \div 2) % N] \in [Row -> Row]
    BY DEF Row
  <2>2. SwapTypeOK'
    BY <1>2, <2>1 DEF BuildHalfOffset, SwapTypeOK
  <2>3. ~Shuffled' /\ swapPc' = "ready" /\ perm' = perm
    BY <1>2 DEF BuildHalfOffset, Shuffled
  <2>4. Served'
    BY <2>3 DEF Served
  <2>5. PermutationUnderRepair'
    BY <2>3
  <2> QED
    BY <2>2, <2>4, <2>5
<1>3. CASE BuildShuffled
  <2>1. perm' \in [Row -> Row]
    BY <1>3 DEF BuildShuffled, RowPermutations
  <2>2. SwapTypeOK'
    <3>1. 0 \in 0 .. MaxPasses
      OBVIOUS
    <3> QED
      BY <1>3, <2>1, <3>1 DEF BuildShuffled, SwapTypeOK
  <2> QED
    BY <1>3, <2>2 DEF BuildShuffled, Served
<1>4. CASE BeginPass
  <2>1. SwapTypeOK'
    <3>1. passes' \in 0 .. MaxPasses
      BY <1>4 DEF BeginPass, SwapTypeOK
    <3> QED
      BY <1>4, <1>0, <3>1 DEF BeginPass, SwapTypeOK
  <2> QED
    BY <1>4, <2>1 DEF BeginPass, Served
<1>5. CASE EndRepair
  <2>1. SwapTypeOK'
    BY <1>5 DEF EndRepair, SwapTypeOK
  <2>2. Violators(perm)' = Violators(perm)
    BY <1>5 DEF EndRepair, Violators, Bad, Allowed, Fits, BudgetActive
  <2> QED
    BY <1>5, <2>1, <2>2 DEF EndRepair, Served
<1>6. CASE \E i \in Row : VisitRepaired(i)
  <2>1. SwapTypeOK'
    BY <1>6 DEF VisitRepaired, SwapTypeOK
  <2> QED
    BY <1>6, <2>1 DEF VisitRepaired, Served
<1>7. CASE \E i, j \in Row : VisitExchange(i, j)
  <2>1. PICK i \in Row, j \in Row : VisitExchange(i, j)
    BY <1>7
  <2>2. perm' \in RowPermutations
    BY <2>1, ExchangeIsPermutation DEF VisitExchange
  <2>3. SwapTypeOK'
    BY <2>1, <2>2 DEF VisitExchange, SwapTypeOK, RowPermutations
  <2> QED
    BY <2>1, <2>2, <2>3 DEF VisitExchange, Served
<1>8. CASE \E i \in Row : VisitNoPartner(i)
  <2>1. SwapTypeOK'
    BY <1>8 DEF VisitNoPartner, SwapTypeOK
  <2> QED
    BY <1>8, <2>1 DEF VisitNoPartner, Served
<1>9. CASE EndPass
  <2>1. SwapTypeOK'
    BY <1>9 DEF EndPass, SwapTypeOK
  <2> QED
    BY <1>9, <2>1 DEF EndPass, Served
<1>10. CASE Redirect
  <2>1. Redirected(perm) \in [Row -> Row]
    BY <1>p DEF Redirected
  <2>2. SwapTypeOK'
    BY <1>10, <2>1 DEF Redirect, SwapTypeOK
  <2>3. Violators(perm)' = Violators(perm) /\ Redirected(perm)' = Redirected(perm)
    BY <1>10 DEF Redirect, Violators, Bad, Allowed, Redirected, Fits, BudgetActive
  <2> QED
    BY <1>10, <2>2, <2>3 DEF Redirect, Served
<1>11. CASE SetEpoch
  <2>1. SwapTypeOK'
    <3>1. swapEpoch' \in 0 .. MaxEpoch
      BY <1>11 DEF SetEpoch, SwapTypeOK
    <3> QED
      BY <1>11, <3>1 DEF SetEpoch, SwapTypeOK
  <2>2. Shuffled' = Shuffled
    BY <1>11 DEF SetEpoch, Shuffled
  <2> QED
    BY <1>11, <2>1, <2>2 DEF SetEpoch, Served, Shuffled
<1>12. CASE UNCHANGED swapVars
  <2>1. SwapTypeOK'
    BY <1>12 DEF swapVars, SwapTypeOK
  <2>2. Violators(perm)' = Violators(perm) /\ Redirected(perm)' = Redirected(perm)
    BY <1>12 DEF swapVars, Violators, Bad, Allowed, Redirected, Fits, BudgetActive
  <2> QED
    BY <1>12, <2>1, <2>2 DEF swapVars, Served, Shuffled
<1> QED
  BY <1>1, <1>2, <1>3, <1>4, <1>5, <1>6, <1>7, <1>8, <1>9, <1>10, <1>11, <1>12 DEF SwapNext

\* The inductive invariant holds throughout.
THEOREM Invariance == SwapSpec => []IInv
  BY InitInv, NextInv, PTL DEF SwapSpec

\* Every variable keeps its type.
THEOREM TypeCorrect == SwapSpec => []SwapTypeOK
<1>1. IInv => SwapTypeOK
  BY DEF IInv
<1> QED
  BY Invariance, <1>1, PTL

\* The repair exchanges entries and never drops or duplicates one.
THEOREM RepairKeepsPermutation == SwapSpec => []PermutationUnderRepair
<1>1. IInv => PermutationUnderRepair
  BY DEF IInv
<1> QED
  BY Invariance, <1>1, PTL

\* However few rows the passes managed to repair, an item of a shuffled dataset
\* is over max_prompt_length by no more than the suffix of append_no_think.
THEOREM OverflowIsSuffix == SwapSpec => []OverflowOnlyBySuffix
<1>1. IInv => OverflowOnlyBySuffix
  <2> SUFFICES ASSUME IInv, swapPc = "ready", Shuffled, NEW k \in Item
               PROVE  ItemTokens(k) <= Budget + NoThinkTokens
    BY DEF OverflowOnlyBySuffix
  <2>1. k \div 2 \in Row
    BY DEF Item, Row
  <2>2. data \in Datasets /\ perm \in [Row -> Row] /\ swapMap = Redirected(perm)
    BY DEF IInv, SwapTypeOK, Served
  <2>3. data.txt \in [Row -> Nat] /\ data.img \in [Row -> Nat]
    BY <2>2
  <2>4. CASE k % 2 = 1
    <3>1. data.txt[k \div 2] + data.img[swapMap[k \div 2]] <= Budget
      BY <2>1, <2>2, RedirectFits
    <3>2. swapMap[k \div 2] \in Row
      BY <2>1 DEF IInv, SwapTypeOK
    <3> QED
      BY <2>1, <2>3, <2>4, <3>1, <3>2 DEF ItemTokens, ItemImage
  <2>5. CASE k % 2 # 1
    <3>1. data.txt[k \div 2] + data.img[k \div 2] <= Budget
      BY <2>1, <2>2 DEF KeptRow
    <3> QED
      BY <2>1, <2>3, <2>5, <3>1 DEF ItemTokens, ItemImage
  <2> QED
    BY <2>4, <2>5
<1> QED
  BY Invariance, <1>1, PTL

\* A shuffled build that logged no residual violation serves a permutation
\* that keeps all three constraints.
THEOREM SilenceMeansClean == SwapSpec => []SilentBuildIsClean
<1>1. IInv => SilentBuildIsClean
  <2> SUFFICES ASSUME IInv, swapPc = "ready", Shuffled, ~warned
               PROVE  swapMap \in RowPermutations /\ \A i \in Row : Allowed(i, swapMap[i])
    BY DEF SilentBuildIsClean
  <2>1. perm \in RowPermutations /\ perm \in [Row -> Row] /\ swapMap = Redirected(perm)
    BY DEF IInv, PermutationUnderRepair, Served, SwapTypeOK
  <2>2. \A i \in Row : Allowed(i, perm[i])
    BY DEF IInv, Served, Violators, Bad
  <2>3. \A i \in Row : Fits(i, perm[i])
    BY <2>2 DEF Allowed
  <2>4. swapMap = perm
    BY <2>1, <2>3 DEF Redirected
  <2> QED
    BY <2>1, <2>2, <2>4
<1> QED
  BY Invariance, <1>1, PTL

\* No visit turns a row that was fine into a violator, and every exchange
\* leaves strictly fewer violators.
THEOREM RepairIsMonotone == SwapSpec => RepairNeverBreaks
<1> DEFINE Shrinks == /\ Violators(perm') \subseteq Violators(perm)
                      /\ perm' # perm => Violators(perm') # Violators(perm)
<1>1. IInv /\ [SwapNext]_swapVars => [swapPc = "visit" => Shrinks]_swapVars
  <2> SUFFICES ASSUME IInv, SwapNext, swapPc = "visit" PROVE Shrinks
    OBVIOUS
  <2>1. perm \in [Row -> Row]
    BY DEF IInv, SwapTypeOK
  <2>2. CASE \E i, j \in Row : VisitExchange(i, j)
    <3>1. PICK i \in Row, j \in Row : VisitExchange(i, j)
      BY <2>2
    <3>2. perm' = Exchanged(perm, i, j) /\ Bad(perm, i) /\ Acceptable(perm, i, j)
      BY <3>1 DEF VisitExchange
    <3> QED
      BY <2>1, <3>2, ExchangeOnlyRepairs
  <2>3. CASE UNCHANGED perm
    BY <2>3
  <2>4. UNCHANGED perm \/ \E i, j \in Row : VisitExchange(i, j)
    BY DEF SwapNext, BuildFixedOffset, BuildHalfOffset, BuildShuffled, BeginPass, EndRepair,
           VisitRepaired, VisitNoPartner, EndPass, Redirect, SetEpoch
  <2> QED
    BY <2>2, <2>3, <2>4
<1> QED
  BY Invariance, <1>1, PTL DEF SwapSpec, RepairNeverBreaks
=============================================================================
