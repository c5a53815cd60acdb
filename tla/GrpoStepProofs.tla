--------------------------- MODULE GrpoStepProofs ---------------------------
(***************************************************************************)
(* Proofs about GrpoStep: all its invariants, for any dataset, batch size, *)
(* number of rollouts and of workers that divides the rows, any scores and *)
(* any order that balancing may put the rows in.                           *)
(*                                                                         *)
(* The inductive invariant (Inv) follows a row through the step.  A loaded *)
(* batch has different items and different uids (Loaded), row i of the     *)
(* generation batch is row Source(i) of it (GenRowsOK), what worker w has  *)
(* answered at j belongs to row (w - 1) * ChunkSize + j (Answered), so     *)
(* that gathering chunk by chunk puts each response beside the prompt it   *)
(* answers, and from then on a batch has whole rows, each item RolloutN    *)
(* times (Aligned).  For the epoch it says that the sampler's rest, the    *)
(* batch in hand and what is trained share no item (Sampling), and how     *)
(* many batches there were (Progress).                                     *)
(*                                                                         *)
(* The lemmas before it are about the operators the model is built from: a *)
(* sum over a set (SumOver), rows in groups (Grouped), how often a value   *)
(* comes in a sequence (Times), the columns of a DataProto (Selected).     *)
(***************************************************************************)
EXTENDS GrpoStep, FiniteSetTheorems, SequenceTheorems, WellFoundedInduction, TLAPS

Remax == config.estimator = "remax"

\* Rows of a generation batch, of a worker's chunk of it, and of a batch with
\* its responses.
GenSize == BatchSize * (IF Remax THEN RolloutN + 1 ELSE RolloutN)
ChunkSize == GenSize \div Workers
Rows == 1 .. BatchSize * RolloutN

\* The row of the loaded batch that row i is made of, after the repetition and
\* in the generation batch.
Origin(i) == ((i - 1) \div RolloutN) + 1
Source(i) == IF i \in Rows THEN Origin(i) ELSE i - BatchSize * RolloutN

Columns ==
    {"item", "uid", "out"} \cup (IF Remax THEN {"baseline"} ELSE {})
        \cup (IF stepPc = "update" THEN {"advantages"} ELSE {})

InHand == stepPc \in {"balance", "advantage", "update"}
Times(s, x) == Cardinality({i \in 1 .. Len(s) : s[i] = x})

Configured ==
    /\ config \in [shuffle : Shuffles, estimator : Estimators, balance : Balances]
    /\ stepPc \in {"load", "generate", "balance", "advantage", "update"}
    /\ lastUid \in Nat /\ DOMAIN answers = 1 .. Workers

\* A batch as loaded: different items, different uids.
Loaded ==
    /\ batch = [item |-> batch["item"], uid |-> batch["uid"]]
    /\ batch["item"] \in Seq(Items) /\ Len(batch["item"]) = BatchSize /\ IsInjective(batch["item"])
    /\ batch["uid"] \in Seq(Nat) /\ Len(batch["uid"]) = BatchSize /\ IsInjective(batch["uid"])
    /\ gen = GenBatch(batch)

\* What the workers have answered belongs to the row it was asked for.
Answered ==
    \A w \in 1 .. Workers :
        /\ stepPc = "generate" => DOMAIN answers[w] \subseteq 1 .. ChunkSize
        /\ \A j \in DOMAIN answers[w] : answers[w][j] \in Response
        /\ stepPc = "generate" =>
              \A j \in DOMAIN answers[w] :
                 /\ answers[w][j].item = gen["item"][(w - 1) * ChunkSize + j]
                 /\ answers[w][j].greedy = gen["greedy"][(w - 1) * ChunkSize + j]

\* A batch with its responses, in any order of the rows.
Aligned ==
    /\ DOMAIN batch = Columns /\ batch = [c \in Columns |-> batch[c]]
    /\ \A c \in Columns : batch[c] = [i \in Rows |-> batch[c][i]]
    /\ batch["item"] \in Seq(Items)
    /\ \A i \in Rows :
          /\ batch["out"][i] \in Response /\ batch["out"][i].item = batch["item"][i] /\ ~batch["out"][i].greedy
          /\ Remax => /\ batch["baseline"][i] \in Response
                      /\ batch["baseline"][i].item = batch["item"][i] /\ batch["baseline"][i].greedy
    /\ \A i, j \in Rows : batch["uid"][i] = batch["uid"][j] <=> batch["item"][i] = batch["item"][j]
    /\ \A i \in Rows : Times(batch["item"], batch["item"][i]) = RolloutN
    /\ stepPc = "update" => \A i \in Rows : batch["advantages"][i] = Advantage(i)

\* What the sampler still has, what is in hand and what is trained share no
\* item.
Sampling ==
    /\ order \in Seq(Items) /\ IsInjective(order)
    /\ trained \in Seq(Items)
    /\ \A x \in Items : Times(trained, x) \in {0, RolloutN}
    /\ \A x \in ToSet(order) : x \notin ToSet(trained)
    /\ stepPc # "load" => \A x \in ToSet(batch["item"]) : x \notin ToSet(order) /\ x \notin ToSet(trained)

\* How far the epoch is.
Progress ==
    /\ stepEpoch \in 0 .. FitEpochs
    /\ stepEpoch = 0 => order = <<>> /\ trained = <<>> /\ stepPc = "load"
    /\ stepEpoch > 0 =>
          \E q \in 0 .. 2 * Prompts : /\ Len(order) + BatchSize * q = 2 * Prompts
                         /\ Len(trained) = RolloutN * BatchSize * (IF stepPc = "load" THEN q ELSE q - 1)

Inv ==
    /\ Configured /\ Answered /\ Sampling /\ Progress
    /\ stepPc = "load" => batch = <<>> /\ gen = <<>>
    /\ stepPc = "generate" => Loaded
    /\ InHand => Aligned /\ \A c \in DOMAIN gen : Len(gen[c]) = Size(gen)
-----------------------------------------------------------------------------
(* Induction                                                               *)

\* A set of numbers has a least one.
LEMMA LeastNumber ==
    ASSUME NEW T, T \subseteq Nat, T # {}
    PROVE  \E x \in T : \A y \in T : x <= y
<1>1. PICK x \in T : \A y \in T : <<y, x>> \notin OpToRel(<, Nat)
  BY WFMin, NatLessThanWellFounded
<1>2. \A y \in T : ~(y < x)
  BY <1>1 DEF OpToRel
<1> QED
  BY <1>2

\* Induction, for a set of numbers.
LEMMA Climbs ==
    ASSUME NEW n \in Nat \ {0}, NEW Good, 1 \in Good, \A m \in 1 .. n - 1 : m \in Good => m + 1 \in Good
    PROVE  n \in Good
<1> DEFINE Bad == {m \in 1 .. n : m \notin Good}
<1>1. Bad \subseteq Nat /\ n \in 1 .. n
  OBVIOUS
<1>2. Bad = {}
  <2> SUFFICES ASSUME Bad # {} PROVE FALSE
    OBVIOUS
  <2>1. PICK m \in Bad : \A j \in Bad : m <= j
    <3> HIDE DEF Bad
    <3> QED
      BY <1>1, LeastNumber
  <2>2. m \in 1 .. n /\ m \notin Good /\ m # 1
    BY <2>1
  <2>3. m - 1 \in 1 .. n - 1 /\ m - 1 \in 1 .. n /\ ~(m <= m - 1) /\ (m - 1) + 1 = m
    BY <2>2
  <2>4. m - 1 \in Good
    BY <2>1, <2>3
  <2> QED
    BY <2>2, <2>3, <2>4
<1>3. n \notin Bad
  BY <1>2
<1> QED
  BY <1>1, <1>3

\* Induction, for a set of finite sets.
LEMMA SetClimbs ==
    ASSUME NEW S, IsFiniteSet(S), NEW Good, \A T \in SUBSET S : (\A x \in T : T \ {x} \in Good) => T \in Good
    PROVE  \A T \in SUBSET S : T \in Good
<1> SUFFICES ASSUME NEW T \in SUBSET S PROVE T \in Good
  OBVIOUS
<1> DEFINE Sizes == {n \in Nat : \A U \in SUBSET S : Cardinality(U) = n - 1 => U \in Good}
<1>1. \A U \in SUBSET S : /\ IsFiniteSet(U) /\ Cardinality(U) \in Nat /\ (Cardinality(U) = 0 <=> U = {})
                          /\ \A x \in U : Cardinality(U \ {x}) = Cardinality(U) - 1
  BY FS_Subset, FS_CardinalityType, FS_EmptySet, FS_RemoveElement
<1>2. 1 \in Sizes
  <2>1. ASSUME NEW U \in SUBSET S, Cardinality(U) = 0 PROVE U \in Good
    BY <1>1, <2>1
  <2> QED
    BY <2>1
<1>3. ASSUME NEW m \in Nat \ {0}, m \in Sizes PROVE m + 1 \in Sizes
  <2>1. ASSUME NEW U \in SUBSET S, Cardinality(U) = m PROVE U \in Good
    <3>1. ASSUME NEW x \in U PROVE U \ {x} \in Good
      <4>1. U \ {x} \in SUBSET S /\ Cardinality(U \ {x}) = m - 1
        BY <1>1, <2>1
      <4> QED
        BY <1>3, <4>1
    <3> QED
      BY <3>1
  <2>2. m + 1 \in Nat /\ (m + 1) - 1 = m
    OBVIOUS
  <2> QED
    BY <2>1, <2>2
<1>4. PICK n \in Nat \ {0} : n = Cardinality(T) + 1
  BY <1>1
<1>5. n \in Sizes
  <2> HIDE DEF Sizes
  <2>1. \A m \in 1 .. n - 1 : m \in Nat \ {0}
    OBVIOUS
  <2> QED
    BY <1>2, <1>3, <2>1, Climbs
<1>6. Cardinality(T) = n - 1
  BY <1>1, <1>4
<1> QED
  BY <1>5, <1>6

-----------------------------------------------------------------------------
(* Sums over a set                                                         *)

Pick(s) == CHOOSE x \in s : TRUE

\* What SumOver computes from the subsets of S up, here as far as n elements.
SumsTo(v, S, n, f) ==
    /\ f = [s \in SUBSET S |-> f[s]]
    /\ \A s \in SUBSET S :
          Cardinality(s) <= n => f[s] = IF s = {} THEN 0 ELSE v[Pick(s)] + f[s \ {Pick(s)}]
Sums(v, S, f) == f = [s \in SUBSET S |-> IF s = {} THEN 0 ELSE v[Pick(s)] + f[s \ {Pick(s)}]]

LEMMA SumFolds ==
    ASSUME NEW v, NEW S
    PROVE  SumOver(v, S) = (CHOOSE f : Sums(v, S, f))[S]
  BY Zenon DEF SumOver, MapThenSumSet, MapThenFoldSet, Pick, Sums

LEMMA SumsExist ==
    ASSUME NEW v, NEW S, IsFiniteSet(S)
    PROVE  \E f : Sums(v, S, f)
<1> DEFINE Good == {n \in Nat : \E f : SumsTo(v, S, n - 1, f)}
<1>1. \A s \in SUBSET S : /\ Cardinality(s) \in Nat /\ (Cardinality(s) = 0 <=> s = {})
                          /\ \A x \in s : Cardinality(s \ {x}) = Cardinality(s) - 1
  BY FS_Subset, FS_CardinalityType, FS_EmptySet, FS_RemoveElement
<1>2. 1 \in Good
  <2> DEFINE g == [s \in SUBSET S |-> 0]
  <2>1. \A s \in SUBSET S : Cardinality(s) <= 0 => s = {}
    BY <1>1
  <2>2. SumsTo(v, S, 0, g)
    BY <2>1 DEF SumsTo
  <2> QED
    BY <2>2
<1>3. ASSUME NEW m \in Nat \ {0}, m \in Good PROVE m + 1 \in Good
  <2>1. PICK f : SumsTo(v, S, m - 1, f)
    BY <1>3
  <2> DEFINE g == [s \in SUBSET S |-> IF Cardinality(s) = m THEN v[Pick(s)] + f[s \ {Pick(s)}] ELSE f[s]]
  <2>2. ASSUME NEW s \in SUBSET S, Cardinality(s) <= m
        PROVE  g[s] = IF s = {} THEN 0 ELSE v[Pick(s)] + g[s \ {Pick(s)}]
    <3>1. s # {} => /\ s \ {Pick(s)} \in SUBSET S /\ Cardinality(s \ {Pick(s)}) = Cardinality(s) - 1
                    /\ Cardinality(s) \in Nat \ {0}
      BY <1>1 DEF Pick
    <3>2. s # {} => g[s \ {Pick(s)}] = f[s \ {Pick(s)}]
      BY <2>2, <3>1
    <3>3. CASE Cardinality(s) = m
      <4>1. s # {}
        BY <1>1, <3>3
      <4> QED
        BY <3>2, <3>3, <4>1
    <3>4. CASE Cardinality(s) # m
      <4>1. Cardinality(s) <= m - 1
        BY <1>1, <2>2, <3>4
      <4>2. f[s] = IF s = {} THEN 0 ELSE v[Pick(s)] + f[s \ {Pick(s)}]
        BY <2>1, <4>1 DEF SumsTo
      <4> QED
        BY <3>2, <3>4, <4>2
    <3> QED
      BY <3>3, <3>4
  <2>3. SumsTo(v, S, m, g)
    BY <2>2 DEF SumsTo
  <2>4. m + 1 \in Nat /\ (m + 1) - 1 = m
    OBVIOUS
  <2> QED
    BY <2>3, <2>4
<1>4. PICK n \in Nat \ {0} : n = Cardinality(S) + 1
  BY <1>1
<1>5. n \in Good
  <2> HIDE DEF Good
  <2>1. \A m \in 1 .. n - 1 : m \in Nat \ {0}
    OBVIOUS
  <2> QED
    BY <1>2, <1>3, <2>1, Climbs
<1>6. Cardinality(S) = n - 1
  BY <1>1, <1>4
<1>7. PICK f : SumsTo(v, S, Cardinality(S), f)
  BY <1>5, <1>6
<1>8. \A s \in SUBSET S : Cardinality(s) <= Cardinality(S)
  BY FS_Subset
<1>9. f = [s \in SUBSET S |-> IF s = {} THEN 0 ELSE v[Pick(s)] + f[s \ {Pick(s)}]]
  BY <1>7, <1>8 DEF SumsTo
<1> QED
  BY <1>9 DEF Sums

LEMMA SumsAgree ==
    ASSUME NEW v, NEW S, IsFiniteSet(S), NEW T \in SUBSET S, NEW f, Sums(v, S, f), NEW g, Sums(v, T, g)
    PROVE  f[T] = g[T]
<1> DEFINE Good == {s \in SUBSET T : f[s] = g[s]}
<1>1. IsFiniteSet(T)
  BY FS_Subset
<1>2. ASSUME NEW s \in SUBSET T, \A x \in s : s \ {x} \in Good PROVE s \in Good
  <2>1. f[s] = IF s = {} THEN 0 ELSE v[Pick(s)] + f[s \ {Pick(s)}]
    BY DEF Sums
  <2>2. g[s] = IF s = {} THEN 0 ELSE v[Pick(s)] + g[s \ {Pick(s)}]
    BY DEF Sums
  <2>3. s # {} => f[s \ {Pick(s)}] = g[s \ {Pick(s)}]
    BY <1>2 DEF Pick
  <2> QED
    BY <2>1, <2>2, <2>3
<1>3. T \in Good
  <2> HIDE DEF Good
  <2> QED
    BY <1>1, <1>2, SetClimbs
<1> QED
  BY <1>3

LEMMA SumIsFold ==
    ASSUME NEW v, NEW S, IsFiniteSet(S)
    PROVE  \E f : Sums(v, S, f) /\ SumOver(v, S) = f[S]
<1> DEFINE F == CHOOSE f : Sums(v, S, f)
<1>1. Sums(v, S, F)
  BY SumsExist
<1> QED
  BY <1>1, SumFolds

LEMMA SumPick ==
    ASSUME NEW v, NEW S, IsFiniteSet(S)
    PROVE  SumOver(v, S) = IF S = {} THEN 0 ELSE v[Pick(S)] + SumOver(v, S \ {Pick(S)})
<1>1. PICK f : Sums(v, S, f) /\ SumOver(v, S) = f[S]
  BY SumIsFold
<1>2. f[S] = IF S = {} THEN 0 ELSE v[Pick(S)] + f[S \ {Pick(S)}]
  BY <1>1 DEF Sums
<1>3. CASE S # {}
  <2> DEFINE T == S \ {Pick(S)}
  <2>1. IsFiniteSet(T) /\ T \in SUBSET S
    BY FS_Subset
  <2> HIDE DEF T
  <2>2. PICK g : Sums(v, T, g) /\ SumOver(v, T) = g[T]
    BY <2>1, SumIsFold
  <2>3. f[T] = g[T]
    BY <1>1, <2>1, <2>2, SumsAgree
  <2> QED
    BY <1>1, <1>2, <1>3, <2>2, <2>3 DEF T
<1> QED
  BY <1>1, <1>2, <1>3

LEMMA SumType ==
    ASSUME NEW S, IsFiniteSet(S), NEW v, \A x \in S : v[x] \in Int
    PROVE  SumOver(v, S) \in Int
<1> DEFINE Good == {T \in SUBSET S : SumOver(v, T) \in Int}
<1>1. ASSUME NEW T \in SUBSET S, \A x \in T : T \ {x} \in Good PROVE T \in Good
  <2>1. SumOver(v, T) = IF T = {} THEN 0 ELSE v[Pick(T)] + SumOver(v, T \ {Pick(T)})
    BY SumPick, FS_Subset
  <2>2. T # {} => v[Pick(T)] \in Int /\ SumOver(v, T \ {Pick(T)}) \in Int
    BY <1>1 DEF Pick
  <2> QED
    BY <2>1, <2>2
<1>2. S \in Good
  <2> HIDE DEF Good
  <2>1. \A T \in SUBSET S : T \in Good
    BY <1>1, SetClimbs
  <2> QED
    BY <2>1
<1> QED
  BY <1>2

\* The sum of the distances to a constant.
LEMMA SumOfDistances ==
    ASSUME NEW S, IsFiniteSet(S), NEW v, \A x \in S : v[x] \in Int, NEW n \in Int, NEW c \in Int,
           NEW d, \A x \in S : d[x] = n * v[x] - c
    PROVE  SumOver(d, S) = n * SumOver(v, S) - Cardinality(S) * c
<1> DEFINE Good == {T \in SUBSET S : SumOver(d, T) = n * SumOver(v, T) - Cardinality(T) * c}
<1>1. ASSUME NEW T \in SUBSET S, \A x \in T : T \ {x} \in Good PROVE T \in Good
  <2>1. IsFiniteSet(T) /\ Cardinality(T) \in Nat /\ (T = {} => Cardinality(T) = 0)
    BY FS_Subset, FS_CardinalityType, FS_EmptySet
  <2>2. CASE T = {}
    <3>1. SumOver(d, T) = 0 /\ SumOver(v, T) = 0 /\ Cardinality(T) = 0
      BY <2>1, <2>2, SumPick
    <3>2. 0 = n * 0 - 0 * c
      OBVIOUS
    <3> QED
      BY <3>1, <3>2
  <2>3. CASE T # {}
    <3>1. PICK x \in T : x = Pick(T)
      BY <2>3 DEF Pick
    <3> DEFINE U == T \ {x}
    <3>2. SumOver(d, T) = d[x] + SumOver(d, U) /\ SumOver(v, T) = v[x] + SumOver(v, U)
      BY <2>1, <2>3, <3>1, SumPick
    <3>3. IsFiniteSet(U) /\ U \in SUBSET S /\ Cardinality(U) = Cardinality(T) - 1
      BY <2>1, FS_Subset, FS_RemoveElement
    <3>4. SumOver(d, U) = n * SumOver(v, U) - Cardinality(U) * c
      BY <1>1
    <3>5. SumOver(v, U) \in Int
      BY <3>3, SumType
    <3> HIDE DEF U
    <3>6. PICK a \in Int, b \in Int, m \in Int : a = v[x] /\ b = SumOver(v, U) /\ m = Cardinality(T)
      BY <2>1, <3>5
    <3>7. d[x] = n * a - c
      BY <3>6
    <3>8. (n * a - c) + (n * b - (m - 1) * c) = n * (a + b) - m * c
      OBVIOUS
    <3>9. SumOver(d, T) = n * SumOver(v, T) - Cardinality(T) * c
      BY <3>2, <3>3, <3>4, <3>6, <3>7, <3>8
    <3> QED
      BY <3>9
  <2> QED
    BY <2>2, <2>3
<1>2. S \in Good
  <2> HIDE DEF Good
  <2>1. \A T \in SUBSET S : T \in Good
    BY <1>1, SetClimbs
  <2> QED
    BY <2>1
<1> QED
  BY <1>2

-----------------------------------------------------------------------------
(* Rows in groups of m                                                     *)

GroupAt(i, m) == ((i - 1) \div m) + 1
PlaceIn(i, m) == ((i - 1) % m) + 1
Grouped(q, m) ==
    /\ \A i \in 1 .. q * m :
          GroupAt(i, m) \in 1 .. q /\ PlaceIn(i, m) \in 1 .. m /\ (GroupAt(i, m) - 1) * m + PlaceIn(i, m) = i
    /\ \A w \in 1 .. q : \A j \in 1 .. m :
          (w - 1) * m + j \in 1 .. q * m /\ GroupAt((w - 1) * m + j, m) = w /\ PlaceIn((w - 1) * m + j, m) = j

\* Rows are numbered group by group.
LEMMA InGroups ==
    ASSUME NEW q \in Nat, NEW m \in Nat \ {0}
    PROVE  Grouped(q, m)
<1>1. \A c, d \in Nat : c < d => c * m + m <= d * m
  <2> SUFFICES ASSUME NEW c \in Nat, NEW d \in Nat, c < d PROVE c * m + m <= d * m
    OBVIOUS
  <2>1. PICK e \in Nat : d = c + 1 + e
    <3>1. d - c - 1 \in Nat /\ d = c + 1 + (d - c - 1)
      OBVIOUS
    <3> QED
      BY <3>1
  <2>2. d * m = c * m + m + e * m /\ e * m \in Nat /\ c * m \in Nat
    BY <2>1
  <2> QED
    BY <2>2
<1>2. \A c \in Nat : \A f \in 0 .. m - 1 : (c * m + f) \div m = c /\ (c * m + f) % m = f
  <2> SUFFICES ASSUME NEW c \in Nat, NEW f \in 0 .. m - 1
               PROVE  (c * m + f) \div m = c /\ (c * m + f) % m = f
    OBVIOUS
  <2> DEFINE a == c * m + f
             d == a \div m
             g == a % m
  <2>1. a \in Nat /\ d \in Nat /\ g \in 0 .. m - 1 /\ a = d * m + g
    BY SMTT(30)
  <2> DEFINE x == c * m
             y == d * m
  <2>2. x \in Nat /\ y \in Nat /\ x + f = y + g
    BY <2>1
  <2>3. (c < d => x + m <= y) /\ (d < c => y + m <= x) /\ (c = d => x = y)
    BY <1>1, <2>1
  <2>4. c = d /\ f = g
    <3> HIDE DEF x, y, d, g
    <3> QED
      BY <2>1, <2>2, <2>3
  <2> QED
    BY <2>4
<1>3. ASSUME NEW i \in 1 .. q * m
      PROVE  GroupAt(i, m) \in 1 .. q /\ PlaceIn(i, m) \in 1 .. m /\ (GroupAt(i, m) - 1) * m + PlaceIn(i, m) = i
  <2> DEFINE c == (i - 1) \div m
             f == (i - 1) % m
             x == c * m
             y == q * m
  <2>1. c \in Nat /\ f \in 0 .. m - 1 /\ i - 1 = c * m + f /\ x \in Nat /\ y \in Nat
    <3>1. i - 1 \in Nat
      OBVIOUS
    <3> QED
      BY <3>1, SMTT(30)
  <2>2. q < c => y + m <= x
    BY <1>1, <2>1
  <2>3. q = c => x = y
    OBVIOUS
  <2>4. i <= y /\ i - 1 = x + f
    BY <2>1
  <2>5. c < q
    <3> HIDE DEF c, f, x, y
    <3> QED
      BY <2>1, <2>2, <2>3, <2>4
  <2>6. GroupAt(i, m) = c + 1 /\ PlaceIn(i, m) = f + 1 /\ x + (f + 1) = i
    <3>1. GroupAt(i, m) = c + 1 /\ PlaceIn(i, m) = f + 1
      BY DEF GroupAt, PlaceIn
    <3>2. x + (f + 1) = i
      <4> HIDE DEF c, f, x, y
      <4> QED
        BY <2>1, <2>4
    <3> QED
      BY <3>1, <3>2
  <2>7. (c + 1) - 1 = c /\ c + 1 \in 1 .. q /\ f + 1 \in 1 .. m
    <3> HIDE DEF c, f
    <3> QED
      BY <2>1, <2>5
  <2> QED
    BY <2>6, <2>7
<1>4. ASSUME NEW w \in 1 .. q, NEW j \in 1 .. m
      PROVE  (w - 1) * m + j \in 1 .. q * m /\ GroupAt((w - 1) * m + j, m) = w /\ PlaceIn((w - 1) * m + j, m) = j
  <2>1. PICK c \in Nat, f \in 0 .. m - 1 : w = c + 1 /\ j = f + 1
    <3>1. w - 1 \in Nat /\ j - 1 \in 0 .. m - 1 /\ w = (w - 1) + 1 /\ j = (j - 1) + 1
      OBVIOUS
    <3> QED
      BY <3>1
  <2> DEFINE x == c * m
             y == q * m
  <2>2. x \in Nat /\ y \in Nat /\ x + m <= y /\ (w - 1) * m = x
    <3>1. w - 1 = c /\ c < q
      BY <2>1
    <3> QED
      BY <1>1, <3>1
  <2>3. (x + f) \div m = c /\ (x + f) % m = f
    BY <1>2
  <2> HIDE DEF x, y
  <2>4. x + j \in 1 .. y /\ (x + j) - 1 = x + f
    BY <2>1, <2>2
  <2>5. GroupAt(x + j, m) = w /\ PlaceIn(x + j, m) = j
    BY <2>1, <2>3, <2>4 DEF GroupAt, PlaceIn
  <2> QED
    BY <2>2, <2>4, <2>5 DEF y
<1> QED
  BY <1>3, <1>4 DEF Grouped

-----------------------------------------------------------------------------
(* How often a value comes in a sequence                                   *)

\* A value comes no time exactly if it is not in the sequence.
LEMMA TimesType ==
    ASSUME NEW T, NEW s \in Seq(T), NEW x
    PROVE  /\ Times(s, x) \in Nat /\ IsFiniteSet({i \in 1 .. Len(s) : s[i] = x})
           /\ (Times(s, x) = 0 <=> x \notin ToSet(s))
<1> DEFINE S == {i \in 1 .. Len(s) : s[i] = x}
<1>1. PICK n \in Nat : n = Len(s)
  OBVIOUS
<1>2. IsFiniteSet(1 .. n) /\ S \in SUBSET (1 .. n)
  BY <1>1, FS_Interval
<1>3. IsFiniteSet(S) /\ Cardinality(S) \in Nat /\ (Cardinality(S) = 0 <=> S = {})
  BY <1>2, FS_Subset, FS_CardinalityType, FS_EmptySet
<1>4. S = {} <=> x \notin ToSet(s)
  <2>1. ToSet(s) = {s[i] : i \in 1 .. n}
    BY <1>1 DEF ToSet
  <2> QED
    BY <1>1, <2>1
<1> QED
  BY <1>3, <1>4 DEF Times

\* A value in only one of two sequences comes as often in both together.
LEMMA TimesJoined ==
    ASSUME NEW T, NEW s \in Seq(T), NEW t \in Seq(T), NEW x
    PROVE  /\ x \notin ToSet(t) => Times(s \o t, x) = Times(s, x)
           /\ x \notin ToSet(s) => Times(s \o t, x) = Times(t, x)
<1>1. PICK m \in Nat, n \in Nat : m = Len(s) /\ n = Len(t)
  OBVIOUS
<1> DEFINE u == s \o t
<1>2. /\ Len(u) = m + n /\ DOMAIN s = 1 .. m /\ DOMAIN t = 1 .. n
      /\ \A i \in 1 .. m + n : u[i] = IF i <= m THEN s[i] ELSE t[i - m]
  BY <1>1
<1>3. ToSet(s) = {s[i] : i \in 1 .. m} /\ ToSet(t) = {t[i] : i \in 1 .. n}
  BY <1>2 DEF ToSet
<1>4. Times(u, x) = Cardinality({i \in 1 .. m + n : u[i] = x})
  BY <1>2 DEF Times
<1> HIDE DEF u
<1>5. ASSUME x \notin ToSet(t) PROVE Times(u, x) = Times(s, x)
  <2>1. \A i \in 1 .. m + n : u[i] = x => i \in 1 .. m
    <3> SUFFICES ASSUME NEW i \in 1 .. m + n, u[i] = x, ~(i <= m) PROVE FALSE
      OBVIOUS
    <3>1. i - m \in 1 .. n /\ t[i - m] = x
      BY <1>2
    <3> QED
      BY <1>3, <1>5, <3>1
  <2>2. \A i \in 1 .. m : i \in 1 .. m + n /\ u[i] = s[i]
    BY <1>2
  <2>3. {i \in 1 .. m + n : u[i] = x} = {i \in 1 .. m : s[i] = x}
    BY <2>1, <2>2
  <2> QED
    BY <1>1, <1>4, <2>3 DEF Times
<1>6. ASSUME x \notin ToSet(s) PROVE Times(u, x) = Times(t, x)
  <2> DEFINE A == {i \in 1 .. n : t[i] = x}
             B == {i \in 1 .. m + n : u[i] = x}
             f == [i \in A |-> i + m]
  <2>1. \A i \in 1 .. n : i + m \in 1 .. m + n /\ u[i + m] = t[i]
    <3> SUFFICES ASSUME NEW i \in 1 .. n PROVE i + m \in 1 .. m + n /\ u[i + m] = t[i]
      OBVIOUS
    <3>1. i + m \in 1 .. m + n /\ ~(i + m <= m) /\ (i + m) - m = i
      OBVIOUS
    <3> QED
      BY <1>2, <3>1
  <2>2. \A i \in 1 .. m + n : u[i] = x => i - m \in 1 .. n /\ (i - m) + m = i
    <3> SUFFICES ASSUME NEW i \in 1 .. m + n, u[i] = x PROVE i - m \in 1 .. n /\ (i - m) + m = i
      OBVIOUS
    <3>1. ~(i <= m)
      <4> SUFFICES ASSUME i <= m PROVE FALSE
        OBVIOUS
      <4>1. i \in 1 .. m /\ s[i] = x
        BY <1>2
      <4> QED
        BY <1>3, <1>6, <4>1
    <3> QED
      BY <3>1
  <2>3. f \in Bijection(A, B)
    <3>1. f \in [A -> B]
      BY <2>1
    <3>2. \A i, j \in A : f[i] = f[j] => i = j
      OBVIOUS
    <3>3. \A i \in B : \E j \in A : f[j] = i
      <4> SUFFICES ASSUME NEW i \in B PROVE \E j \in A : f[j] = i
        OBVIOUS
      <4>1. i - m \in 1 .. n /\ (i - m) + m = i
        BY <2>2
      <4>2. u[(i - m) + m] = t[i - m]
        BY <2>1, <4>1
      <4>3. i - m \in A /\ f[i - m] = i
        BY <4>1, <4>2
      <4> QED
        BY <4>3
    <3> HIDE DEF f, A, B
    <3> QED
      BY <3>1, <3>2, <3>3 DEF Bijection, Injection, Surjection, IsInjective
  <2>4. IsFiniteSet(A)
    BY <1>1, TimesType
  <2>5. Cardinality(A) = Cardinality(B)
    <3> HIDE DEF f, A, B
    <3>1. ExistsBijection(A, B)
      BY <2>3 DEF ExistsBijection
    <3> QED
      BY <2>4, <3>1, FS_Bijection
  <2> QED
    BY <1>1, <1>4, <2>5 DEF Times
<1> QED
  BY <1>5, <1>6 DEF u

\* In another order.
LEMMA TimesReordered ==
    ASSUME NEW T, NEW s \in Seq(T), NEW n \in Nat, n = Len(s), NEW p \in Bijection(1 .. n, 1 .. n), NEW x
    PROVE  Times([i \in 1 .. n |-> s[p[i]]], x) = Times(s, x)
<1> DEFINE r == [i \in 1 .. n |-> s[p[i]]]
           A == {i \in 1 .. n : s[p[i]] = x}
           B == {i \in 1 .. n : s[i] = x}
           f == [i \in A |-> p[i]]
<1>1. /\ \A i \in 1 .. n : p[i] \in 1 .. n
      /\ \A i, j \in 1 .. n : p[i] = p[j] => i = j
      /\ \A i \in 1 .. n : \E j \in 1 .. n : p[j] = i
  BY DEF Bijection, Injection, Surjection, IsInjective
<1>2. Len(r) = n
  <2>1. \A i \in 1 .. n : s[p[i]] \in T
    BY <1>1
  <2>2. r \in [1 .. n -> T]
    BY <2>1
  <2> HIDE DEF r
  <2> QED
    BY <2>2
<1>3. Times(r, x) = Cardinality(A) /\ Times(s, x) = Cardinality(B)
  BY <1>2 DEF Times
<1>4. f \in Bijection(A, B)
  <2>1. f \in [A -> B]
    BY <1>1
  <2>2. \A i, j \in A : f[i] = f[j] => i = j
    BY <1>1
  <2>3. \A i \in B : \E j \in A : f[j] = i
    BY <1>1
  <2> HIDE DEF f, A, B
  <2> QED
    BY <2>1, <2>2, <2>3 DEF Bijection, Injection, Surjection, IsInjective
<1>5. IsFiniteSet(A)
  <2>1. IsFiniteSet(1 .. n) /\ A \in SUBSET (1 .. n)
    BY FS_Interval
  <2> QED
    BY <2>1, FS_Subset
<1> QED
  <2> HIDE DEF f, A, B, r
  <2>1. ExistsBijection(A, B)
    BY <1>4 DEF ExistsBijection
  <2>2. Cardinality(A) = Cardinality(B)
    BY <1>5, <2>1, FS_Bijection
  <2>3. Times(r, x) = Times(s, x)
    BY <1>3, <2>2
  <2> QED
    BY <2>3 DEF r

-----------------------------------------------------------------------------
(* Rows of a DataProto                                                     *)

\* A function on 1 .. n is a sequence of length n.
LEMMA Listed ==
    ASSUME NEW n \in Nat, NEW s, s = [i \in 1 .. n |-> s[i]]
    PROVE  Len(s) = n /\ DOMAIN s = 1 .. n
<1> DEFINE T == {s[i] : i \in 1 .. n}
<1>1. s \in [1 .. n -> T]
  OBVIOUS
<1>2. \A g \in [1 .. n -> T] : g \in Seq(T) /\ Len(g) = n
  OBVIOUS
<1> QED
  BY <1>1, <1>2

\* Selecting rows selects them in every column.
LEMMA SelectedRows ==
    ASSUME NEW d, NEW n \in Nat, NEW s, s = [i \in 1 .. n |-> s[i]]
    PROVE  Selected(d, s) = [c \in DOMAIN d |-> [i \in 1 .. n |-> d[c][s[i]]]]
<1>1. Len(s) = n
  BY Listed
<1> QED
  BY <1>1 DEF Selected

LEMMA SizeFacts ==
    /\ BatchSize \in Nat \ {0} /\ RolloutN \in Nat \ {0} /\ Workers \in Nat \ {0} /\ Prompts \in Nat \ {0}
    /\ BatchSize * RolloutN \in Nat \ {0} /\ BatchSize <= 2 * Prompts
<1>1. /\ BatchSize \in Nat \ {0} /\ RolloutN \in Nat \ {0} /\ Workers \in Nat \ {0} /\ Prompts \in Nat \ {0}
      /\ BatchSize <= 2 * Prompts
  BY SizesAssumption
<1>2. \A a, b \in Nat \ {0} : a * b \in Nat \ {0}
  OBVIOUS
<1> QED
  BY <1>1, <1>2

LEMMA OriginFacts ==
    ASSUME NEW i \in Rows
    PROVE  /\ Origin(i) \in 1 .. BatchSize /\ Source(i) = Origin(i)
           /\ Origin(i) = GroupAt(i, RolloutN) /\ i \in 1 .. BatchSize * RolloutN
<1>1. Grouped(BatchSize, RolloutN)
  BY SizeFacts, InGroups
<1>2. GroupAt(i, RolloutN) \in 1 .. BatchSize
  BY <1>1 DEF Grouped, Rows
<1> QED
  BY <1>2 DEF Origin, Source, GroupAt, Rows

\* The generation batch divides among the workers.
LEMMA GenFacts ==
    ASSUME Configured
    PROVE  /\ GenSize \in Nat \ {0} /\ GenSize = BatchSize * RolloutN + (IF Remax THEN BatchSize ELSE 0)
           /\ ChunkSize \in Nat \ {0} /\ GenSize = Workers * ChunkSize
           /\ \A i \in 1 .. GenSize : Source(i) \in 1 .. BatchSize
<1> DEFINE n == BatchSize * RolloutN
<1>1. n \in Nat \ {0} /\ BatchSize \in Nat \ {0} /\ Workers \in Nat \ {0}
  BY SizeFacts
<1>2. GenSize = n + (IF Remax THEN BatchSize ELSE 0)
  <2>1. BatchSize * (RolloutN + 1) = n + BatchSize
    BY SizeFacts
  <2> QED
    BY <1>1, <2>1 DEF GenSize
<1>3. (GenSize % Workers) = 0
  <2>1. Remax => "remax" \in Estimators
    BY DEF Configured, Remax
  <2> QED
    BY <2>1, SizesAssumption DEF GenSize
<1>4. PICK g \in Nat \ {0} : g = GenSize
  BY <1>1, <1>2
<1>5. PICK w \in Nat \ {0} : w = Workers
  BY <1>1
<1>6. (g \div w) \in Nat /\ g = w * (g \div w)
  <2>1. (g % w) = 0
    BY <1>3, <1>4, <1>5
  <2> QED
    BY <2>1, SMTT(30)
<1>7. PICK m \in Nat : m = g \div w
  BY <1>6
<1>8. m # 0
  <2>1. w * 0 = 0
    OBVIOUS
  <2> QED
    BY <1>4, <1>6, <1>7, <2>1
<1>9. ChunkSize \in Nat \ {0} /\ GenSize = Workers * ChunkSize
  BY <1>4, <1>5, <1>6, <1>7, <1>8 DEF ChunkSize
<1>10. ASSUME NEW i \in 1 .. GenSize PROVE Source(i) \in 1 .. BatchSize
  <2>1. CASE i \in Rows
    BY <2>1, OriginFacts
  <2>2. CASE i \notin Rows
    <3>1. i \in Nat \ {0} /\ ~(i <= n)
      BY <1>1, <1>4, <2>2 DEF Rows
    <3>2. Source(i) = i - n
      BY <2>2 DEF Source
    <3> HIDE DEF n
    <3> QED
      BY <1>1, <1>2, <1>4, <3>1, <3>2
  <2> QED
    BY <2>1, <2>2
<1> QED
  BY <1>1, <1>2, <1>4, <1>9, <1>10

-----------------------------------------------------------------------------
(* The generation batch, its chunks and the responses                      *)

\* Row i of the generation batch is the row of batch it was repeated from.
GenRowsOK ==
    /\ DOMAIN gen = {"item", "uid", "greedy"}
    /\ \A c \in DOMAIN gen : gen[c] = [i \in 1 .. GenSize |-> gen[c][i]]
    /\ \A i \in 1 .. GenSize :
          gen["item"][i] = batch["item"][Source(i)] /\ gen["greedy"][i] = (i > BatchSize * RolloutN)

\* Repetition keeps the rollouts of a row beside each other.
LEMMA RepeatRows ==
    ASSUME NEW d, d["item"] \in Seq(Items), Len(d["item"]) = BatchSize
    PROVE  Repeat(d, RolloutN) = [c \in DOMAIN d |-> [i \in Rows |-> d[c][Origin(i)]]]
<1> DEFINE n == BatchSize * RolloutN
           s == [i \in 1 .. n |-> Origin(i)]
<1>1. n \in Nat
  BY SizeFacts
<1>2. Repeat(d, RolloutN) = Selected(d, s)
  BY DEF Repeat, Size, Origin
<1>3. s = [i \in 1 .. n |-> s[i]]
  OBVIOUS
<1>4. \A i \in 1 .. n : s[i] = Origin(i)
  OBVIOUS
<1> HIDE DEF s, n
<1>5. Selected(d, s) = [c \in DOMAIN d |-> [i \in 1 .. n |-> d[c][s[i]]]]
  <2>1. Len(s) = n
    BY <1>1, <1>3, Listed
  <2> QED
    BY <2>1 DEF Selected
<1>6. \A c \in DOMAIN d : [i \in 1 .. n |-> d[c][s[i]]] = [i \in Rows |-> d[c][Origin(i)]]
  BY <1>4 DEF Rows, n
<1> QED
  BY <1>2, <1>5, <1>6

LEMMA GenRows ==
    ASSUME Configured, Loaded
    PROVE  GenRowsOK
<1> DEFINE n == BatchSize * RolloutN
           sampled == Repeat(batch, RolloutN)
           rows == IF Remax THEN Concat2(sampled, batch) ELSE sampled
           marks == [greedy |-> [i \in 1 .. GenSize |-> i > n]]
<1>1. gen = Union(rows, marks)
  BY DEF Loaded, GenBatch, GenSize, Remax
<1>2. /\ DOMAIN batch = {"item", "uid"}
      /\ batch["item"] \in Seq(Items) /\ Len(batch["item"]) = BatchSize
      /\ batch["uid"] \in Seq(Nat) /\ Len(batch["uid"]) = BatchSize
  BY DEF Loaded
<1>3. /\ n \in Nat \ {0} /\ BatchSize \in Nat \ {0} /\ GenSize \in Nat \ {0}
      /\ GenSize = n + (IF Remax THEN BatchSize ELSE 0)
      /\ \A i \in 1 .. GenSize : Source(i) \in 1 .. BatchSize
  BY SizeFacts, GenFacts
<1>4. sampled = [c \in {"item", "uid"} |-> [i \in Rows |-> batch[c][Origin(i)]]]
  BY <1>2, RepeatRows
<1> HIDE DEF sampled
<1>5. /\ \A i \in Rows : i \in 1 .. n /\ Origin(i) \in 1 .. BatchSize /\ Source(i) = Origin(i)
      /\ Rows = 1 .. n
  BY OriginFacts DEF Rows
<1>6. ASSUME NEW T, NEW c \in {"item", "uid"}, batch[c] \in Seq(T)
      PROVE  rows[c] = [i \in 1 .. GenSize |-> batch[c][Source(i)]]
  <2>1. batch[c] \in [1 .. BatchSize -> T]
    BY <1>2, <1>6
  <2>2. sampled[c] = [i \in 1 .. n |-> batch[c][Origin(i)]]
    BY <1>4, <1>5
  <2>3. CASE ~Remax
    <3>1. \A i \in 1 .. GenSize : i \in 1 .. n
      BY <1>3, <2>3
    <3>2. GenSize = n
      BY <1>3, <2>3
    <3>3. rows[c] = sampled[c]
      BY <2>3
    <3> HIDE DEF n, rows
    <3> QED
      BY <1>5, <2>2, <3>2, <3>3
  <2>4. CASE Remax
    <3>1. rows[c] = sampled[c] \o batch[c]
      BY <1>4, <2>4 DEF Concat2
    <3>2. GenSize = n + BatchSize
      BY <1>3, <2>4
    <3> HIDE DEF n, rows
    <3>3. sampled[c] \in [1 .. n -> T]
      BY <1>5, <2>1, <2>2
    <3>4. \A m \in Nat : \A g \in [1 .. m -> T] : g \in Seq(T) /\ Len(g) = m
      OBVIOUS
    <3>5. sampled[c] \in Seq(T) /\ Len(sampled[c]) = n
      BY <1>3, <3>3, <3>4
    <3>6. Len(batch[c]) = BatchSize /\ batch[c] \in Seq(T)
      BY <1>3, <2>1, <3>4
    <3>7. rows[c] = [i \in 1 .. n + BatchSize |-> IF i <= n THEN sampled[c][i] ELSE batch[c][i - n]]
      <4>1. /\ rows[c] \in Seq(T) /\ Len(rows[c]) = n + BatchSize
            /\ \A i \in 1 .. n + BatchSize : rows[c][i] = IF i <= n THEN sampled[c][i] ELSE batch[c][i - n]
        <5> DEFINE u == sampled[c]
                   t == batch[c]
        <5>1. PICK a \in Nat, e \in Nat : a = n /\ e = BatchSize
          BY <1>3
        <5>2. u \in Seq(T) /\ Len(u) = a /\ t \in Seq(T) /\ Len(t) = e
          BY <3>5, <3>6, <5>1
        <5> HIDE DEF u, t
        <5>3. /\ u \o t \in Seq(T) /\ Len(u \o t) = a + e
              /\ \A i \in 1 .. a + e : (u \o t)[i] = IF i <= a THEN u[i] ELSE t[i - a]
          BY <5>1, <5>2
        <5> QED
          BY <3>1, <5>1, <5>3 DEF u, t
      <4>2. rows[c] = [i \in 1 .. n + BatchSize |-> rows[c][i]]
        BY <4>1
      <4> QED
        BY <4>1, <4>2
    <3>8. \A i \in 1 .. n + BatchSize :
             (IF i <= n THEN sampled[c][i] ELSE batch[c][i - n]) = batch[c][Source(i)]
      <4> SUFFICES ASSUME NEW i \in 1 .. n + BatchSize
                   PROVE  (IF i <= n THEN sampled[c][i] ELSE batch[c][i - n]) = batch[c][Source(i)]
        OBVIOUS
      <4>1. i <= n <=> i \in Rows
        BY <1>3, <1>5
      <4>2. i \notin Rows => Source(i) = i - n
        BY DEF Source, n
      <4> QED
        BY <1>5, <2>2, <4>1, <4>2
    <3> QED
      BY <3>2, <3>7, <3>8
  <2> QED
    BY <2>3, <2>4
<1>7. DOMAIN rows = {"item", "uid"}
  BY <1>4 DEF Concat2
<1>8. DOMAIN marks = {"greedy"} /\ marks["greedy"] = [i \in 1 .. GenSize |-> i > n]
  OBVIOUS
<1>9. rows["item"] = [i \in 1 .. GenSize |-> batch["item"][Source(i)]]
  BY <1>2, <1>6
<1>10. rows["uid"] = [i \in 1 .. GenSize |-> batch["uid"][Source(i)]]
  BY <1>2, <1>6
<1> HIDE DEF rows, marks
<1>11. gen = [c \in {"item", "uid", "greedy"} |-> IF c = "greedy" THEN marks["greedy"] ELSE rows[c]]
  BY <1>1, <1>7, <1>8 DEF Union
<1> QED
  BY <1>8, <1>9, <1>10, <1>11 DEF GenRowsOK

\* Row j of worker w's chunk, in the generation batch.
LEMMA ChunkRows ==
    ASSUME Configured, GenRowsOK, NEW w \in 1 .. Workers
    PROVE  /\ Size(ChunkOf(w)) = ChunkSize
           /\ \A j \in 1 .. ChunkSize :
                 /\ ChunkOf(w)["item"][j] = gen["item"][(w - 1) * ChunkSize + j]
                 /\ ChunkOf(w)["greedy"][j] = gen["greedy"][(w - 1) * ChunkSize + j]
<1>1. GenSize \in Nat \ {0} /\ ChunkSize \in Nat \ {0}
  BY GenFacts
<1>2. Size(gen) = GenSize
  BY <1>1, Listed DEF GenRowsOK, Size
<1> DEFINE m == ChunkSize
           a == (w - 1) * m
           b == w * m
           s == [i \in 1 .. m |-> a + i]
<1>3. a \in Nat /\ b \in Nat /\ b = a + m
  <2>1. PICK v \in Nat : w = v + 1
    <3>1. w - 1 \in Nat /\ w = (w - 1) + 1
      OBVIOUS
    <3> QED
      BY <3>1
  <2>2. w - 1 = v /\ (v + 1) * m = v * m + m /\ v * m \in Nat
    BY <1>1, <2>1
  <2> QED
    BY <1>1, <2>1, <2>2
<1>4. ChunkOf(w) = Slice(gen, a + 1, b)
  BY <1>2 DEF ChunkOf, DataChunk, ChunkSize
<1> HIDE DEF a, b
<1>5. ChunkOf(w) = Selected(gen, s)
  <2>1. b - (a + 1) + 1 = m
    BY <1>1, <1>3
  <2>2. \A i \in 1 .. m : a + 1 + i - 1 = a + i
    BY <1>1, <1>3
  <2>3. [i \in 1 .. m |-> a + 1 + i - 1] = s
    BY <2>2
  <2> HIDE DEF s, m
  <2> QED
    BY <1>4, <2>1, <2>3 DEF Slice
<1>6. s = [i \in 1 .. m |-> s[i]] /\ \A i \in 1 .. m : s[i] = a + i
  OBVIOUS
<1> HIDE DEF s, m
<1>7. ChunkOf(w) = [c \in DOMAIN gen |-> [i \in 1 .. m |-> gen[c][s[i]]]]
  BY <1>1, <1>5, <1>6, SelectedRows DEF m
<1>8. /\ ChunkOf(w)["item"] = [i \in 1 .. m |-> gen["item"][s[i]]]
      /\ ChunkOf(w)["greedy"] = [i \in 1 .. m |-> gen["greedy"][s[i]]]
  BY <1>7 DEF GenRowsOK
<1>9. Len(ChunkOf(w)["item"]) = m
  BY <1>1, <1>8, Listed DEF m
<1>10. ASSUME NEW j \in 1 .. m
       PROVE  ChunkOf(w)["item"][j] = gen["item"][a + j] /\ ChunkOf(w)["greedy"][j] = gen["greedy"][a + j]
  BY <1>6, <1>8
<1>11. Size(ChunkOf(w)) = m
  BY <1>9 DEF Size
<1> QED
  BY <1>10, <1>11 DEF m, a

-----------------------------------------------------------------------------
(* Steps                                                                   *)

LEMMA ItemFacts ==
    /\ 2 * Prompts \in Nat \ {0} /\ Items \subseteq Nat
    /\ IsFiniteSet(Items) /\ Cardinality(Items) = 2 * Prompts
<1> DEFINE n == 2 * Prompts
<1>1. n \in Nat \ {0} /\ Items = 0 .. n - 1
  BY SizeFacts DEF Items
<1> HIDE DEF n
<1>2. IsFiniteSet(0 .. n - 1) /\ Cardinality(0 .. n - 1) = IF 0 > n - 1 THEN 0 ELSE (n - 1) - 0 + 1
  <2>1. 0 \in Int /\ n - 1 \in Int
    BY <1>1
  <2> QED
    BY <2>1, FS_Interval
<1>3. Cardinality(0 .. n - 1) = n /\ 0 .. n - 1 \subseteq Nat
  BY <1>1, <1>2
<1> QED
  BY <1>1, <1>2, <1>3 DEF n

\* What the sampler yields in an epoch.
LEMMA SamplerOrder ==
    ASSUME NEW o, o \in SetToSeqs(Items) \/ o = [i \in 1 .. 2 * Prompts |-> i - 1]
    PROVE  o \in Seq(Items) /\ IsInjective(o) /\ Len(o) = 2 * Prompts
<1> DEFINE n == 2 * Prompts
<1>1. n \in Nat \ {0} /\ Items = 0 .. n - 1 /\ Cardinality(Items) = n
  BY ItemFacts DEF Items
<1>2. o \in [1 .. n -> Items] /\ \A i, j \in 1 .. n : o[i] = o[j] => i = j
  <2>1. CASE o \in SetToSeqs(Items)
    BY <1>1, <2>1 DEF SetToSeqs
  <2>2. CASE o = [i \in 1 .. n |-> i - 1]
    <3>1. \A i \in 1 .. n : i - 1 \in 0 .. n - 1
      BY <1>1
    <3> HIDE DEF n
    <3> QED
      BY <1>1, <2>2, <3>1
  <2> QED
    BY <2>1, <2>2
<1> HIDE DEF n
<1>3. \A m \in Nat : \A g \in [1 .. m -> Items] : g \in Seq(Items) /\ Len(g) = m
  OBVIOUS
<1> QED
  BY <1>1, <1>2, <1>3 DEF IsInjective, n

\* Cutting a sequence in two leaves nothing in both parts.
LEMMA Cut ==
    ASSUME NEW T, NEW s \in Seq(T), IsInjective(s), NEW n \in Nat, n <= Len(s)
    PROVE  /\ SubSeq(s, 1, n) \in Seq(T) /\ Len(SubSeq(s, 1, n)) = n /\ IsInjective(SubSeq(s, 1, n))
           /\ SubSeq(s, n + 1, Len(s)) \in Seq(T) /\ Len(SubSeq(s, n + 1, Len(s))) = Len(s) - n
           /\ IsInjective(SubSeq(s, n + 1, Len(s)))
           /\ \A x \in ToSet(SubSeq(s, 1, n)) : x \in ToSet(s) /\ x \notin ToSet(SubSeq(s, n + 1, Len(s)))
           /\ \A x \in ToSet(SubSeq(s, n + 1, Len(s))) : x \in ToSet(s)
<1> DEFINE a == SubSeq(s, 1, n)
           b == SubSeq(s, n + 1, Len(s))
<1>1. PICK m \in Nat : m = Len(s)
  OBVIOUS
<1>2. a \in Seq(T) /\ Len(a) = n /\ \A i \in 1 .. n : a[i] = s[i]
  BY <1>1
<1>3. b \in Seq(T) /\ Len(b) = m - n /\ \A i \in 1 .. m - n : b[i] = s[i + n]
  BY <1>1
<1>4. DOMAIN s = 1 .. m /\ DOMAIN a = 1 .. n /\ DOMAIN b = 1 .. m - n
  BY <1>1, <1>2, <1>3
<1>5. \A i, j \in 1 .. m : s[i] = s[j] => i = j
  BY <1>4 DEF IsInjective
<1>6. (\A i \in 1 .. n : i \in 1 .. m) /\ \A i \in 1 .. m - n : i + n \in 1 .. m /\ ~(i + n <= n)
  BY <1>1
<1> HIDE DEF a, b
<1>7. IsInjective(a)
  BY <1>2, <1>4, <1>5, <1>6 DEF IsInjective
<1>8. IsInjective(b)
  <2> SUFFICES ASSUME NEW i \in 1 .. m - n, NEW j \in 1 .. m - n, b[i] = b[j] PROVE i = j
    BY <1>4 DEF IsInjective
  <2>1. i + n = j + n
    BY <1>3, <1>5, <1>6
  <2> QED
    BY <1>1, <2>1
<1>9. ToSet(s) = {s[i] : i \in 1 .. m} /\ ToSet(a) = {a[i] : i \in 1 .. n} /\ ToSet(b) = {b[i] : i \in 1 .. m - n}
  BY <1>4 DEF ToSet
<1>10. ASSUME NEW x \in ToSet(a) PROVE x \in ToSet(s) /\ x \notin ToSet(b)
  <2>1. PICK i \in 1 .. n : x = s[i]
    BY <1>2, <1>9
  <2>2. i \in 1 .. m /\ i <= n
    BY <1>6
  <2>3. ASSUME NEW j \in 1 .. m - n, x = b[j] PROVE FALSE
    BY <1>3, <1>5, <1>6, <2>1, <2>2, <2>3
  <2> QED
    BY <1>9, <2>1, <2>2, <2>3
<1>11. ASSUME NEW x \in ToSet(b) PROVE x \in ToSet(s)
  BY <1>3, <1>6, <1>9
<1> QED
  BY <1>1, <1>2, <1>3, <1>7, <1>8, <1>10, <1>11 DEF a, b

LEMMA NoTimes == \A x : Times(<<>>, x) = 0 /\ x \notin ToSet(<<>>)
<1>1. ToSet(<<>>) = {}
  BY DEF ToSet
<1>2. <<>> \in Seq({})
  OBVIOUS
<1> QED
  BY <1>1, <1>2, TimesType

LEMMA InitInv == StepInit => Inv
<1> SUFFICES ASSUME StepInit PROVE Inv
  OBVIOUS
<1>1. Configured
  BY DEF StepInit, Configured
<1>2. Answered
  BY DEF StepInit, Answered
<1>3. Sampling
  BY NoTimes DEF StepInit, Sampling, IsInjective
<1>4. Progress
  BY SizesAssumption DEF StepInit, Progress
<1> QED
  BY <1>1, <1>2, <1>3, <1>4 DEF StepInit, Inv, InHand

LEMMA StartEpochInv == Inv /\ StartEpoch => Inv'
<1> SUFFICES ASSUME Inv, StartEpoch PROVE Inv'
  OBVIOUS
<1> USE DEF StartEpoch
<1>1. order' \in Seq(Items) /\ IsInjective(order') /\ Len(order') = 2 * Prompts
  BY SamplerOrder
<1>2. Configured'
  BY DEF Inv, Configured
<1>3. Answered'
  BY DEF Inv, Answered
<1>4. Sampling'
  BY <1>1, NoTimes DEF Sampling
<1>5. Progress'
  <2>1. stepEpoch \in 0 .. FitEpochs /\ FitEpochs \in Nat
    BY SizesAssumption DEF Inv, Progress
  <2>2. stepEpoch' \in 0 .. FitEpochs /\ stepEpoch' > 0
    BY <2>1
  <2>3. Len(order') + BatchSize * 0 = 2 * Prompts /\ Len(trained') = RolloutN * BatchSize * 0 /\ 0 \in 0 .. 2 * Prompts
    BY <1>1, SizeFacts, ItemFacts
  <2>4. stepPc' = "load"
    OBVIOUS
  <2> QED
    BY <2>2, <2>3, <2>4 DEF Progress
<1> QED
  BY <1>2, <1>3, <1>4, <1>5 DEF Inv, InHand

LEMMA LoadBatchInv == Inv /\ LoadBatch => Inv'
<1> SUFFICES ASSUME Inv, LoadBatch PROVE Inv'
  OBVIOUS
<1> DEFINE a == SubSeq(order, 1, BatchSize)
           b == SubSeq(order, BatchSize + 1, Len(order))
<1>1. /\ stepPc = "load" /\ BatchSize <= Len(order) /\ batch' = [item |-> a, uid |-> FreshUids]
      /\ gen' = GenBatch(batch') /\ order' = b /\ lastUid' = lastUid + BatchSize
      /\ answers' = [w \in 1 .. Workers |-> <<>>] /\ stepPc' = "generate"
      /\ config' = config /\ stepEpoch' = stepEpoch /\ trained' = trained
  BY DEF LoadBatch
<1>2. Configured /\ Sampling /\ Progress /\ BatchSize \in Nat \ {0}
  BY SizeFacts DEF Inv
<1>3. /\ a \in Seq(Items) /\ Len(a) = BatchSize /\ IsInjective(a)
      /\ b \in Seq(Items) /\ Len(b) = Len(order) - BatchSize /\ IsInjective(b)
      /\ \A x \in ToSet(a) : x \in ToSet(order) /\ x \notin ToSet(b)
      /\ \A x \in ToSet(b) : x \in ToSet(order)
  BY <1>1, <1>2, Cut DEF Sampling
<1>4. FreshUids \in Seq(Nat) /\ Len(FreshUids) = BatchSize /\ IsInjective(FreshUids)
  <2>1. lastUid \in Nat
    BY <1>2 DEF Configured
  <2>2. FreshUids \in [1 .. BatchSize -> Nat] /\ \A i, j \in 1 .. BatchSize : FreshUids[i] = FreshUids[j] => i = j
    BY <1>2, <2>1 DEF FreshUids
  <2>3. \A m \in Nat : \A g \in [1 .. m -> Nat] : g \in Seq(Nat) /\ Len(g) = m
    OBVIOUS
  <2> QED
    BY <1>2, <2>2, <2>3 DEF IsInjective
<1> HIDE DEF a, b
<1>5. Configured'
  BY <1>1, <1>2 DEF Configured
<1>6. Loaded'
  <2>1. gen' = GenBatch(batch)'
    BY <1>1 DEF GenBatch
  <2> QED
    BY <1>1, <1>3, <1>4, <2>1 DEF Loaded
<1>7. Answered'
  BY <1>1 DEF Answered
<1>8. Sampling'
  <2>1. \A x \in ToSet(a) : x \notin ToSet(b) /\ x \notin ToSet(trained)
    BY <1>2, <1>3 DEF Sampling
  <2>2. \A x \in ToSet(b) : x \notin ToSet(trained)
    BY <1>2, <1>3 DEF Sampling
  <2> QED
    BY <1>1, <1>2, <1>3, <2>1, <2>2 DEF Sampling
<1>9. Progress'
  <2>1. stepEpoch > 0 /\ stepEpoch \in Nat
    <3>1. stepEpoch = 0 => Len(order) = 0
      BY <1>2 DEF Progress
    <3>2. stepEpoch \in Nat
      BY <1>2, SizesAssumption DEF Progress
    <3> QED
      BY <1>1, <1>2, <3>1, <3>2
  <2>2. PICK q \in 0 .. 2 * Prompts : /\ Len(order) + BatchSize * q = 2 * Prompts
                                      /\ Len(trained) = RolloutN * BatchSize * q
    BY <1>1, <1>2, <2>1 DEF Progress
  <2>3. PICK m \in Nat, n \in Nat \ {0}, p \in Nat : m = Len(order) /\ n = BatchSize /\ p = 2 * Prompts
    <3>1. Len(order) \in Nat
      BY <1>2 DEF Sampling
    <3> QED
      BY <1>2, <3>1, ItemFacts
  <2>4. m + n * q = p /\ n <= m /\ q \in Nat
    BY <1>1, <2>2, <2>3
  <2>5. n * (q + 1) = n * q + n /\ n * (q + 1) >= q + 1
    <3>1. \A c \in Nat : n * c >= c
      <4> SUFFICES ASSUME NEW c \in Nat PROVE n * c >= c
        OBVIOUS
      <4>1. PICK e \in Nat : n = e + 1
        <5>1. n - 1 \in Nat /\ n = (n - 1) + 1
          OBVIOUS
        <5> QED
          BY <5>1
      <4>2. n * c = e * c + c /\ e * c \in Nat
        BY <4>1
      <4> QED
        BY <4>2
    <3>2. n * (q + 1) = n * q + n
      BY <2>4
    <3>3. q + 1 \in Nat
      BY <2>4
    <3> QED
      BY <3>1, <3>2, <3>3
  <2> DEFINE x == n * q
             y == n * (q + 1)
  <2>6. x \in Nat /\ y \in Nat /\ m + x = p /\ y = x + n /\ y >= q + 1
    BY <2>4, <2>5
  <2>7. q + 1 \in 0 .. p /\ (m - n) + y = p /\ (q + 1) - 1 = q
    <3> HIDE DEF x, y
    <3> QED
      BY <2>3, <2>4, <2>6
  <2>8. Len(order') = m - n
    BY <1>1, <1>3, <2>3
  <2>9. /\ q + 1 \in 0 .. 2 * Prompts /\ Len(order') + BatchSize * (q + 1) = 2 * Prompts
        /\ Len(trained') = RolloutN * BatchSize * ((q + 1) - 1)
    BY <1>1, <2>2, <2>3, <2>7, <2>8
  <2>10. \E r \in 0 .. 2 * Prompts : /\ Len(order') + BatchSize * r = 2 * Prompts
                                    /\ Len(trained') = RolloutN * BatchSize * (r - 1)
    <3> HIDE DEF x, y
    <3>1. PICK r \in 0 .. 2 * Prompts : r = q + 1
      BY <2>9
    <3> QED
      BY <2>9, <3>1
  <2> QED
    BY <1>1, <1>2, <2>1, <2>10 DEF Progress
<1> QED
  BY <1>1, <1>5, <1>6, <1>7, <1>8, <1>9 DEF Inv, InHand

LEMMA AnswerInv ==
    ASSUME Inv, NEW w \in 1 .. Workers, NEW j, NEW outcome \in Outcomes, Answer(w, j, outcome)
    PROVE  Inv'
<1> DEFINE r == [item |-> ChunkOf(w)["item"][j], greedy |-> ChunkOf(w)["greedy"][j],
                 score |-> outcome.score, workload |-> outcome.workload]
           mine == [i \in DOMAIN answers[w] \cup {j} |-> IF i = j THEN r ELSE answers[w][i]]
<1>1. /\ stepPc = "generate" /\ j \in 1 .. Size(ChunkOf(w)) /\ answers' = [answers EXCEPT ![w] = mine]
      /\ config' = config /\ stepPc' = stepPc /\ stepEpoch' = stepEpoch /\ order' = order /\ lastUid' = lastUid
      /\ batch' = batch /\ gen' = gen /\ trained' = trained
  BY DEF Answer
<1>2. Configured /\ Answered /\ Sampling /\ Progress /\ Loaded
  BY <1>1 DEF Inv
<1>3. GenRowsOK
  BY <1>2, GenRows
<1>4. /\ Size(ChunkOf(w)) = ChunkSize /\ ChunkSize \in Nat \ {0}
      /\ \A k \in 1 .. ChunkSize :
            /\ ChunkOf(w)["item"][k] = gen["item"][(w - 1) * ChunkSize + k]
            /\ ChunkOf(w)["greedy"][k] = gen["greedy"][(w - 1) * ChunkSize + k]
  BY <1>2, <1>3, ChunkRows, GenFacts
<1>5. j \in 1 .. ChunkSize
  BY <1>1, <1>4
<1>6. /\ r.item = gen["item"][(w - 1) * ChunkSize + j] /\ r.greedy = gen["greedy"][(w - 1) * ChunkSize + j]
  BY <1>4, <1>5
<1>7. r \in Response
  <2>1. outcome.score \in Int /\ outcome.workload \in Nat
    BY ChoicesAssumption
  <2>2. Grouped(Workers, ChunkSize)
    BY <1>4, SizeFacts, InGroups
  <2>3. (w - 1) * ChunkSize + j \in 1 .. GenSize
    BY <1>2, <1>5, <2>2, GenFacts DEF Grouped
  <2>4. PICK i \in 1 .. GenSize : i = (w - 1) * ChunkSize + j
    BY <2>3
  <2>5. /\ Source(i) \in 1 .. BatchSize /\ gen["item"][i] = batch["item"][Source(i)]
        /\ gen["greedy"][i] \in BOOLEAN
    <3>1. Source(i) \in 1 .. BatchSize /\ gen["item"][i] = batch["item"][Source(i)]
      BY <1>2, <1>3, GenFacts DEF GenRowsOK
    <3>2. gen["greedy"][i] = (i > BatchSize * RolloutN)
      BY <1>3 DEF GenRowsOK
    <3>3. gen["greedy"][i] \in BOOLEAN
      <4>1. PICK m \in Nat, n \in Nat : m = i /\ n = BatchSize * RolloutN
        BY <1>2, SizeFacts, GenFacts
      <4>2. gen["greedy"][i] = (m > n)
        BY <3>2, <4>1
      <4> QED
        BY <4>2
    <3> QED
      BY <3>1, <3>3
  <2>6. gen["item"][i] \in Items
    BY <1>2, <2>5, SizeFacts DEF Loaded
  <2> HIDE DEF r
  <2>7. r.item \in Items /\ r.greedy \in BOOLEAN
    BY <1>6, <2>4, <2>5, <2>6
  <2> QED
    BY <2>1, <2>7 DEF Response, r
<1>8. /\ answers'[w] = mine /\ \A v \in 1 .. Workers : v # w => answers'[v] = answers[v]
      /\ DOMAIN answers' = 1 .. Workers
  BY <1>1, <1>2 DEF Configured
<1>9. /\ mine[j] = r /\ DOMAIN mine = DOMAIN answers[w] \cup {j}
      /\ \A i \in DOMAIN answers[w] : i # j => mine[i] = answers[w][i]
  OBVIOUS
<1> HIDE DEF r, mine
<1>10. ChunkSize' = ChunkSize
  BY <1>1 DEF ChunkSize, GenSize, Remax
<1>11. ASSUME NEW v \in 1 .. Workers
       PROVE  /\ DOMAIN answers'[v] \subseteq 1 .. ChunkSize
              /\ \A i \in DOMAIN answers'[v] :
                    /\ answers'[v][i] \in Response
                    /\ answers'[v][i].item = gen["item"][(v - 1) * ChunkSize + i]
                    /\ answers'[v][i].greedy = gen["greedy"][(v - 1) * ChunkSize + i]
  <2>1. /\ DOMAIN answers[v] \subseteq 1 .. ChunkSize
        /\ \A i \in DOMAIN answers[v] :
              /\ answers[v][i] \in Response
              /\ answers[v][i].item = gen["item"][(v - 1) * ChunkSize + i]
              /\ answers[v][i].greedy = gen["greedy"][(v - 1) * ChunkSize + i]
    BY <1>1, <1>2 DEF Answered
  <2>2. CASE v # w
    BY <1>8, <2>1, <2>2
  <2>3. CASE v = w
    BY <1>5, <1>6, <1>7, <1>8, <1>9, <2>1, <2>3
  <2> QED
    BY <2>2, <2>3
<1>12. Configured'
  BY <1>1, <1>2, <1>8 DEF Configured
<1>13. Answered'
  BY <1>1, <1>10, <1>11 DEF Answered
<1>14. Loaded'
  BY <1>1, <1>2 DEF Loaded, GenBatch
<1>15. Sampling' /\ Progress'
  BY <1>1, <1>2 DEF Sampling, Progress
<1> QED
  BY <1>1, <1>12, <1>13, <1>14, <1>15 DEF Inv, InHand

\* All workers have answered: the responses are gathered in the order of the
\* generation batch.
AllAnswered == stepPc = "generate" /\ \A w \in 1 .. Workers : DOMAIN answers[w] = 1 .. Size(ChunkOf(w))

LEMMA GatheredRows ==
    ASSUME Configured, Answered, GenRowsOK, AllAnswered
    PROVE  /\ Gathered \in Seq(Response) /\ Len(Gathered) = GenSize
           /\ \A i \in 1 .. GenSize :
                 /\ Gathered[i] \in Response
                 /\ Gathered[i].item = batch["item"][Source(i)]
                 /\ i <= BatchSize * RolloutN => ~Gathered[i].greedy
                 /\ i > BatchSize * RolloutN => Gathered[i].greedy
<1>1. ChunkSize \in Nat \ {0} /\ GenSize \in Nat \ {0} /\ GenSize = Workers * ChunkSize
  BY GenFacts
<1>2. Size(gen) = GenSize
  BY <1>1, Listed DEF GenRowsOK, Size
<1>3. Gathered = [i \in 1 .. GenSize |-> answers[GroupAt(i, ChunkSize)][PlaceIn(i, ChunkSize)]]
  BY <1>2 DEF Gathered, ChunkSize, GroupAt, PlaceIn
<1>4. ASSUME NEW i \in 1 .. GenSize
      PROVE  /\ Gathered[i] \in Response
             /\ Gathered[i].item = batch["item"][Source(i)]
             /\ Gathered[i].greedy = (i > BatchSize * RolloutN)
  <2>1. PICK w \in 1 .. Workers, j \in 1 .. ChunkSize :
           w = GroupAt(i, ChunkSize) /\ j = PlaceIn(i, ChunkSize) /\ (w - 1) * ChunkSize + j = i
    <3>1. Grouped(Workers, ChunkSize)
      BY <1>1, SizeFacts, InGroups
    <3>2. i \in 1 .. Workers * ChunkSize
      BY <1>1
    <3> QED
      BY <3>1, <3>2 DEF Grouped
  <2>2. Gathered[i] = answers[w][j]
    BY <1>3, <2>1
  <2>3. j \in DOMAIN answers[w]
    BY ChunkRows DEF AllAnswered
  <2>4. /\ answers[w][j] \in Response
        /\ answers[w][j].item = gen["item"][(w - 1) * ChunkSize + j]
        /\ answers[w][j].greedy = gen["greedy"][(w - 1) * ChunkSize + j]
    BY <2>3 DEF Answered, AllAnswered
  <2>5. gen["item"][i] = batch["item"][Source(i)] /\ gen["greedy"][i] = (i > BatchSize * RolloutN)
    BY DEF GenRowsOK
  <2>6. answers[w][j].item = gen["item"][i] /\ answers[w][j].greedy = gen["greedy"][i]
    BY <2>1, <2>4
  <2> QED
    BY <2>2, <2>4, <2>5, <2>6
<1>5. Gathered \in Seq(Response) /\ Len(Gathered) = GenSize
  <2>1. Gathered \in [1 .. GenSize -> Response]
    BY <1>3, <1>4
  <2>2. \A m \in Nat : \A g \in [1 .. m -> Response] : g \in Seq(Response) /\ Len(g) = m
    OBVIOUS
  <2> QED
    BY <1>1, <2>1, <2>2
<1>6. ASSUME NEW i \in 1 .. GenSize
      PROVE  /\ i <= BatchSize * RolloutN => ~Gathered[i].greedy
             /\ i > BatchSize * RolloutN => Gathered[i].greedy
  <2>1. PICK m \in Nat, n \in Nat : m = i /\ n = BatchSize * RolloutN
    BY <1>1, SizeFacts
  <2>2. Gathered[i].greedy = (m > n)
    BY <1>4, <2>1
  <2>3. m <= n => ~(m > n)
    OBVIOUS
  <2> QED
    BY <2>1, <2>2, <2>3
<1> QED
  BY <1>4, <1>5, <1>6

\* What Collect slices: the sampled responses and the baselines.
LEMMA SlicedRows ==
    ASSUME Configured, Answered, GenRowsOK, AllAnswered
    PROVE  /\ Sampled = [i \in Rows |-> Gathered[i]]
           /\ Remax => Baselines = [i \in 1 .. BatchSize |-> Gathered[BatchSize * RolloutN + i]]
<1> DEFINE G == Gathered
           n == BatchSize * RolloutN
<1>1. PICK g \in Nat : g = GenSize
  BY GenFacts
<1>2. G \in Seq(Response) /\ Len(G) = g
  BY <1>1, GatheredRows
<1>3. n \in Nat \ {0} /\ BatchSize \in Nat \ {0} /\ g = n + (IF Remax THEN BatchSize ELSE 0)
  BY <1>1, SizeFacts, GenFacts
<1>4. Sampled = SubSeq(G, 1, n) /\ Baselines = SubSeq(G, n + 1, g)
  BY <1>2 DEF Sampled, Baselines
<1>5. Rows = 1 .. n
  BY DEF Rows
<1> HIDE DEF G, n
<1>6. Sampled = [i \in 1 .. n |-> G[i]]
  <2>1. n <= g
    BY <1>3
  <2>2. SubSeq(G, 1, n) \in Seq(Response) /\ Len(SubSeq(G, 1, n)) = n /\ \A i \in 1 .. n : SubSeq(G, 1, n)[i] = G[i]
    BY <1>2, <1>3, <2>1
  <2>3. SubSeq(G, 1, n) = [i \in 1 .. n |-> SubSeq(G, 1, n)[i]]
    BY <2>2
  <2> QED
    BY <1>4, <2>2, <2>3
<1>7. ASSUME Remax PROVE Baselines = [i \in 1 .. BatchSize |-> G[n + i]]
  <2> DEFINE B == SubSeq(G, n + 1, g)
  <2>1. g = n + BatchSize
    BY <1>3, <1>7
  <2>2. B \in Seq(Response) /\ Len(B) = BatchSize /\ \A i \in 1 .. BatchSize : B[i] = G[n + i]
    BY <1>2, <1>3, <2>1
  <2>3. B = [i \in 1 .. BatchSize |-> B[i]]
    BY <2>2
  <2> HIDE DEF B
  <2> QED
    BY <1>4, <2>2, <2>3 DEF B
<1> QED
  BY <1>5, <1>6, <1>7 DEF G, n

\* Each item comes as often as it is repeated.
LEMMA RepeatedTimes ==
    ASSUME NEW s \in Seq(Items), Len(s) = BatchSize, IsInjective(s),
           NEW r, r = [i \in Rows |-> s[Origin(i)]]
    PROVE  /\ r \in Seq(Items) /\ Len(r) = BatchSize * RolloutN
           /\ \A i \in Rows : Times(r, r[i]) = RolloutN
<1> DEFINE n == BatchSize * RolloutN
<1>1. n \in Nat \ {0} /\ BatchSize \in Nat \ {0} /\ RolloutN \in Nat \ {0} /\ Rows = 1 .. n
  BY SizeFacts DEF Rows
<1>2. Grouped(BatchSize, RolloutN)
  BY <1>1, InGroups
<1>3. \A i \in Rows : Origin(i) \in 1 .. BatchSize /\ Origin(i) = GroupAt(i, RolloutN)
  BY OriginFacts
<1>4. r \in Seq(Items) /\ Len(r) = n
  <2>1. r \in [1 .. n -> Items]
    BY <1>1, <1>3
  <2>2. \A m \in Nat : \A g \in [1 .. m -> Items] : g \in Seq(Items) /\ Len(g) = m
    OBVIOUS
  <2> HIDE DEF n
  <2> QED
    BY <1>1, <2>1, <2>2
<1>5. ASSUME NEW i \in Rows PROVE Times(r, r[i]) = RolloutN
  <2>1. PICK o \in 1 .. BatchSize : o = Origin(i)
    BY <1>3
  <2> DEFINE K == {k \in 1 .. n : r[k] = r[i]}
             f == [j \in 1 .. RolloutN |-> (o - 1) * RolloutN + j]
  <2>2. \A k \in 1 .. n : k \in K <=> GroupAt(k, RolloutN) = o
    <3> SUFFICES ASSUME NEW k \in 1 .. n PROVE r[k] = r[i] <=> GroupAt(k, RolloutN) = o
      OBVIOUS
    <3>1. r[k] = s[Origin(k)] /\ r[i] = s[o] /\ Origin(k) \in 1 .. BatchSize /\ Origin(k) = GroupAt(k, RolloutN)
      BY <1>1, <1>3, <2>1
    <3>2. DOMAIN s = 1 .. BatchSize
      OBVIOUS
    <3>3. s[Origin(k)] = s[o] <=> Origin(k) = o
      BY <3>1, <3>2 DEF IsInjective
    <3> QED
      BY <3>1, <3>3
  <2>3. f \in Bijection(1 .. RolloutN, K)
    <3>1. /\ \A j \in 1 .. RolloutN : f[j] \in 1 .. n /\ GroupAt(f[j], RolloutN) = o /\ PlaceIn(f[j], RolloutN) = j
      BY <1>2 DEF Grouped
    <3>2. f \in [1 .. RolloutN -> K]
      <4>1. f = [j \in 1 .. RolloutN |-> f[j]]
        OBVIOUS
      <4> HIDE DEF f, K
      <4> QED
        BY <2>2, <3>1, <4>1
    <3>3. \A j, l \in 1 .. RolloutN : f[j] = f[l] => j = l
      <4> HIDE DEF f
      <4> QED
        BY <3>1
    <3>4. \A k \in K : \E j \in 1 .. RolloutN : f[j] = k
      <4> SUFFICES ASSUME NEW k \in K PROVE \E j \in 1 .. RolloutN : f[j] = k
        OBVIOUS
      <4>1. k \in 1 .. n /\ GroupAt(k, RolloutN) = o
        BY <2>2
      <4>2. PlaceIn(k, RolloutN) \in 1 .. RolloutN /\ (o - 1) * RolloutN + PlaceIn(k, RolloutN) = k
        BY <1>2, <4>1 DEF Grouped
      <4>3. f[PlaceIn(k, RolloutN)] = k
        BY <4>2
      <4> QED
        BY <4>2, <4>3
    <3> HIDE DEF f, K
    <3> QED
      BY <3>2, <3>3, <3>4 DEF Bijection, Injection, Surjection, IsInjective
  <2>4. IsFiniteSet(1 .. RolloutN) /\ Cardinality(1 .. RolloutN) = IF 1 > RolloutN THEN 0 ELSE RolloutN - 1 + 1
    BY <1>1, FS_Interval
  <2>5. Cardinality(1 .. RolloutN) = RolloutN
    BY <1>1, <2>4
  <2>6. Cardinality(K) = RolloutN
    <3> HIDE DEF f, K
    <3>1. ExistsBijection(1 .. RolloutN, K)
      BY <2>3 DEF ExistsBijection
    <3> QED
      BY <2>4, <2>5, <3>1, FS_Bijection
  <2> QED
    BY <1>4, <2>6 DEF Times
<1> QED
  BY <1>4, <1>5

\* The batch that Collect makes.
LEMMA CollectedRows ==
    ASSUME Configured, Loaded, Answered, AllAnswered, Collect
    PROVE  /\ DOMAIN batch' = {"item", "uid", "out"} \cup (IF Remax THEN {"baseline"} ELSE {})
           /\ batch' = [c \in DOMAIN batch' |-> batch'[c]]
           /\ batch'["item"] = [i \in Rows |-> batch["item"][Origin(i)]]
           /\ batch'["uid"] = [i \in Rows |-> batch["uid"][Origin(i)]]
           /\ batch'["out"] = [i \in Rows |-> Gathered[i]]
           /\ Remax => batch'["baseline"] = [i \in Rows |-> Gathered[BatchSize * RolloutN + Origin(i)]]
<1> DEFINE prompts == IF Remax THEN Union(batch, [baseline |-> Baselines]) ELSE batch
           rows == Repeat(prompts, RolloutN)
<1>1. batch' = Union(rows, [out |-> Sampled])
  BY DEF Collect, Remax
<1>2. /\ DOMAIN prompts = {"item", "uid"} \cup (IF Remax THEN {"baseline"} ELSE {})
      /\ prompts["item"] = batch["item"] /\ prompts["uid"] = batch["uid"]
      /\ Remax => prompts["baseline"] = Baselines
  <2>1. DOMAIN batch = {"item", "uid"}
    BY DEF Loaded
  <2>2. CASE ~Remax
    BY <2>1, <2>2
  <2>3. CASE Remax
    <3> DEFINE e == [baseline |-> Baselines]
    <3>1. DOMAIN e = {"baseline"} /\ e["baseline"] = Baselines
      OBVIOUS
    <3> HIDE DEF e
    <3>2. Union(batch, e) = [c \in {"item", "uid", "baseline"} |-> IF c = "baseline" THEN e["baseline"] ELSE batch[c]]
      BY <2>1, <3>1 DEF Union
    <3>3. prompts = Union(batch, e)
      BY <2>3 DEF e
    <3> HIDE DEF prompts
    <3> QED
      BY <2>3, <3>1, <3>2, <3>3
  <2> QED
    BY <2>2, <2>3
<1> HIDE DEF prompts
<1>3. rows = [c \in DOMAIN prompts |-> [i \in Rows |-> prompts[c][Origin(i)]]]
  <2>1. prompts["item"] \in Seq(Items) /\ Len(prompts["item"]) = BatchSize
    BY <1>2 DEF Loaded
  <2> QED
    BY <2>1, RepeatRows
<1> HIDE DEF rows
<1>4. GenRowsOK
  BY GenRows
<1>5. /\ Sampled = [i \in Rows |-> Gathered[i]]
      /\ Remax => Baselines = [i \in 1 .. BatchSize |-> Gathered[BatchSize * RolloutN + i]]
  BY <1>4, SlicedRows
<1> DEFINE o == [out |-> Sampled]
<1>6. DOMAIN o = {"out"} /\ o["out"] = Sampled
  OBVIOUS
<1> HIDE DEF o
<1>7. batch' = [c \in DOMAIN prompts \cup {"out"} |-> IF c = "out" THEN Sampled ELSE rows[c]]
  <2>1. batch' = Union(rows, o)
    BY <1>1 DEF o
  <2>2. DOMAIN rows = DOMAIN prompts
    BY <1>3
  <2> QED
    BY <1>6, <2>1, <2>2 DEF Union
<1>8. \A i \in Rows : Origin(i) \in 1 .. BatchSize
  BY OriginFacts
<1>9. ASSUME Remax PROVE batch'["baseline"] = [i \in Rows |-> Gathered[BatchSize * RolloutN + Origin(i)]]
  <2>1. batch'["baseline"] = [i \in Rows |-> Baselines[Origin(i)]]
    BY <1>2, <1>3, <1>7, <1>9
  <2>2. \A i \in Rows : Baselines[Origin(i)] = Gathered[BatchSize * RolloutN + Origin(i)]
    BY <1>5, <1>8, <1>9
  <2> QED
    BY <2>1, <2>2
<1>10. DOMAIN batch' = {"item", "uid", "out"} \cup (IF Remax THEN {"baseline"} ELSE {})
  BY <1>2, <1>7
<1>11. /\ batch'["item"] = [i \in Rows |-> batch["item"][Origin(i)]]
       /\ batch'["uid"] = [i \in Rows |-> batch["uid"][Origin(i)]]
  BY <1>2, <1>3, <1>7
<1>12. batch'["out"] = [i \in Rows |-> Gathered[i]]
  BY <1>5, <1>7
<1>13. batch' = [c \in DOMAIN batch' |-> batch'[c]]
  BY <1>7
<1> QED
  BY <1>9, <1>10, <1>11, <1>12, <1>13

LEMMA CollectInv == Inv /\ Collect => Inv'
<1> SUFFICES ASSUME Inv, Collect PROVE Inv'
  OBVIOUS
<1>1. /\ stepPc = "generate" /\ stepPc' = "balance"
      /\ config' = config /\ stepEpoch' = stepEpoch /\ order' = order /\ lastUid' = lastUid
      /\ gen' = gen /\ answers' = answers /\ trained' = trained /\ AllAnswered
  BY DEF Collect, AllAnswered
<1>2. Configured /\ Answered /\ Sampling /\ Progress /\ Loaded
  BY <1>1 DEF Inv
<1>3. GenRowsOK
  BY <1>2, GenRows
<1> DEFINE N == BatchSize * RolloutN
           B == batch'
<1>4. /\ DOMAIN B = {"item", "uid", "out"} \cup (IF Remax THEN {"baseline"} ELSE {})
      /\ B["item"] = [i \in Rows |-> batch["item"][Origin(i)]]
      /\ B["uid"] = [i \in Rows |-> batch["uid"][Origin(i)]]
      /\ B["out"] = [i \in Rows |-> Gathered[i]]
      /\ Remax => B["baseline"] = [i \in Rows |-> Gathered[N + Origin(i)]]
      /\ B = [c \in DOMAIN B |-> B[c]]
  BY <1>1, <1>2, CollectedRows
<1> HIDE DEF B
<1>5. /\ B["item"] \in Seq(Items) /\ \A i \in Rows : Times(B["item"], B["item"][i]) = RolloutN
      /\ Len(B["item"]) = N
  <2>1. PICK s \in Seq(Items) : s = batch["item"] /\ Len(s) = BatchSize /\ IsInjective(s)
    BY <1>2 DEF Loaded
  <2>2. PICK r : r = B["item"]
    OBVIOUS
  <2>3. r = [i \in Rows |-> s[Origin(i)]]
    BY <1>4, <2>1, <2>2
  <2>4. /\ r \in Seq(Items) /\ Len(r) = BatchSize * RolloutN
        /\ \A i \in Rows : Times(r, r[i]) = RolloutN
    BY <2>1, <2>3, RepeatedTimes
  <2> QED
    BY <2>2, <2>4
<1>6. /\ N \in Nat \ {0} /\ BatchSize \in Nat \ {0} /\ GenSize \in Nat
      /\ GenSize = N + (IF Remax THEN BatchSize ELSE 0) /\ Rows = 1 .. N
      /\ \A i \in Rows : Origin(i) \in 1 .. BatchSize /\ Source(i) = Origin(i)
  BY <1>2, SizeFacts, GenFacts, OriginFacts DEF Rows
<1>7. \A i \in 1 .. GenSize :
         /\ Gathered[i] \in Response
         /\ Gathered[i].item = batch["item"][Source(i)]
         /\ i <= N => ~Gathered[i].greedy
         /\ i > N => Gathered[i].greedy
  BY <1>1, <1>2, <1>3, GatheredRows
<1>8. ASSUME NEW i \in Rows
      PROVE  B["out"][i] \in Response /\ B["out"][i].item = B["item"][i] /\ ~B["out"][i].greedy
  <2>1. i \in 1 .. GenSize /\ i <= N
    <3> HIDE DEF N
    <3> QED
      BY <1>6
  <2> QED
    BY <1>4, <1>6, <1>7, <2>1
<1>9. ASSUME Remax, NEW i \in Rows
      PROVE  B["baseline"][i] \in Response /\ B["baseline"][i].item = B["item"][i] /\ B["baseline"][i].greedy
  <2>1. PICK o \in 1 .. BatchSize : o = Origin(i)
    BY <1>6
  <2>2. N + o \in 1 .. GenSize /\ N + o > N /\ N + o \notin 1 .. N /\ (N + o) - N = o
    <3> HIDE DEF N
    <3> QED
      BY <1>6, <1>9
  <2>3. Source(N + o) = o
    <3>1. N + o \notin Rows
      BY <1>6, <2>2
    <3> QED
      BY <2>2, <3>1 DEF Source
  <2>4. B["baseline"][i] = Gathered[N + o] /\ B["item"][i] = batch["item"][o]
    BY <1>4, <1>9, <2>1
  <2> QED
    BY <1>7, <2>2, <2>3, <2>4
<1>10. ASSUME NEW i \in Rows, NEW j \in Rows PROVE B["uid"][i] = B["uid"][j] <=> B["item"][i] = B["item"][j]
  <2>1. PICK o \in 1 .. BatchSize, p \in 1 .. BatchSize : o = Origin(i) /\ p = Origin(j)
    BY <1>6
  <2>2. /\ B["uid"][i] = batch["uid"][o] /\ B["uid"][j] = batch["uid"][p]
        /\ B["item"][i] = batch["item"][o] /\ B["item"][j] = batch["item"][p]
    BY <1>4, <2>1
  <2>3. DOMAIN batch["uid"] = 1 .. BatchSize /\ DOMAIN batch["item"] = 1 .. BatchSize
    BY <1>2 DEF Loaded
  <2>4. (batch["uid"][o] = batch["uid"][p] <=> o = p) /\ (batch["item"][o] = batch["item"][p] <=> o = p)
    BY <1>2, <2>3 DEF Loaded, IsInjective
  <2> QED
    BY <2>2, <2>4
<1>11. Columns' = DOMAIN B /\ Remax' = Remax
  BY <1>1, <1>4 DEF Columns, Remax
<1>12. Aligned'
  <2>1. (\A c \in DOMAIN B : B[c] = [i \in Rows |-> B[c][i]]) /\ B = [c \in DOMAIN B |-> B[c]]
    BY <1>4
  <2>2. stepPc' # "update"
    BY <1>1
  <2> QED
    BY <1>5, <1>8, <1>9, <1>10, <1>11, <2>1, <2>2 DEF Aligned, B
<1>13. Sampling'
  <2>1. \A x \in ToSet(B["item"]) : x \in ToSet(batch["item"])
    <3>1. DOMAIN B["item"] = Rows /\ DOMAIN batch["item"] = 1 .. BatchSize
      BY <1>2, <1>4 DEF Loaded
    <3>2. /\ ToSet(B["item"]) = {B["item"][i] : i \in Rows}
          /\ ToSet(batch["item"]) = {batch["item"][i] : i \in 1 .. BatchSize}
      BY <3>1 DEF ToSet
    <3>3. ASSUME NEW i \in Rows PROVE B["item"][i] \in ToSet(batch["item"])
      <4>1. Origin(i) \in 1 .. BatchSize /\ B["item"][i] = batch["item"][Origin(i)]
        BY <1>4, <1>6
      <4> QED
        BY <3>2, <4>1
    <3> QED
      BY <3>2, <3>3
  <2>2. \A x \in ToSet(B["item"]) : x \notin ToSet(order) /\ x \notin ToSet(trained)
    BY <1>1, <1>2, <2>1 DEF Sampling
  <2> QED
    BY <1>1, <1>2, <2>2 DEF Sampling, B
<1>14. Progress'
  BY <1>1, <1>2 DEF Progress
<1>15. Configured' /\ Answered'
  BY <1>1, <1>2 DEF Configured, Answered
<1>16. \A c \in DOMAIN gen' : Len(gen'[c]) = Size(gen')
  BY <1>1, <1>3, <1>6, Listed DEF GenRowsOK, Size
<1> QED
  BY <1>1, <1>12, <1>13, <1>14, <1>15, <1>16 DEF Inv, InHand

\* An order of the rows.
LEMMA GlobalIdxFacts ==
    ASSUME Aligned, NEW s \in GlobalIdx
    PROVE  Len(batch["item"]) = BatchSize * RolloutN /\ s \in Bijection(Rows, Rows)
<1> DEFINE n == BatchSize * RolloutN
<1>1. n \in Nat \ {0} /\ Rows = 1 .. n
  BY SizeFacts DEF Rows
<1> HIDE DEF n
<1>2. Len(batch["item"]) = n
  BY <1>1, Listed DEF Aligned, Columns
<1>3. s \in SetToSeqs(1 .. n)
  BY <1>2 DEF GlobalIdx, Size
<1>4. IsFiniteSet(1 .. n) /\ Cardinality(1 .. n) = IF 1 > n THEN 0 ELSE n - 1 + 1
  BY <1>1, FS_Interval
<1>5. Cardinality(1 .. n) = n
  BY <1>1, <1>4
<1>6. s \in [1 .. n -> 1 .. n] /\ \A i, j \in 1 .. n : i # j => s[i] # s[j]
  BY <1>3, <1>5 DEF SetToSeqs
<1>7. s \in Injection(1 .. n, 1 .. n)
  BY <1>6 DEF Injection, IsInjective
<1>8. s \in Surjection(1 .. n, 1 .. n)
  BY <1>4, <1>7, FS_Injection
<1> QED
  BY <1>1, <1>2, <1>7, <1>8 DEF Bijection, n

LEMMA BalanceBatchInv == Inv /\ BalanceBatch => Inv'
<1> SUFFICES ASSUME Inv, BalanceBatch PROVE Inv'
  OBVIOUS
<1>1. /\ stepPc = "balance" /\ stepPc' = "advantage"
      /\ config' = config /\ stepEpoch' = stepEpoch /\ order' = order /\ lastUid' = lastUid
      /\ gen' = gen /\ answers' = answers /\ trained' = trained
  BY DEF BalanceBatch
<1>2. Configured /\ Answered /\ Sampling /\ Progress /\ Aligned /\ \A c \in DOMAIN gen : Len(gen[c]) = Size(gen)
  BY <1>1 DEF Inv, InHand
<1> DEFINE n == BatchSize * RolloutN
           B == batch'
<1>3. n \in Nat \ {0} /\ Rows = 1 .. n /\ Columns = {"item", "uid", "out"} \cup (IF Remax THEN {"baseline"} ELSE {})
  BY <1>1, SizeFacts DEF Rows, Columns
<1>4. PICK p \in Bijection(Rows, Rows) : B = [c \in Columns |-> [i \in Rows |-> batch[c][p[i]]]]
  <2>1. CASE config.balance
    <3>1. PICK s \in GlobalIdx : batch' = Selected(batch, s)
      BY <2>1 DEF BalanceBatch, Reorder
    <3>2. s \in Bijection(Rows, Rows)
      BY <1>2, <3>1, GlobalIdxFacts
    <3>3. s = [i \in 1 .. n |-> s[i]]
      BY <1>3, <3>2 DEF Bijection, Injection
    <3>4. Len(s) = n
      BY <1>3, <3>3, Listed
    <3>5. DOMAIN batch = Columns
      BY <1>2 DEF Aligned
    <3>6. batch' = [c \in Columns |-> [i \in Rows |-> batch[c][s[i]]]]
      BY <1>3, <3>1, <3>4, <3>5 DEF Selected
    <3> QED
      BY <3>2, <3>6
  <2>2. CASE ~config.balance
    <3> DEFINE id == [i \in Rows |-> i]
    <3>1. id \in Bijection(Rows, Rows)
      BY DEF Bijection, Injection, Surjection, IsInjective
    <3>2. batch' = batch
      BY <2>2 DEF BalanceBatch
    <3>3. batch = [c \in Columns |-> [i \in Rows |-> batch[c][id[i]]]]
      <4>1. \A c \in Columns : [i \in Rows |-> batch[c][id[i]]] = batch[c]
        BY <1>2 DEF Aligned
      <4>2. batch = [c \in Columns |-> batch[c]]
        BY <1>2 DEF Aligned
      <4> QED
        BY <4>1, <4>2
    <3> QED
      BY <3>1, <3>2, <3>3
  <2> QED
    BY <2>1, <2>2
<1> HIDE DEF B
<1>5. /\ \A i \in Rows : p[i] \in Rows
      /\ \A c \in Columns : \A i \in Rows : B[c][i] = batch[c][p[i]]
      /\ DOMAIN B = Columns /\ B = [c \in Columns |-> B[c]]
      /\ \A c \in Columns : B[c] = [i \in Rows |-> B[c][i]]
  BY <1>4 DEF Bijection, Injection
<1>6. {"item", "uid", "out"} \subseteq Columns /\ (Remax => "baseline" \in Columns)
  BY <1>3
<1>7. /\ B["item"] = [i \in Rows |-> batch["item"][p[i]]]
      /\ batch["item"] \in Seq(Items) /\ Len(batch["item"]) = n
  <2>1. batch["item"] = [i \in 1 .. n |-> batch["item"][i]]
    BY <1>2, <1>3 DEF Aligned
  <2>2. Len(batch["item"]) = n
    BY <1>3, <2>1, Listed
  <2> QED
    BY <1>2, <1>4, <1>6, <2>2 DEF Aligned
<1>8. B["item"] \in Seq(Items)
  <2>1. \A i \in Rows : batch["item"][i] \in Items
    BY <1>3, <1>7
  <2>2. B["item"] \in [1 .. n -> Items]
    BY <1>3, <1>5, <1>7, <2>1
  <2>3. \A m \in Nat : \A g \in [1 .. m -> Items] : g \in Seq(Items)
    OBVIOUS
  <2> QED
    BY <1>3, <2>2, <2>3
<1>9. \A x : Times(B["item"], x) = Times(batch["item"], x)
  BY <1>3, <1>4, <1>7, TimesReordered
<1>10. Columns' = Columns /\ Remax' = Remax
  BY <1>1 DEF Columns, Remax
<1>11. Aligned'
  <2>1. \A i \in Rows :
           /\ B["out"][i] \in Response /\ B["out"][i].item = B["item"][i] /\ ~B["out"][i].greedy
           /\ Remax => /\ B["baseline"][i] \in Response
                       /\ B["baseline"][i].item = B["item"][i] /\ B["baseline"][i].greedy
    <3> SUFFICES ASSUME NEW i \in Rows
                 PROVE  /\ B["out"][i] \in Response /\ B["out"][i].item = B["item"][i] /\ ~B["out"][i].greedy
                        /\ Remax => /\ B["baseline"][i] \in Response
                                    /\ B["baseline"][i].item = B["item"][i] /\ B["baseline"][i].greedy
      OBVIOUS
    <3>1. PICK k \in Rows : k = p[i]
      BY <1>5
    <3>2. /\ B["out"][i] = batch["out"][k] /\ B["item"][i] = batch["item"][k]
          /\ Remax => B["baseline"][i] = batch["baseline"][k]
      BY <1>5, <1>6, <3>1
    <3>3. /\ batch["out"][k] \in Response /\ batch["out"][k].item = batch["item"][k] /\ ~batch["out"][k].greedy
          /\ Remax => /\ batch["baseline"][k] \in Response
                      /\ batch["baseline"][k].item = batch["item"][k] /\ batch["baseline"][k].greedy
      BY <1>2 DEF Aligned
    <3> QED
      BY <3>2, <3>3
  <2>2. \A i, j \in Rows : B["uid"][i] = B["uid"][j] <=> B["item"][i] = B["item"][j]
    <3> SUFFICES ASSUME NEW i \in Rows, NEW j \in Rows
                 PROVE  B["uid"][i] = B["uid"][j] <=> B["item"][i] = B["item"][j]
      OBVIOUS
    <3>1. PICK k \in Rows, l \in Rows : k = p[i] /\ l = p[j]
      BY <1>5
    <3>2. /\ B["uid"][i] = batch["uid"][k] /\ B["uid"][j] = batch["uid"][l]
          /\ B["item"][i] = batch["item"][k] /\ B["item"][j] = batch["item"][l]
      BY <1>5, <1>6, <3>1
    <3>3. batch["uid"][k] = batch["uid"][l] <=> batch["item"][k] = batch["item"][l]
      BY <1>2 DEF Aligned
    <3> QED
      BY <3>2, <3>3
  <2>3. \A i \in Rows : Times(B["item"], B["item"][i]) = RolloutN
    BY <1>2, <1>5, <1>6, <1>9 DEF Aligned
  <2>4. stepPc' # "update"
    BY <1>1
  <2> QED
    BY <1>5, <1>8, <1>10, <2>1, <2>2, <2>3, <2>4 DEF Aligned, B
<1>12. Sampling'
  <2>1. \A x \in ToSet(B["item"]) : x \in ToSet(batch["item"])
    <3>1. DOMAIN B["item"] = Rows /\ DOMAIN batch["item"] = Rows
      BY <1>3, <1>7
    <3> QED
      BY <1>5, <1>7, <3>1 DEF ToSet
  <2> QED
    BY <1>1, <1>2, <2>1 DEF Sampling, B
<1>13. Progress'
  BY <1>1, <1>2 DEF Progress
<1>14. Configured' /\ Answered'
  BY <1>1, <1>2 DEF Configured, Answered
<1> QED
  BY <1>1, <1>2, <1>11, <1>12, <1>13, <1>14 DEF Inv, InHand, Size

LEMMA ComputeAdvantageInv == Inv /\ ComputeAdvantage => Inv'
<1> SUFFICES ASSUME Inv, ComputeAdvantage PROVE Inv'
  OBVIOUS
<1> DEFINE n == BatchSize * RolloutN
           B == batch'
           adv == [advantages |-> [i \in 1 .. Size(batch) |-> Advantage(i)]]
<1>1. /\ stepPc = "advantage" /\ stepPc' = "update" /\ batch' = Union(batch, adv)
      /\ config' = config /\ stepEpoch' = stepEpoch /\ order' = order /\ lastUid' = lastUid
      /\ gen' = gen /\ answers' = answers /\ trained' = trained
  BY DEF ComputeAdvantage
<1>2. Configured /\ Answered /\ Sampling /\ Progress /\ Aligned /\ \A c \in DOMAIN gen : Len(gen[c]) = Size(gen)
  BY <1>1 DEF Inv, InHand
<1>3. /\ n \in Nat \ {0} /\ Rows = 1 .. n
      /\ Columns = {"item", "uid", "out"} \cup (IF Remax THEN {"baseline"} ELSE {})
      /\ Columns' = Columns \cup {"advantages"} /\ Remax' = Remax
  BY <1>1, SizeFacts DEF Rows, Columns, Remax
<1>4. Size(batch) = n
  <2>1. batch["item"] = [i \in 1 .. n |-> batch["item"][i]]
    BY <1>2, <1>3 DEF Aligned
  <2> QED
    BY <1>3, <2>1, Listed DEF Size
<1>5. DOMAIN adv = {"advantages"} /\ adv["advantages"] = [i \in Rows |-> Advantage(i)]
  BY <1>3, <1>4
<1> HIDE DEF adv
<1>6. B = [c \in Columns \cup {"advantages"} |-> IF c = "advantages" THEN [i \in Rows |-> Advantage(i)] ELSE batch[c]]
  BY <1>1, <1>2, <1>5 DEF Union, Aligned
<1>7. /\ DOMAIN B = Columns' /\ B = [c \in Columns' |-> B[c]]
      /\ \A c \in Columns : B[c] = batch[c]
      /\ B["advantages"] = [i \in Rows |-> Advantage(i)]
  BY <1>3, <1>6
<1>8. /\ B["item"] = batch["item"] /\ B["uid"] = batch["uid"] /\ B["out"] = batch["out"]
      /\ Remax => B["baseline"] = batch["baseline"]
  BY <1>3, <1>7
<1>9. \A i \in Rows : Advantage(i)' = Advantage(i)
  <2>1. Size(batch)' = Size(batch) /\ Scores' = Scores
    BY <1>8 DEF Size, Scores, B
  <2> SUFFICES ASSUME NEW i \in Rows PROVE Advantage(i)' = Advantage(i)
    OBVIOUS
  <2>2. GroupOf(i)' = GroupOf(i)
    BY <1>8, <2>1 DEF GroupOf, B
  <2>3. CASE Remax
    <3>1. config.estimator = "remax" /\ config'.estimator = "remax"
      BY <1>1, <2>3 DEF Remax
    <3>2. Advantage(i) = [num |-> Scores[i] - batch["baseline"][i].score, den |-> 1]
      BY <3>1 DEF Advantage
    <3>3. Advantage(i)' = [num |-> Scores'[i] - batch'["baseline"][i].score, den |-> 1]
      BY <3>1 DEF Advantage
    <3> QED
      BY <1>8, <2>1, <2>3, <3>2, <3>3 DEF B
  <2>4. CASE ~Remax
    <3>1. config.estimator # "remax" /\ config'.estimator # "remax"
      BY <1>1, <2>4 DEF Remax
    <3>2. Advantage(i) = IF Cardinality(GroupOf(i)) = 1 THEN [num |-> Scores[i], den |-> 1]
                         ELSE [num |-> Cardinality(GroupOf(i)) * Scores[i] - SumOver(Scores, GroupOf(i)),
                               den |-> Cardinality(GroupOf(i))]
      BY <3>1 DEF Advantage
    <3>3. Advantage(i)' = IF Cardinality(GroupOf(i)') = 1 THEN [num |-> Scores'[i], den |-> 1]
                          ELSE [num |-> Cardinality(GroupOf(i)') * Scores'[i] - SumOver(Scores', GroupOf(i)'),
                                den |-> Cardinality(GroupOf(i)')]
      BY <3>1 DEF Advantage
    <3> QED
      BY <2>1, <2>2, <3>2, <3>3
  <2> QED
    BY <2>3, <2>4
<1>10. Aligned'
  <2>1. \A c \in Columns' : B[c] = [i \in Rows |-> B[c][i]]
    <3> SUFFICES ASSUME NEW c \in Columns' PROVE B[c] = [i \in Rows |-> B[c][i]]
      OBVIOUS
    <3>1. CASE c \in Columns
      BY <1>2, <1>7, <3>1 DEF Aligned
    <3>2. CASE c = "advantages"
      BY <1>7, <3>2
    <3> QED
      BY <1>3, <3>1, <3>2
  <2>2. \A i \in Rows : B["advantages"][i] = Advantage(i)'
    BY <1>7, <1>9
  <2>3. B["item"] \in Seq(Items) /\ \A i \in Rows : Times(B["item"], B["item"][i]) = RolloutN
    BY <1>2, <1>8 DEF Aligned
  <2>4. \A i \in Rows :
           /\ B["out"][i] \in Response /\ B["out"][i].item = B["item"][i] /\ ~B["out"][i].greedy
           /\ Remax => /\ B["baseline"][i] \in Response
                       /\ B["baseline"][i].item = B["item"][i] /\ B["baseline"][i].greedy
    BY <1>2, <1>8 DEF Aligned
  <2>5. \A i, j \in Rows : B["uid"][i] = B["uid"][j] <=> B["item"][i] = B["item"][j]
    <3>1. \A i, j \in Rows : batch["uid"][i] = batch["uid"][j] <=> batch["item"][i] = batch["item"][j]
      BY <1>2 DEF Aligned
    <3>2. B["uid"] = batch["uid"] /\ B["item"] = batch["item"]
      BY <1>8
    <3> HIDE DEF B
    <3> QED
      BY <3>1, <3>2, Zenon
  <2> QED
    BY <1>3, <1>7, <2>1, <2>2, <2>3, <2>4, <2>5 DEF Aligned, B
<1>11. Sampling'
  BY <1>1, <1>2, <1>8 DEF Sampling, B
<1>12. Progress'
  BY <1>1, <1>2 DEF Progress
<1>13. Configured' /\ Answered'
  BY <1>1, <1>2 DEF Configured, Answered
<1> QED
  BY <1>1, <1>2, <1>10, <1>11, <1>12, <1>13 DEF Inv, InHand, Size

LEMMA UpdateInv == Inv /\ Update => Inv'
<1> SUFFICES ASSUME Inv, Update PROVE Inv'
  OBVIOUS
<1> DEFINE t == batch["item"]
           n == BatchSize * RolloutN
<1>1. /\ stepPc = "update" /\ stepPc' = "load" /\ trained' = trained \o t /\ batch' = <<>> /\ gen' = <<>>
      /\ answers' = [w \in 1 .. Workers |-> <<>>]
      /\ config' = config /\ stepEpoch' = stepEpoch /\ order' = order /\ lastUid' = lastUid
  BY DEF Update
<1>2. Configured /\ Sampling /\ Progress /\ Aligned
  BY <1>1 DEF Inv, InHand
<1>3. n \in Nat \ {0} /\ Rows = 1 .. n
  BY SizeFacts DEF Rows
<1>4. t \in Seq(Items) /\ Len(t) = n /\ \A i \in Rows : Times(t, t[i]) = RolloutN
  <2>1. t = [i \in 1 .. n |-> t[i]]
    BY <1>2, <1>3 DEF Aligned, Columns
  <2>2. Len(t) = n
    BY <1>3, <2>1, Listed
  <2> QED
    BY <1>2, <2>2 DEF Aligned
<1>5. trained \in Seq(Items) /\ trained' \in Seq(Items) /\ Len(trained') = Len(trained) + n /\ Len(trained) \in Nat
  BY <1>1, <1>2, <1>4 DEF Sampling
<1>6. ToSet(t) = {t[i] : i \in Rows}
  <2>1. DOMAIN t = Rows
    BY <1>3, <1>4
  <2> QED
    BY <2>1 DEF ToSet
<1> HIDE DEF t
<1>7. \A x \in ToSet(t) : x \notin ToSet(order) /\ x \notin ToSet(trained)
  BY <1>1, <1>2 DEF Sampling, t
<1>8. ASSUME NEW x \in Items PROVE Times(trained', x) \in {0, RolloutN}
  <2>1. CASE x \in ToSet(t)
    <3>1. Times(trained', x) = Times(t, x)
      BY <1>1, <1>4, <1>5, <1>7, <2>1, TimesJoined
    <3>2. Times(t, x) = RolloutN
      BY <1>4, <1>6, <2>1
    <3> QED
      BY <3>1, <3>2
  <2>2. CASE x \notin ToSet(t)
    <3>1. Times(trained', x) = Times(trained, x)
      BY <1>1, <1>4, <1>5, <2>2, TimesJoined
    <3> QED
      BY <1>2, <3>1 DEF Sampling
  <2> QED
    BY <2>1, <2>2
<1>9. ASSUME NEW x \in ToSet(order) PROVE x \notin ToSet(trained')
  <2>1. x \notin ToSet(t) /\ x \notin ToSet(trained)
    BY <1>2, <1>7 DEF Sampling
  <2>2. Times(trained', x) = Times(trained, x)
    BY <1>1, <1>4, <1>5, <2>1, TimesJoined
  <2>3. Times(trained, x) = 0
    BY <1>5, <2>1, TimesType
  <2>4. Times(trained', x) = 0 <=> x \notin ToSet(trained')
    BY <1>5, TimesType
  <2> QED
    BY <2>2, <2>3, <2>4
<1>10. Sampling'
  BY <1>1, <1>2, <1>5, <1>8, <1>9 DEF Sampling
<1>11. Progress'
  <2>1. stepEpoch \in Nat /\ stepEpoch > 0
    <3>1. stepEpoch \in Nat /\ stepEpoch # 0
      BY <1>1, <1>2, SizesAssumption DEF Progress
    <3> QED
      BY <3>1
  <2>2. PICK q \in 0 .. 2 * Prompts : /\ Len(order) + BatchSize * q = 2 * Prompts
                                      /\ Len(trained) = RolloutN * BatchSize * (q - 1)
    BY <1>1, <1>2, <2>1 DEF Progress
  <2>3. Len(trained') = RolloutN * BatchSize * q
    <3>1. PICK a \in Nat, b \in Nat, c \in Int : a = RolloutN /\ b = BatchSize /\ c = q
      BY SizeFacts, ItemFacts
    <3>2. a * b * (c - 1) + b * a = a * b * c
      <4>1. PICK m \in Nat : m = a * b
        OBVIOUS
      <4>2. m * (c - 1) + m = m * c
        OBVIOUS
      <4>3. b * a = m
        BY <4>1
      <4> QED
        BY <4>1, <4>2, <4>3
    <3> QED
      BY <1>5, <2>2, <3>1, <3>2
  <2> QED
    BY <1>1, <1>2, <2>1, <2>2, <2>3 DEF Progress
<1>12. Configured' /\ Answered'
  BY <1>1, <1>2 DEF Configured, Answered
<1> QED
  BY <1>1, <1>10, <1>11, <1>12 DEF Inv, InHand

LEMMA StutterInv == Inv /\ UNCHANGED stepVars => Inv'
<1> SUFFICES ASSUME Inv, UNCHANGED stepVars PROVE Inv'
  OBVIOUS
<1>1. /\ config' = config /\ stepPc' = stepPc /\ stepEpoch' = stepEpoch /\ order' = order /\ lastUid' = lastUid
      /\ batch' = batch /\ gen' = gen /\ answers' = answers /\ trained' = trained
  BY DEF stepVars
<1>2. Configured' /\ Sampling' /\ Progress'
  BY <1>1 DEF Inv, Configured, Sampling, Progress
<1>3. Answered'
  BY <1>1 DEF Inv, Answered, ChunkSize, GenSize, Remax
<1>4. Loaded' = Loaded
  BY <1>1 DEF Loaded, GenBatch
<1>5. InHand' = InHand
  BY <1>1 DEF InHand
<1>6. Aligned => Aligned'
  <2>1. Columns' = Columns /\ Remax' = Remax
    BY <1>1 DEF Columns, Remax
  <2>2. \A i : Advantage(i)' = Advantage(i)
    BY <1>1 DEF Advantage, GroupOf, Scores, Size
  <2> QED
    BY <1>1, <2>1, <2>2 DEF Aligned
<1> QED
  BY <1>1, <1>2, <1>3, <1>4, <1>5, <1>6 DEF Inv, Size

\* The inductive invariant holds.
THEOREM Invariant == StepSpec => []Inv
<1>1. ASSUME Inv, [StepNext]_stepVars PROVE Inv'
  BY <1>1, StartEpochInv, LoadBatchInv, AnswerInv, CollectInv, BalanceBatchInv, ComputeAdvantageInv, UpdateInv,
     StutterInv DEF StepNext
<1> QED
  BY <1>1, InitInv, PTL DEF StepSpec

-----------------------------------------------------------------------------
(* What follows for the properties                                         *)

\* The columns of a batch with responses have one length.
LEMMA HeldRows ==
    ASSUME Inv, InHand
    PROVE  /\ Aligned /\ Size(batch) = BatchSize * RolloutN /\ Rows = 1 .. Size(batch)
           /\ \A c \in DOMAIN batch : Len(batch[c]) = Size(batch)
<1> DEFINE n == BatchSize * RolloutN
<1>1. Aligned /\ n \in Nat /\ Rows = 1 .. n
  BY SizeFacts DEF Inv, Rows
<1>2. \A c \in Columns : batch[c] = [i \in 1 .. n |-> batch[c][i]]
  BY <1>1 DEF Aligned
<1> HIDE DEF n
<1>3. \A c \in Columns : Len(batch[c]) = n
  BY <1>1, <1>2, Listed
<1>4. "item" \in Columns /\ DOMAIN batch = Columns
  BY <1>1 DEF Aligned, Columns
<1>5. Size(batch) = n
  BY <1>3, <1>4 DEF Size
<1> QED
  BY <1>1, <1>3, <1>4, <1>5 DEF n

\* Every variable has its type, the columns of a DataProto one length.
THEOREM TypesKept == StepSpec => []StepTypeOK
<1>1. ASSUME Inv PROVE StepTypeOK
  <2>1. \A c \in DOMAIN batch : Len(batch[c]) = Size(batch)
    <3>1. CASE stepPc = "load"
      BY <1>1, <3>1 DEF Inv
    <3>2. CASE stepPc = "generate"
      <4>1. DOMAIN batch = {"item", "uid"} /\ Len(batch["item"]) = BatchSize /\ Len(batch["uid"]) = BatchSize
        BY <1>1, <3>2 DEF Inv, Loaded
      <4> QED
        BY <4>1 DEF Size
    <3>3. CASE InHand
      BY <1>1, <3>3, HeldRows
    <3> QED
      BY <1>1, <3>1, <3>2, <3>3 DEF Inv, Configured, InHand
  <2>2. \A c \in DOMAIN gen : Len(gen[c]) = Size(gen)
    <3>1. CASE stepPc = "load"
      BY <1>1, <3>1 DEF Inv
    <3>2. CASE stepPc = "generate"
      <4>1. Configured /\ GenRowsOK
        BY <1>1, <3>2, GenRows DEF Inv
      <4>2. GenSize \in Nat
        BY <4>1, GenFacts
      <4>3. \A c \in DOMAIN gen : Len(gen[c]) = GenSize
        BY <4>1, <4>2, Listed DEF GenRowsOK
      <4> QED
        BY <4>1, <4>3 DEF GenRowsOK, Size
    <3>3. CASE InHand
      BY <1>1, <3>3 DEF Inv
    <3> QED
      BY <1>1, <3>1, <3>2, <3>3 DEF Inv, Configured, InHand
  <2>3. \A w \in 1 .. Workers : \A j \in DOMAIN answers[w] : answers[w][j] \in Response
    BY <1>1 DEF Inv, Answered
  <2> QED
    BY <1>1, <2>1, <2>2, <2>3 DEF Inv, StepTypeOK, Configured, Sampling, Progress
<1> QED
  BY <1>1, Invariant, PTL

\* Rows stay whole from generation to the update: each row of the batch has a
\* response to its own item, the baseline of that item, and a uid it shares
\* with the rollouts of that item only.
THEOREM RowsAligned == StepSpec => []ColumnsAligned
<1>1. ASSUME Inv PROVE ColumnsAligned
  <2> SUFFICES ASSUME InHand PROVE ColumnsAligned
    BY DEF ColumnsAligned, InHand
  <2>1. Aligned /\ Size(batch) = BatchSize * RolloutN /\ Rows = 1 .. Size(batch)
    BY <1>1, HeldRows
  <2> QED
    BY <2>1 DEF Aligned, ColumnsAligned, Remax
<1> QED
  BY <1>1, Invariant, PTL

\* The GRPO advantages are those of the group of an item's responses, wherever
\* balancing put them, and cancel out within it.
THEOREM OrderIgnored == StepSpec => []AdvantageIgnoresOrder
<1>1. ASSUME Inv PROVE AdvantageIgnoresOrder
  <2> SUFFICES ASSUME stepPc = "update", config.estimator = "grpo", NEW i \in 1 .. Size(batch)
               PROVE  LET same == {j \in 1 .. Size(batch) : batch["out"][j].item = batch["item"][i]}
                      IN  /\ RolloutN > 1 =>
                                /\ batch["advantages"][i].num * RolloutN =
                                      batch["advantages"][i].den * (RolloutN * Scores[i] - SumOver(Scores, same))
                                /\ SumOver([j \in same |-> batch["advantages"][j].num], same) = 0
                          /\ RolloutN = 1 => batch["advantages"][i] = [num |-> Scores[i], den |-> 1]
    BY Zenon DEF AdvantageIgnoresOrder
  <2> DEFINE n == BatchSize * RolloutN
             same == {j \in 1 .. Size(batch) : batch["out"][j].item = batch["item"][i]}
             sum == SumOver(Scores, same)
  <2>1. Aligned /\ Size(batch) = n /\ Rows = 1 .. Size(batch) /\ Rows = 1 .. n /\ n \in Nat
    BY <1>1, HeldRows, SizeFacts DEF InHand
  <2>2. \A j \in Rows : /\ batch["out"][j].item = batch["item"][j] /\ batch["out"][j] \in Response
                        /\ Scores[j] = batch["out"][j].score
    BY <2>1 DEF Aligned, Scores
  <2>3. \A j \in Rows : Scores[j] \in Int
    BY <2>2 DEF Response
  <2>4. same \subseteq Rows /\ IsFiniteSet(same) /\ Cardinality(same) = RolloutN
    <3>1. same = {j \in 1 .. Len(batch["item"]) : batch["item"][j] = batch["item"][i]}
      BY <2>1, <2>2 DEF Size
    <3>2. Cardinality(same) = Times(batch["item"], batch["item"][i])
      BY <3>1 DEF Times
    <3>3. IsFiniteSet(1 .. n) /\ same \in SUBSET (1 .. n)
      BY <2>1, FS_Interval
    <3>4. IsFiniteSet(same)
      BY <3>3, FS_Subset
    <3> QED
      BY <2>1, <3>2, <3>3, <3>4 DEF Aligned
  <2>5. \A j \in same : j \in Rows /\ GroupOf(j) = same
    <3> SUFFICES ASSUME NEW j \in same PROVE GroupOf(j) = same
      BY <2>4
    <3>1. j \in Rows /\ batch["item"][j] = batch["item"][i]
      BY <2>1, <2>2
    <3>2. \A k \in Rows : batch["uid"][k] = batch["uid"][j] <=> batch["out"][k].item = batch["item"][i]
      <4> SUFFICES ASSUME NEW k \in Rows
                   PROVE  batch["uid"][k] = batch["uid"][j] <=> batch["out"][k].item = batch["item"][i]
        OBVIOUS
      <4>1. batch["uid"][k] = batch["uid"][j] <=> batch["item"][k] = batch["item"][j]
        BY <2>1, <3>1 DEF Aligned
      <4>2. batch["out"][k].item = batch["item"][k]
        BY <2>2
      <4> QED
        BY <3>1, <4>1, <4>2
    <3> QED
      BY <2>1, <3>2 DEF GroupOf, same
  <2>6. i \in same
    BY <2>1, <2>2
  <2> HIDE DEF same
  <2>7. sum \in Int /\ RolloutN \in Nat \ {0}
    BY <2>3, <2>4, SumType, SizeFacts
  <2>8. \A j \in same :
           batch["advantages"][j] = IF RolloutN = 1 THEN [num |-> Scores[j], den |-> 1]
                                    ELSE [num |-> RolloutN * Scores[j] - sum, den |-> RolloutN]
    <3> SUFFICES ASSUME NEW j \in same
                 PROVE  batch["advantages"][j] = IF RolloutN = 1 THEN [num |-> Scores[j], den |-> 1]
                                                 ELSE [num |-> RolloutN * Scores[j] - sum, den |-> RolloutN]
      OBVIOUS
    <3>1. batch["advantages"][j] = Advantage(j)
      BY <2>1, <2>5 DEF Aligned
    <3>2. GroupOf(j) = same /\ Cardinality(GroupOf(j)) = RolloutN
      BY <2>4, <2>5
    <3>3. Advantage(j) = IF Cardinality(GroupOf(j)) = 1 THEN [num |-> Scores[j], den |-> 1]
                         ELSE [num |-> Cardinality(GroupOf(j)) * Scores[j] - SumOver(Scores, GroupOf(j)),
                               den |-> Cardinality(GroupOf(j))]
      BY DEF Advantage
    <3> QED
      BY <3>1, <3>2, <3>3
  <2> HIDE DEF sum
  <2>9. ASSUME RolloutN > 1
        PROVE  /\ batch["advantages"][i].num * RolloutN = batch["advantages"][i].den * (RolloutN * Scores[i] - sum)
               /\ SumOver([j \in same |-> batch["advantages"][j].num], same) = 0
    <3>1. \A j \in same : /\ batch["advantages"][j].num = RolloutN * Scores[j] - sum
                          /\ batch["advantages"][j].den = RolloutN
      <4> SUFFICES ASSUME NEW j \in same
                   PROVE  batch["advantages"][j].num = RolloutN * Scores[j] - sum /\ batch["advantages"][j].den = RolloutN
        OBVIOUS
      <4>1. RolloutN # 1
        BY <2>7, <2>9
      <4>2. batch["advantages"][j] = [num |-> RolloutN * Scores[j] - sum, den |-> RolloutN]
        BY <2>8, <4>1
      <4> QED
        BY <4>2
    <3>2. batch["advantages"][i].num * RolloutN = batch["advantages"][i].den * (RolloutN * Scores[i] - sum)
      <4>1. PICK a \in Int, b \in Nat : a = RolloutN * Scores[i] - sum /\ b = RolloutN
        <5>1. Scores[i] \in Int
          BY <2>3, <2>4, <2>6
        <5>2. RolloutN * Scores[i] \in Int
          BY <2>7, <5>1
        <5> QED
          BY <2>7, <5>2
      <4>2. a * b = b * a
        OBVIOUS
      <4> QED
        BY <2>6, <3>1, <4>1, <4>2
    <3> DEFINE d == [j \in same |-> batch["advantages"][j].num]
    <3>3. \A j \in same : d[j] = RolloutN * Scores[j] - sum /\ Scores[j] \in Int
      BY <2>3, <2>4, <3>1
    <3> HIDE DEF d
    <3>4. SumOver(d, same) = RolloutN * SumOver(Scores, same) - Cardinality(same) * sum
      BY <2>4, <2>7, <3>3, SumOfDistances
    <3>5. SumOver(d, same) = RolloutN * sum - RolloutN * sum
      BY <2>4, <3>4 DEF sum
    <3>6. RolloutN * sum - RolloutN * sum = 0
      BY <2>7
    <3> QED
      BY <3>2, <3>5, <3>6 DEF d
  <2>10. ASSUME RolloutN = 1 PROVE batch["advantages"][i] = [num |-> Scores[i], den |-> 1]
    BY <2>6, <2>8, <2>10
  <2> QED
    BY <2>9, <2>10 DEF same, sum
<1> QED
  BY <1>1, Invariant, PTL

\* In an epoch an item is trained with all its rollouts or not at all, and as
\* many batches are as fit.
THEOREM ServedOnce == StepSpec => []EpochServesEachItemOnce
<1>1. ASSUME Inv PROVE EpochServesEachItemOnce
  <2>1. \A item \in Items : Cardinality({k \in 1 .. Len(trained) : trained[k] = item}) \in {0, RolloutN}
    BY <1>1 DEF Inv, Sampling, Times
  <2>2. ASSUME stepPc = "load", stepEpoch > 0, Len(order) < BatchSize
        PROVE  Len(trained) = RolloutN * BatchSize * ((2 * Prompts) \div BatchSize)
    <3>1. PICK q \in 0 .. 2 * Prompts : /\ Len(order) + BatchSize * q = 2 * Prompts
                                        /\ Len(trained) = RolloutN * BatchSize * q
      BY <1>1, <2>2 DEF Inv, Progress
    <3>2. PICK m \in Nat, n \in Nat \ {0}, p \in Nat : m = Len(order) /\ n = BatchSize /\ p = 2 * Prompts
      <4>1. Len(order) \in Nat
        BY <1>1 DEF Inv, Sampling
      <4> QED
        BY <4>1, SizeFacts, ItemFacts
    <3>3. q \in Nat /\ m + n * q = p /\ m < n
      BY <2>2, <3>1, <3>2
    <3>4. p \div n = q
      <4>1. Grouped(q + 1, n)
        BY <3>2, <3>3, InGroups
      <4>2. q + 1 \in 1 .. q + 1 /\ m + 1 \in 1 .. n
        BY <3>2, <3>3
      <4>3. GroupAt(((q + 1) - 1) * n + (m + 1), n) = q + 1
        BY <4>1, <4>2 DEF Grouped
      <4>4. (((q + 1) - 1) * n + (m + 1)) - 1 = p
        <5> DEFINE x == n * q
        <5>1. x \in Nat /\ ((q + 1) - 1) * n = x /\ m + x = p
          BY <3>2, <3>3
        <5> HIDE DEF x
        <5>2. (x + (m + 1)) - 1 = p
          BY <3>2, <5>1
        <5> QED
          BY <5>1, <5>2
      <4>5. (p \div n) + 1 = q + 1 /\ p \div n \in Int
        BY <3>2, <4>3, <4>4 DEF GroupAt
      <4> QED
        BY <3>3, <4>5
    <3> QED
      BY <3>1, <3>2, <3>4
  <2> QED
    BY <2>1, <2>2 DEF EpochServesEachItemOnce
<1> QED
  BY <1>1, Invariant, PTL
=============================================================================
