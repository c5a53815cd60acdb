----------------------- MODULE SeqlenBalancingProofs -----------------------
(***************************************************************************)
(* Proofs about SeqlenBalancing: all its invariants, for any rows, any     *)
(* workloads and any number of partitions, with sums of integers.          *)
(*                                                                         *)
(* The inductive invariant (Inv) says of each state on the heap what a     *)
(* merge keeps (StateOK): the sets share no row, their sums are the true   *)
(* ones and decrease, and the heaviest is not too far from the lightest.   *)
(* That needs more than the properties say.  For ranks the sets of a state *)
(* are equally many rows (Level).  For micro-batches, where a state begins *)
(* with all sets empty but one, none of the others has two rows as long as *)
(* one is empty (Sparse): empty sets come last in both states, and a merge *)
(* puts the first of one with the last of the other, so that two empty     *)
(* sets meet only if no two full ones do.  With at least k rows the last   *)
(* state has no empty set.  After the merges the partitions, however       *)
(* arranged, are the sets of that state (From).                            *)
(*                                                                         *)
(* The lemmas before it are about the operators the model is built from: a *)
(* sort (Ordered), a sum over a set (MapThenSumSet), sequences one after   *)
(* the other (FlattenSeq), every other element of a sequence.  Induction,  *)
(* where they need it, is over sets, from the least number of a set.       *)
(***************************************************************************)
EXTENDS SeqlenBalancing, FiniteSetTheorems, SequenceTheorems, WellFoundedInduction, TLAPS

WorkOf(S) == MapThenSumSet(Work, S)

\* A state of the heap: disjoint sets of rows in decreasing order of their true
\* sums.  For ranks they are equally many; for micro-batches an empty one means
\* that the others have at most one row.
RowSet == [items : SUBSET Rows, sum : Nat]
Sparse(s) == (\E i \in 1 .. k : s[i].items = {}) => \A j \in 1 .. k : \A x, y \in s[j].items : x = y
Level(s) == \A i, j \in 1 .. k : Cardinality(s[i].items) = Cardinality(s[j].items)
Narrow(s) ==
    IF Equal THEN \E i, j \in Rows : Spread(s) <= Work(i) - Work(j)
    ELSE \E i \in Rows : Spread(s) <= Work(i)
StateOK(s) ==
    /\ s \in [1 .. k -> RowSet] /\ Decreasing(s)
    /\ \A i \in 1 .. k : s[i].sum = WorkOf(s[i].items)
    /\ \A i, j \in 1 .. k : i # j => s[i].items \cap s[j].items = {}
    /\ IF Equal THEN Level(s) ELSE Sparse(s)
    /\ Narrow(s)

\* Two states have no row in common.
Apart(s, t) == \A i, j \in 1 .. k : s[i].items \cap t[j].items = {}
Has(s, r) == \E i \in 1 .. k : r \in s[i].items

\* The partitions are those of a state, in any order.
From(s, ps) ==
    /\ ps \in Seq(Seq(Rows)) /\ Len(ps) = k
    /\ \A p \in 1 .. k : /\ ps[p] # <<>> /\ IsInjective(ps[p])
                         /\ \E i \in 1 .. k : ToSet(ps[p]) = s[i].items
    /\ \A i \in 1 .. k : \E p \in 1 .. k : ToSet(ps[p]) = s[i].items
    /\ \A p, q \in 1 .. k : p # q => ToSet(ps[p]) \cap ToSet(ps[q]) = {}

Control ==
    /\ call \in Calls /\ k \in Nat \ {0}
    /\ balancePc \in {"count", "split", "merge", "arrange", "compute", "done", "failed"}
    /\ Equal => balancePc \notin {"count", "failed"} /\ k = call.k
    /\ ~Equal /\ balancePc \notin {"count", "failed"} => k <= Len(call.tokens)
    /\ balancePc \in {"count", "split", "failed"} => heap = {}
    /\ balancePc = "failed" => call.divisor > 1 /\ Wanted > Len(call.tokens)
Heaped ==
    /\ \A s \in heap : StateOK(s)
    /\ \A s, t \in heap : s # t => Apart(s, t)
    /\ balancePc \in {"merge", "arrange", "compute", "done"} => \A r \in Rows : \E s \in heap : Has(s, r)
Delivered ==
    /\ balancePc \in {"arrange", "compute", "done"} => \E s \in heap : heap = {s} /\ From(s, parts)
    /\ balancePc \notin {"arrange", "compute", "done"} => parts = <<>>
    /\ restored = IF balancePc = "done" THEN [i \in Rows |-> i] ELSE <<>>
Inv == Control /\ Heaped /\ Delivered

-----------------------------------------------------------------------------
(* Order                                                                   *)

\* A set of numbers has a least one.
LEMMA LeastNumber ==
    ASSUME NEW T, T \subseteq Nat, T # {}
    PROVE  \E x \in T : \A y \in T : x <= y
<1>1. PICK x \in T : \A y \in T : <<y, x>> \notin OpToRel(<, Nat)
  BY WFMin, NatLessThanWellFounded
<1>2. \A y \in T : ~(y < x)
  BY <1>1 DEF OpToRel
<1> QED
  BY <1>2

\* Induction, for a set of numbers.
LEMMA Climbs ==
    ASSUME NEW n \in Nat \ {0}, NEW Good, 1 \in Good, \A m \in 1 .. n - 1 : m \in Good => m + 1 \in Good
    PROVE  n \in Good
<1> DEFINE Bad == {m \in 1 .. n : m \notin Good}
<1>1. Bad \subseteq Nat /\ n \in 1 .. n
  OBVIOUS
<1>2. Bad = {}
  <2> SUFFICES ASSUME Bad # {} PROVE FALSE
    OBVIOUS
  <2>1. PICK m \in Bad : \A j \in Bad : m <= j
    <3> HIDE DEF Bad
    <3> QED
      BY <1>1, LeastNumber
  <2>2. m \in 1 .. n /\ m \notin Good /\ m # 1
    BY <2>1
  <2>3. m - 1 \in 1 .. n - 1 /\ m - 1 \in 1 .. n /\ ~(m <= m - 1) /\ (m - 1) + 1 = m
    BY <2>2
  <2>4. m - 1 \in Good
    BY <2>1, <2>3
  <2> QED
    BY <2>2, <2>3, <2>4
<1>3. n \notin Bad
  BY <1>2
<1> QED
  BY <1>1, <1>3

\* Induction, for a set of finite sets.
LEMMA SetClimbs ==
    ASSUME NEW S, IsFiniteSet(S), NEW Good, \A T \in SUBSET S : (\A x \in T : T \ {x} \in Good) => T \in Good
    PROVE  \A T \in SUBSET S : T \in Good
<1> SUFFICES ASSUME NEW T \in SUBSET S PROVE T \in Good
  OBVIOUS
<1> DEFINE Sizes == {n \in Nat : \A U \in SUBSET S : Cardinality(U) = n - 1 => U \in Good}
<1>1. \A U \in SUBSET S : /\ IsFiniteSet(U) /\ Cardinality(U) \in Nat /\ (Cardinality(U) = 0 <=> U = {})
                          /\ \A x \in U : Cardinality(U \ {x}) = Cardinality(U) - 1
  BY FS_Subset, FS_CardinalityType, FS_EmptySet, FS_RemoveElement
<1>2. 1 \in Sizes
  <2>1. ASSUME NEW U \in SUBSET S, Cardinality(U) = 0 PROVE U \in Good
    BY <1>1, <2>1
  <2> QED
    BY <2>1
<1>3. ASSUME NEW m \in Nat \ {0}, m \in Sizes PROVE m + 1 \in Sizes
  <2>1. ASSUME NEW U \in SUBSET S, Cardinality(U) = m PROVE U \in Good
    <3>1. ASSUME NEW x \in U PROVE U \ {x} \in Good
      <4>1. U \ {x} \in SUBSET S /\ Cardinality(U \ {x}) = m - 1
        BY <1>1, <2>1
      <4> QED
        BY <1>3, <4>1
    <3> QED
      BY <3>1
  <2>2. m + 1 \in Nat /\ (m + 1) - 1 = m
    OBVIOUS
  <2> QED
    BY <2>1, <2>2
<1>4. PICK n \in Nat \ {0} : n = Cardinality(T) + 1
  BY <1>1
<1>5. n \in Sizes
  <2> HIDE DEF Sizes
  <2>1. \A m \in 1 .. n - 1 : m \in Nat \ {0}
    OBVIOUS
  <2> QED
    BY <1>2, <1>3, <2>1, Climbs
<1>6. Cardinality(T) = n - 1
  BY <1>1, <1>4
<1> QED
  BY <1>5, <1>6

\* Where below says what is below an element, in a strict total order, the
\* numbers of elements below are those from zero on.
StrictOrder(S, below) ==
    /\ \A x \in S : below[x] \subseteq S /\ x \notin below[x]
    /\ \A x, y \in S : x # y => x \in below[y] \/ y \in below[x]
    /\ \A x, y \in S : x \in below[y] => below[x] \subseteq below[y]

LEMMA BelowGrows ==
    ASSUME NEW S, IsFiniteSet(S), NEW below, StrictOrder(S, below)
    PROVE  /\ \A x \in S : Cardinality(below[x]) \in 0 .. Cardinality(S) - 1
           /\ \A x, y \in S : x \in below[y] => Cardinality(below[x]) < Cardinality(below[y])
<1>1. \A x \in S : IsFiniteSet(below[x]) /\ Cardinality(below[x]) \in Nat
  BY FS_Subset, FS_CardinalityType DEF StrictOrder
<1>2. Cardinality(S) \in Nat
  BY FS_CardinalityType
<1>3. ASSUME NEW x \in S PROVE Cardinality(below[x]) < Cardinality(S)
  <2>1. below[x] \in SUBSET S /\ below[x] # S
    BY DEF StrictOrder
  <2>2. Cardinality(below[x]) <= Cardinality(S) /\ Cardinality(below[x]) # Cardinality(S)
    BY <2>1, FS_Subset
  <2> QED
    BY <1>1, <1>2, <2>2
<1>4. ASSUME NEW x \in S, NEW y \in S, x \in below[y] PROVE Cardinality(below[x]) < Cardinality(below[y])
  <2>1. below[x] \in SUBSET below[y] /\ below[x] # below[y]
    BY <1>4 DEF StrictOrder
  <2>2. IsFiniteSet(below[y])
    BY <1>1
  <2>3. Cardinality(below[x]) <= Cardinality(below[y]) /\ Cardinality(below[x]) # Cardinality(below[y])
    BY <2>1, <2>2, FS_Subset
  <2> QED
    BY <1>1, <2>3
<1> QED
  BY <1>1, <1>2, <1>3, <1>4

LEMMA PositionsFilled ==
    ASSUME NEW S, IsFiniteSet(S), NEW below, StrictOrder(S, below)
    PROVE  \A p \in 1 .. Cardinality(S) : \E x \in S : Cardinality(below[x]) = p - 1
<1> DEFINE n == Cardinality(S)
           f == [x \in S |-> Cardinality(below[x])]
<1>1. n \in Nat
  BY FS_CardinalityType
<1>2. \A x \in S : f[x] \in 0 .. n - 1
  BY BelowGrows
<1>3. \A x, y \in S : f[x] = f[y] => x = y
  <2> SUFFICES ASSUME NEW x \in S, NEW y \in S, f[x] = f[y], x # y PROVE FALSE
    OBVIOUS
  <2>1. f[x] < f[y] \/ f[y] < f[x]
    BY BelowGrows DEF StrictOrder
  <2> QED
    BY <1>1, <1>2, <2>1
<1>4. f \in Injection(S, 0 .. n - 1)
  BY <1>2, <1>3 DEF Injection, IsInjective
<1>5. IsFiniteSet(0 .. n - 1) /\ Cardinality(0 .. n - 1) = n
  BY <1>1, FS_Interval
<1>6. f \in Surjection(S, 0 .. n - 1)
  BY <1>4, <1>5, FS_Injection
<1>7. \A p \in 1 .. n : p - 1 \in 0 .. n - 1
  BY <1>1
<1> QED
  BY <1>6, <1>7 DEF Surjection

\* A sequence with p - 1 elements below the p-th.
LEMMA InOrder ==
    ASSUME NEW S, IsFiniteSet(S), NEW below, StrictOrder(S, below),
           NEW o \in [1 .. Cardinality(S) -> S],
           \A p \in 1 .. Cardinality(S) : Cardinality(below[o[p]]) = p - 1
    PROVE  /\ o \in Bijection(1 .. Cardinality(S), S)
           /\ \A p, q \in 1 .. Cardinality(S) : p < q => o[p] \in below[o[q]]
<1> DEFINE n == Cardinality(S)
<1>1. n \in Nat
  BY FS_CardinalityType
<1> HIDE DEF n
<1>2. \A p, q \in 1 .. n : o[p] = o[q] => p = q
  BY <1>1 DEF n
<1>3. o \in Injection(1 .. n, S)
  BY <1>2 DEF Injection, IsInjective, n
<1>4. o \in Surjection(1 .. n, S)
  <2>1. Cardinality(1 .. n) = IF 1 > n THEN 0 ELSE n - 1 + 1
    BY <1>1, FS_Interval
  <2>2. Cardinality(1 .. n) = n
    BY <1>1, <2>1
  <2> QED
    BY <1>3, <2>2, FS_Injection DEF n
<1>5. ASSUME NEW p \in 1 .. n, NEW q \in 1 .. n, p < q PROVE o[p] \in below[o[q]]
  <2>1. o[p] \in S /\ o[q] \in S /\ o[p] # o[q]
    BY <1>2, <1>5 DEF n
  <2>2. Cardinality(below[o[p]]) = p - 1 /\ Cardinality(below[o[q]]) = q - 1
    BY DEF n
  <2>3. ~(Cardinality(below[o[q]]) < Cardinality(below[o[p]]))
    BY <1>1, <1>5, <2>2
  <2>4. o[q] \notin below[o[p]]
    BY <2>1, <2>3, BelowGrows
  <2> QED
    BY <2>1, <2>4 DEF StrictOrder
<1> QED
  BY <1>3, <1>4, <1>5 DEF Bijection, n

-----------------------------------------------------------------------------
(* The rows of a call                                                      *)

CallOK == call \in Calls

LEMMA CallFacts ==
    ASSUME CallOK
    PROVE  /\ Len(call.tokens) \in Nat \ {0} /\ Rows = 1 .. Len(call.tokens)
           /\ \A i \in Rows : call.tokens[i] \in Nat
           /\ call.caller \in Callers /\ call.k \in Nat \ {0} /\ call.others \in Nat /\ call.divisor \in Nat \ {0}
           /\ Equal => call.k <= Len(call.tokens) /\ Len(call.tokens) % call.k = 0
           /\ ~Equal => /\ \A i \in Rows : call.tokens[i] \in Nat \ {0}
                        /\ call.others <= Len(call.tokens)
<1>1. /\ call.tokens \in Seq(Nat) /\ call.tokens # <<>> /\ call.caller \in Callers /\ call.k \in Nat \ {0}
      /\ call.others \in Nat /\ call.divisor \in Nat \ {0}
      /\ call.caller = "ranks" => call.k <= Len(call.tokens) /\ Len(call.tokens) % call.k = 0
      /\ call.caller = "micro" => /\ \A i \in 1 .. Len(call.tokens) : call.tokens[i] \in 1 .. Limit
                                  /\ call.others <= Len(call.tokens)
  BY CallsAssumption DEF CallOK
<1>2. Len(call.tokens) \in Nat \ {0} /\ \A i \in 1 .. Len(call.tokens) : call.tokens[i] \in Nat
  BY <1>1
<1>3. \A i \in 1 .. Limit : i \in Nat \ {0}
  BY NumbersAssumption
<1> QED
  BY <1>1, <1>2, <1>3 DEF Rows, Equal, Callers

LEMMA RowsFinite ==
    ASSUME CallOK
    PROVE  /\ IsFiniteSet(Rows) /\ Cardinality(Rows) = Len(call.tokens) /\ Rows \subseteq Nat
           /\ \A S \in SUBSET Rows : IsFiniteSet(S) /\ Cardinality(S) \in Nat
<1> DEFINE n == Len(call.tokens)
<1>1. n \in Nat \ {0} /\ Rows = 1 .. n
  BY CallFacts
<1> HIDE DEF n
<1>2. IsFiniteSet(1 .. n) /\ Cardinality(1 .. n) = IF 1 > n THEN 0 ELSE n - 1 + 1
  BY <1>1, FS_Interval
<1>3. Cardinality(1 .. n) = n /\ 1 .. n \subseteq Nat
  BY <1>1, <1>2
<1> QED
  BY <1>1, <1>2, <1>3, FS_Subset, FS_CardinalityType DEF n

LEMMA WorkType ==
    ASSUME CallOK
    PROVE  \A i \in Rows : Work(i) \in Nat /\ (~Equal => Work(i) > 0)
<1> SUFFICES ASSUME NEW i \in Rows PROVE Work(i) \in Nat /\ (~Equal => Work(i) > 0)
  OBVIOUS
<1>1. PICK t \in Nat : t = call.tokens[i] /\ (~Equal => t > 0)
  BY CallFacts
<1>2. t * t \in Nat /\ Linear * t \in Nat
  BY NumbersAssumption
<1>3. t > 0 => t * t > 0
  OBVIOUS
<1>4. Work(i) = Linear * t + t * t
  BY <1>1 DEF Work
<1> QED
  BY <1>1, <1>2, <1>3, <1>4

\* A sort by workload has all rows, once, the lightest first.
LEMMA SortedByWork ==
    ASSUME CallOK, NEW S \in SUBSET Rows
    PROVE  /\ Ordered(S, Before) \in Bijection(1 .. Cardinality(S), S)
           /\ \A p, q \in 1 .. Cardinality(S) : p < q => Work(Ordered(S, Before)[p]) <= Work(Ordered(S, Before)[q])
<1> DEFINE below == [x \in S |-> {y \in S : Before(y, x)}]
           o == Ordered(S, Before)
<1>1. IsFiniteSet(S) /\ \A x \in S : Work(x) \in Int /\ x \in Int
  BY RowsFinite, WorkType
<1>2. StrictOrder(S, below)
  <2>1. \A x, y \in S : x # y => Before(x, y) \/ Before(y, x)
    BY <1>1 DEF Before
  <2>2. \A x, y, z \in S : Before(x, y) /\ Before(y, z) => Before(x, z)
    BY <1>1 DEF Before
  <2>3. \A x \in S : ~Before(x, x)
    BY <1>1 DEF Before
  <2> QED
    BY <2>1, <2>2, <2>3 DEF StrictOrder
<1>3. \A p \in 1 .. Cardinality(S) : \E x \in S : Cardinality({y \in S : Before(y, x)}) = p - 1
  <2>1. \A p \in 1 .. Cardinality(S) : \E x \in S : Cardinality(below[x]) = p - 1
    BY <1>1, <1>2, PositionsFilled
  <2> QED
    BY <2>1
<1>4. \A p \in 1 .. Cardinality(S) : o[p] \in S /\ Cardinality({y \in S : Before(y, o[p])}) = p - 1
  BY <1>3 DEF Ordered
<1>5. o \in [1 .. Cardinality(S) -> S] /\ \A p \in 1 .. Cardinality(S) : Cardinality(below[o[p]]) = p - 1
  BY <1>4 DEF Ordered
<1>6. o \in Bijection(1 .. Cardinality(S), S) /\ \A p, q \in 1 .. Cardinality(S) : p < q => o[p] \in below[o[q]]
  <2> HIDE DEF o, below
  <2> QED
    BY <1>1, <1>2, <1>5, InOrder
<1>7. \A p, q \in 1 .. Cardinality(S) : p < q => Work(o[p]) <= Work(o[q])
  <2> SUFFICES ASSUME NEW p \in 1 .. Cardinality(S), NEW q \in 1 .. Cardinality(S), p < q
               PROVE  Work(o[p]) <= Work(o[q])
    OBVIOUS
  <2>1. Before(o[p], o[q]) /\ o[p] \in S /\ o[q] \in S
    BY <1>5, <1>6
  <2> HIDE DEF o
  <2> QED
    BY <1>1, <2>1 DEF Before
<1> QED
  BY <1>6, <1>7

LEMMA SortedByNumber ==
    ASSUME CallOK, NEW S \in SUBSET Rows
    PROVE  Ascending(S) \in Bijection(1 .. Cardinality(S), S)
<1> DEFINE below == [x \in S |-> {y \in S : y < x}]
           o == Ascending(S)
<1>1. IsFiniteSet(S) /\ \A x \in S : x \in Int
  BY RowsFinite
<1>2. StrictOrder(S, below)
  BY <1>1 DEF StrictOrder
<1>3. \A p \in 1 .. Cardinality(S) : \E x \in S : Cardinality({y \in S : y < x}) = p - 1
  <2>1. \A p \in 1 .. Cardinality(S) : \E x \in S : Cardinality(below[x]) = p - 1
    BY <1>1, <1>2, PositionsFilled
  <2> QED
    BY <2>1
<1>4. \A p \in 1 .. Cardinality(S) : o[p] \in S /\ Cardinality({y \in S : y < o[p]}) = p - 1
  BY <1>3 DEF Ascending, Ordered
<1>5. o \in [1 .. Cardinality(S) -> S] /\ \A p \in 1 .. Cardinality(S) : Cardinality(below[o[p]]) = p - 1
  BY <1>4 DEF Ascending, Ordered
<1> QED
  <2> HIDE DEF o, below
  <2>1. o \in Bijection(1 .. Cardinality(S), S)
    BY <1>1, <1>2, <1>5, InOrder
  <2> QED
    BY <2>1 DEF o

LEMMA SortedByWeight ==
    ASSUME NEW S, IsFiniteSet(S), \A p \in S : PartWork(p) \in Int /\ p[1] \in Int,
           \A p, q \in S : p[1] = q[1] => p = q
    PROVE  Ordered(S, Heavier) \in Bijection(1 .. Cardinality(S), S)
<1> DEFINE below == [x \in S |-> {y \in S : Heavier(y, x)}]
           o == Ordered(S, Heavier)
<1>1. StrictOrder(S, below)
  <2>1. \A x, y \in S : x # y => Heavier(x, y) \/ Heavier(y, x)
    BY DEF Heavier
  <2>2. \A x, y, z \in S : Heavier(x, y) /\ Heavier(y, z) => Heavier(x, z)
    BY DEF Heavier
  <2>3. \A x \in S : ~Heavier(x, x)
    BY DEF Heavier
  <2> QED
    BY <2>1, <2>2, <2>3 DEF StrictOrder
<1>2. \A p \in 1 .. Cardinality(S) : \E x \in S : Cardinality({y \in S : Heavier(y, x)}) = p - 1
  <2>1. \A p \in 1 .. Cardinality(S) : \E x \in S : Cardinality(below[x]) = p - 1
    <3> HIDE DEF below
    <3> QED
      BY <1>1, PositionsFilled
  <2> QED
    BY <2>1
<1>3. \A p \in 1 .. Cardinality(S) : o[p] \in S /\ Cardinality({y \in S : Heavier(y, o[p])}) = p - 1
  BY <1>2 DEF Ordered
<1>4. o \in [1 .. Cardinality(S) -> S] /\ \A p \in 1 .. Cardinality(S) : Cardinality(below[o[p]]) = p - 1
  BY <1>3 DEF Ordered
<1> QED
  <2> HIDE DEF o, below
  <2>1. o \in Bijection(1 .. Cardinality(S), S)
    BY <1>1, <1>4, InOrder
  <2> QED
    BY <2>1 DEF o

-----------------------------------------------------------------------------
(* Sequences of sequences                                                  *)

\* What FlattenSeq builds, one sequence after the other.
JoinsTo(s, m, flat) ==
    /\ flat = [i \in 1 .. m |-> flat[i]]
    /\ \A i \in 1 .. m : flat[i] = IF i = 1 THEN s[i] ELSE flat[i - 1] \o s[i]
Joins(s, flat) == JoinsTo(s, Len(s), flat)

LEMMA JoinsExists ==
    ASSUME NEW T, NEW s \in Seq(Seq(T)), s # <<>>
    PROVE  \E flat : Joins(s, flat)
<1> DEFINE n == Len(s)
           Good == {m \in 1 .. n : \E f : JoinsTo(s, m, f)}
<1>1. n \in Nat \ {0}
  OBVIOUS
<1> HIDE DEF n
<1>2. 1 \in Good
  <2> DEFINE g == [i \in 1 .. 1 |-> s[1]]
  <2>1. JoinsTo(s, 1, g)
    BY DEF JoinsTo
  <2> QED
    BY <1>1, <2>1
<1>3. ASSUME NEW m \in 1 .. n - 1, m \in Good PROVE m + 1 \in Good
  <2>1. PICK f : JoinsTo(s, m, f)
    BY <1>3
  <2>2. m \in Nat \ {0} /\ m + 1 \in 1 .. n
    BY <1>1
  <2> DEFINE g == [i \in 1 .. m + 1 |-> IF i = m + 1 THEN f[m] \o s[m + 1] ELSE f[i]]
  <2>3. ASSUME NEW i \in 1 .. m + 1 PROVE g[i] = IF i = 1 THEN s[i] ELSE g[i - 1] \o s[i]
    <3>1. CASE i = m + 1
      <4>1. i - 1 = m /\ m \in 1 .. m + 1 /\ m # m + 1 /\ i # 1
        BY <2>2, <3>1
      <4> QED
        BY <3>1, <4>1
    <3>2. CASE i # m + 1
      <4>1. i \in 1 .. m /\ (i # 1 => i - 1 \in 1 .. m + 1 /\ i - 1 # m + 1)
        BY <2>2, <3>2
      <4>2. f[i] = IF i = 1 THEN s[i] ELSE f[i - 1] \o s[i]
        BY <2>1, <4>1 DEF JoinsTo
      <4> QED
        BY <3>2, <4>1, <4>2
    <3> QED
      BY <3>1, <3>2
  <2>4. JoinsTo(s, m + 1, g)
    BY <2>3 DEF JoinsTo
  <2> QED
    BY <2>2, <2>4
<1>4. n \in Good
  <2> HIDE DEF Good
  <2> QED
    BY <1>1, <1>2, <1>3, Climbs
<1>5. \E f : JoinsTo(s, n, f)
  BY <1>4
<1> QED
  BY <1>5 DEF Joins, n

LEMMA FlattenJoins ==
    ASSUME NEW T, NEW s \in Seq(Seq(T)), s # <<>>
    PROVE  \E flat : Joins(s, flat) /\ FlattenSeq(s) = flat[Len(s)]
<1> DEFINE F == CHOOSE flat : flat = [i \in 1 .. Len(s) |-> IF i = 1 THEN s[i] ELSE flat[i - 1] \o s[i]]
<1>1. Len(s) \in Nat \ {0}
  OBVIOUS
<1>2. FlattenSeq(s) = F[Len(s)]
  BY <1>1 DEF FlattenSeq
<1>3. \E flat : flat = [i \in 1 .. Len(s) |-> IF i = 1 THEN s[i] ELSE flat[i - 1] \o s[i]]
  <2>1. PICK flat : Joins(s, flat)
    BY JoinsExists
  <2>2. flat = [i \in 1 .. Len(s) |-> IF i = 1 THEN s[i] ELSE flat[i - 1] \o s[i]]
    BY <2>1 DEF Joins, JoinsTo
  <2> QED
    BY <2>2
<1>4. F = [i \in 1 .. Len(s) |-> IF i = 1 THEN s[i] ELSE F[i - 1] \o s[i]]
  BY <1>3
<1>5. Joins(s, F)
  <2> HIDE DEF F
  <2> QED
    BY <1>4 DEF Joins, JoinsTo
<1> QED
  BY <1>2, <1>5

LEMMA JoinedOnce ==
    ASSUME NEW T, NEW s \in Seq(T), NEW t \in Seq(T), IsInjective(s), IsInjective(t), ToSet(s) \cap ToSet(t) = {}
    PROVE  /\ s \o t \in Seq(T) /\ IsInjective(s \o t) /\ ToSet(s \o t) = ToSet(s) \cup ToSet(t)
<1>1. PICK m \in Nat, n \in Nat : m = Len(s) /\ n = Len(t)
  OBVIOUS
<1> DEFINE u == s \o t
<1>2. /\ u \in Seq(T) /\ DOMAIN u = 1 .. m + n /\ DOMAIN s = 1 .. m /\ DOMAIN t = 1 .. n
      /\ \A i \in 1 .. m + n : u[i] = IF i <= m THEN s[i] ELSE t[i - m]
  BY <1>1
<1> HIDE DEF u
<1>3. \A i \in 1 .. m + n : IF i <= m THEN i \in 1 .. m ELSE i - m \in 1 .. n
  OBVIOUS
<1>4. \A i \in 1 .. m + n : IF i <= m THEN u[i] \in ToSet(s) ELSE u[i] \in ToSet(t)
  BY <1>2, <1>3 DEF ToSet
<1>5. ASSUME NEW i \in 1 .. m + n, NEW j \in 1 .. m + n, u[i] = u[j] PROVE i = j
  <2>1. CASE i <= m /\ j <= m
    <3>1. s[i] = s[j] /\ i \in 1 .. m /\ j \in 1 .. m
      BY <1>2, <1>5, <2>1
    <3> QED
      BY <1>2, <3>1 DEF IsInjective
  <2>2. CASE ~(i <= m) /\ ~(j <= m)
    <3>1. t[i - m] = t[j - m] /\ i - m \in 1 .. n /\ j - m \in 1 .. n
      BY <1>2, <1>5, <2>2
    <3>2. i - m = j - m
      BY <1>2, <3>1 DEF IsInjective
    <3> QED
      BY <3>2
  <2>3. CASE (i <= m) # (j <= m)
    BY <1>4, <1>5, <2>3
  <2> QED
    BY <2>1, <2>2, <2>3
<1>6. IsInjective(u)
  BY <1>2, <1>5 DEF IsInjective
<1>7. ToSet(s) \subseteq ToSet(u)
  <2>1. \A i \in 1 .. m : i \in 1 .. m + n /\ u[i] = s[i]
    BY <1>2
  <2> QED
    BY <1>2, <2>1 DEF ToSet
<1>8. ToSet(t) \subseteq ToSet(u)
  <2>1. \A i \in 1 .. n : i + m \in 1 .. m + n /\ ~(i + m <= m) /\ (i + m) - m = i
    OBVIOUS
  <2>2. \A i \in 1 .. n : i + m \in 1 .. m + n /\ u[i + m] = t[i]
    BY <1>2, <2>1
  <2> QED
    BY <1>2, <2>2 DEF ToSet
<1>9. ToSet(u) \subseteq ToSet(s) \cup ToSet(t)
  BY <1>2, <1>4 DEF ToSet
<1> QED
  BY <1>2, <1>6, <1>7, <1>8, <1>9 DEF u

\* Nothing twice in the parts, nor in two of them: nothing twice in the whole.
LEMMA FlattenedOnce ==
    ASSUME NEW T, NEW s \in Seq(Seq(T)), s # <<>>, \A i \in 1 .. Len(s) : IsInjective(s[i]),
           \A i, j \in 1 .. Len(s) : i # j => ToSet(s[i]) \cap ToSet(s[j]) = {}
    PROVE  /\ FlattenSeq(s) \in Seq(T) /\ IsInjective(FlattenSeq(s))
           /\ ToSet(FlattenSeq(s)) = UNION {ToSet(s[i]) : i \in 1 .. Len(s)}
<1>1. PICK flat : Joins(s, flat) /\ FlattenSeq(s) = flat[Len(s)]
  BY FlattenJoins
<1> DEFINE n == Len(s)
           Upto(m) == UNION {ToSet(s[i]) : i \in 1 .. m}
           Good == {m \in 1 .. n : flat[m] \in Seq(T) /\ IsInjective(flat[m]) /\ ToSet(flat[m]) = Upto(m)}
<1>2. n \in Nat \ {0} /\ \A i \in 1 .. n : s[i] \in Seq(T)
  OBVIOUS
<1>3. \A i \in 1 .. n : flat[i] = IF i = 1 THEN s[i] ELSE flat[i - 1] \o s[i]
  BY <1>1 DEF Joins, JoinsTo
<1>4. \A i \in 1 .. n : IsInjective(s[i])
  OBVIOUS
<1>5. \A i, j \in 1 .. n : i # j => ToSet(s[i]) \cap ToSet(s[j]) = {}
  OBVIOUS
<1> HIDE DEF n
<1>6. 1 \in Good
  <2>1. 1 \in 1 .. n /\ flat[1] = s[1]
    BY <1>2, <1>3
  <2>2. Upto(1) = ToSet(s[1])
    OBVIOUS
  <2> QED
    BY <1>2, <1>4, <2>1, <2>2
<1>7. ASSUME NEW m \in 1 .. n - 1, m \in Good PROVE m + 1 \in Good
  <2>1. m \in 1 .. n /\ m + 1 \in 1 .. n /\ m + 1 # 1 /\ (m + 1) - 1 = m
    BY <1>2
  <2>2. flat[m + 1] = flat[m] \o s[m + 1]
    BY <1>3, <2>1
  <2>3. flat[m] \in Seq(T) /\ IsInjective(flat[m]) /\ ToSet(flat[m]) = Upto(m)
    BY <1>7
  <2>4. s[m + 1] \in Seq(T) /\ IsInjective(s[m + 1])
    BY <1>2, <1>4, <2>1
  <2>5. Upto(m) \cap ToSet(s[m + 1]) = {}
    <3>1. \A i \in 1 .. m : i \in 1 .. n /\ i # m + 1
      BY <1>2, <2>1
    <3>2. \A i \in 1 .. m : ToSet(s[i]) \cap ToSet(s[m + 1]) = {}
      BY <1>5, <2>1, <3>1
    <3> QED
      BY <3>2
  <2>6. Upto(m + 1) = Upto(m) \cup ToSet(s[m + 1])
    <3>1. \A i : i \in 1 .. m + 1 <=> i \in 1 .. m \/ i = m + 1
      BY <2>1
    <3> QED
      BY <3>1
  <2>7. /\ flat[m] \o s[m + 1] \in Seq(T) /\ IsInjective(flat[m] \o s[m + 1])
        /\ ToSet(flat[m] \o s[m + 1]) = Upto(m) \cup ToSet(s[m + 1])
    <3> HIDE DEF Upto
    <3> QED
      BY <2>3, <2>4, <2>5, JoinedOnce
  <2> QED
    BY <2>1, <2>2, <2>6, <2>7
<1>8. n \in Good
  <2> HIDE DEF Good
  <2> QED
    BY <1>2, <1>6, <1>7, Climbs
<1> QED
  BY <1>1, <1>8 DEF n

-----------------------------------------------------------------------------
(* Sums of workloads                                                       *)

Pick(s) == CHOOSE x \in s : TRUE

\* What MapThenSumSet computes from the subsets of S up, here as far as n
\* elements.
SumsTo(S, n, f) ==
    /\ f = [s \in SUBSET S |-> f[s]]
    /\ \A s \in SUBSET S :
          Cardinality(s) <= n => f[s] = IF s = {} THEN 0 ELSE Work(Pick(s)) + f[s \ {Pick(s)}]
Sums(S, f) == SumsTo(S, Cardinality(S), f)

LEMMA SumFolds ==
    ASSUME NEW S
    PROVE  LET F == CHOOSE f : f = [s \in SUBSET S |-> IF s = {} THEN 0 ELSE Work(Pick(s)) + f[s \ {Pick(s)}]]
           IN  MapThenSumSet(Work, S) = F[S]
  BY Zenon DEF MapThenSumSet, MapThenFoldSet, Pick

LEMMA SumsExist ==
    ASSUME NEW S, IsFiniteSet(S)
    PROVE  \E f : Sums(S, f)
<1> DEFINE Good == {n \in Nat : \E f : SumsTo(S, n - 1, f)}
<1>1. \A s \in SUBSET S : /\ Cardinality(s) \in Nat /\ (Cardinality(s) = 0 <=> s = {})
                          /\ \A x \in s : Cardinality(s \ {x}) = Cardinality(s) - 1
  BY FS_Subset, FS_CardinalityType, FS_EmptySet, FS_RemoveElement
<1>2. 1 \in Good
  <2> DEFINE g == [s \in SUBSET S |-> 0]
  <2>1. \A s \in SUBSET S : Cardinality(s) <= 0 => s = {}
    BY <1>1
  <2>2. SumsTo(S, 0, g)
    BY <2>1 DEF SumsTo
  <2> QED
    BY <2>2
<1>3. ASSUME NEW m \in Nat \ {0}, m \in Good PROVE m + 1 \in Good
  <2>1. PICK f : SumsTo(S, m - 1, f)
    BY <1>3
  <2> DEFINE g == [s \in SUBSET S |-> IF Cardinality(s) = m THEN Work(Pick(s)) + f[s \ {Pick(s)}] ELSE f[s]]
  <2>2. ASSUME NEW s \in SUBSET S, Cardinality(s) <= m
        PROVE  g[s] = IF s = {} THEN 0 ELSE Work(Pick(s)) + g[s \ {Pick(s)}]
    <3>1. s # {} => /\ s \ {Pick(s)} \in SUBSET S /\ Cardinality(s \ {Pick(s)}) = Cardinality(s) - 1
                    /\ Cardinality(s) \in Nat \ {0}
      BY <1>1 DEF Pick
    <3>2. s # {} => g[s \ {Pick(s)}] = f[s \ {Pick(s)}]
      BY <2>2, <3>1
    <3>3. CASE Cardinality(s) = m
      <4>1. s # {}
        BY <1>1, <3>3
      <4> QED
        BY <3>2, <3>3, <4>1
    <3>4. CASE Cardinality(s) # m
      <4>1. Cardinality(s) <= m - 1
        BY <1>1, <2>2, <3>4
      <4>2. f[s] = IF s = {} THEN 0 ELSE Work(Pick(s)) + f[s \ {Pick(s)}]
        BY <2>1, <4>1 DEF SumsTo
      <4> QED
        BY <3>2, <3>4, <4>2
    <3> QED
      BY <3>3, <3>4
  <2>3. SumsTo(S, m, g)
    BY <2>2 DEF SumsTo
  <2>4. m + 1 \in Nat /\ (m + 1) - 1 = m
    OBVIOUS
  <2> QED
    BY <2>3, <2>4
<1>4. PICK n \in Nat \ {0} : n = Cardinality(S) + 1
  BY <1>1
<1>5. n \in Good
  <2> HIDE DEF Good
  <2>1. \A m \in 1 .. n - 1 : m \in Nat \ {0}
    OBVIOUS
  <2> QED
    BY <1>2, <1>3, <2>1, Climbs
<1>6. Cardinality(S) = n - 1
  BY <1>1, <1>4
<1> QED
  BY <1>5, <1>6 DEF Sums

LEMMA SumsStep ==
    ASSUME NEW S, IsFiniteSet(S), NEW f, Sums(S, f)
    PROVE  \A s \in SUBSET S : f[s] = IF s = {} THEN 0 ELSE Work(Pick(s)) + f[s \ {Pick(s)}]
<1>1. \A s \in SUBSET S : Cardinality(s) <= Cardinality(S)
  BY FS_Subset
<1> QED
  BY <1>1 DEF Sums, SumsTo

LEMMA SumsAgree ==
    ASSUME NEW S, IsFiniteSet(S), NEW T \in SUBSET S, NEW f, Sums(S, f), NEW g, Sums(T, g)
    PROVE  f[T] = g[T]
<1> DEFINE Good == {s \in SUBSET T : f[s] = g[s]}
<1>1. IsFiniteSet(T)
  BY FS_Subset
<1>2. ASSUME NEW s \in SUBSET T, \A x \in s : s \ {x} \in Good PROVE s \in Good
  <2>1. f[s] = IF s = {} THEN 0 ELSE Work(Pick(s)) + f[s \ {Pick(s)}]
    BY SumsStep
  <2>2. g[s] = IF s = {} THEN 0 ELSE Work(Pick(s)) + g[s \ {Pick(s)}]
    BY <1>1, SumsStep
  <2>3. s # {} => f[s \ {Pick(s)}] = g[s \ {Pick(s)}]
    BY <1>2 DEF Pick
  <2> QED
    BY <2>1, <2>2, <2>3
<1>3. T \in Good
  <2> HIDE DEF Good
  <2> QED
    BY <1>1, <1>2, SetClimbs
<1> QED
  BY <1>3

LEMMA SumIsFold ==
    ASSUME NEW S, IsFiniteSet(S)
    PROVE  \E f : Sums(S, f) /\ MapThenSumSet(Work, S) = f[S]
<1> DEFINE F == CHOOSE f : f = [s \in SUBSET S |-> IF s = {} THEN 0 ELSE Work(Pick(s)) + f[s \ {Pick(s)}]]
<1>1. MapThenSumSet(Work, S) = F[S]
  BY SumFolds
<1>2. \E f : f = [s \in SUBSET S |-> IF s = {} THEN 0 ELSE Work(Pick(s)) + f[s \ {Pick(s)}]]
  <2>1. PICK f : Sums(S, f)
    BY SumsExist
  <2>2. f = [s \in SUBSET S |-> f[s]]
    BY <2>1 DEF Sums, SumsTo
  <2>3. f = [s \in SUBSET S |-> IF s = {} THEN 0 ELSE Work(Pick(s)) + f[s \ {Pick(s)}]]
    BY <2>1, <2>2, SumsStep
  <2> QED
    BY <2>3
<1>3. F = [s \in SUBSET S |-> IF s = {} THEN 0 ELSE Work(Pick(s)) + F[s \ {Pick(s)}]]
  BY <1>2
<1>4. Sums(S, F)
  <2> HIDE DEF F
  <2> QED
    BY <1>3 DEF Sums, SumsTo
<1> QED
  BY <1>1, <1>4

LEMMA SumPick ==
    ASSUME NEW S, IsFiniteSet(S)
    PROVE  WorkOf(S) = IF S = {} THEN 0 ELSE Work(Pick(S)) + WorkOf(S \ {Pick(S)})
<1>1. PICK f : Sums(S, f) /\ WorkOf(S) = f[S]
  BY SumIsFold DEF WorkOf
<1>2. f[S] = IF S = {} THEN 0 ELSE Work(Pick(S)) + f[S \ {Pick(S)}]
  BY <1>1, SumsStep
<1>3. CASE S # {}
  <2> DEFINE T == S \ {Pick(S)}
  <2>1. IsFiniteSet(T) /\ T \in SUBSET S
    BY FS_Subset
  <2> HIDE DEF T
  <2>2. PICK g : Sums(T, g) /\ WorkOf(T) = g[T]
    BY <2>1, SumIsFold DEF WorkOf
  <2>3. f[T] = g[T]
    BY <1>1, <2>1, <2>2, SumsAgree
  <2> QED
    BY <1>1, <1>2, <1>3, <2>2, <2>3 DEF T
<1> QED
  BY <1>1, <1>2, <1>3

LEMMA SumType ==
    ASSUME CallOK
    PROVE  \A S \in SUBSET Rows : WorkOf(S) \in Nat
<1> DEFINE Good == {S \in SUBSET Rows : WorkOf(S) \in Nat}
<1>1. IsFiniteSet(Rows) /\ \A S \in SUBSET Rows : IsFiniteSet(S)
  BY RowsFinite
<1>2. ASSUME NEW S \in SUBSET Rows, \A x \in S : S \ {x} \in Good PROVE S \in Good
  <2>1. WorkOf(S) = IF S = {} THEN 0 ELSE Work(Pick(S)) + WorkOf(S \ {Pick(S)})
    BY <1>1, SumPick
  <2>2. S # {} => Work(Pick(S)) \in Nat /\ WorkOf(S \ {Pick(S)}) \in Nat
    BY <1>2, WorkType DEF Pick
  <2> QED
    BY <2>1, <2>2
<1> QED
  <2> HIDE DEF Good
  <2>1. \A S \in SUBSET Rows : S \in Good
    BY <1>1, <1>2, SetClimbs
  <2> QED
    BY <2>1 DEF Good

\* In whatever order the workloads are added up.
LEMMA SumWithout ==
    ASSUME CallOK
    PROVE  \A S \in SUBSET Rows : \A x \in S : WorkOf(S) = Work(x) + WorkOf(S \ {x})
<1> DEFINE Good == {S \in SUBSET Rows : \A x \in S : WorkOf(S) = Work(x) + WorkOf(S \ {x})}
<1>1. IsFiniteSet(Rows) /\ \A S \in SUBSET Rows : IsFiniteSet(S) /\ WorkOf(S) \in Nat
  BY RowsFinite, SumType
<1>2. ASSUME NEW S \in SUBSET Rows, \A x \in S : S \ {x} \in Good PROVE S \in Good
  <2> SUFFICES ASSUME NEW x \in S PROVE WorkOf(S) = Work(x) + WorkOf(S \ {x})
    OBVIOUS
  <2> DEFINE c == Pick(S)
  <2>1. c \in S
    BY DEF Pick
  <2>2. WorkOf(S) = Work(c) + WorkOf(S \ {c})
    BY <1>1, SumPick
  <2> HIDE DEF c
  <2>3. CASE x # c
    <3>1. WorkOf(S \ {c}) = Work(x) + WorkOf((S \ {c}) \ {x})
      BY <1>2, <2>1, <2>3
    <3>2. WorkOf(S \ {x}) = Work(c) + WorkOf((S \ {x}) \ {c})
      BY <1>2, <2>1, <2>3
    <3>3. (S \ {c}) \ {x} = (S \ {x}) \ {c}
      OBVIOUS
    <3>4. Work(x) \in Nat /\ Work(c) \in Nat /\ WorkOf((S \ {c}) \ {x}) \in Nat
      BY <1>1, <2>1, WorkType
    <3> QED
      BY <2>2, <3>1, <3>2, <3>3, <3>4
  <2> QED
    BY <2>2, <2>3
<1> QED
  <2> HIDE DEF Good
  <2>1. \A S \in SUBSET Rows : S \in Good
    BY <1>1, <1>2, SetClimbs
  <2> QED
    BY <2>1 DEF Good

LEMMA SumUnion ==
    ASSUME CallOK, NEW S \in SUBSET Rows
    PROVE  \A T \in SUBSET Rows : S \cap T = {} => WorkOf(S \cup T) = WorkOf(S) + WorkOf(T)
<1> DEFINE Good == {T \in SUBSET Rows : S \cap T = {} => WorkOf(S \cup T) = WorkOf(S) + WorkOf(T)}
<1>1. IsFiniteSet(Rows) /\ \A T \in SUBSET Rows : IsFiniteSet(T) /\ WorkOf(T) \in Nat
  BY RowsFinite, SumType
<1>2. ASSUME NEW T \in SUBSET Rows, \A x \in T : T \ {x} \in Good PROVE T \in Good
  <2> SUFFICES ASSUME S \cap T = {} PROVE WorkOf(S \cup T) = WorkOf(S) + WorkOf(T)
    OBVIOUS
  <2>1. CASE T = {}
    <3>1. WorkOf({}) = 0
      BY <1>1, SumPick
    <3>2. S \cup T = S
      BY <2>1
    <3> QED
      BY <1>1, <2>1, <3>1, <3>2
  <2>2. CASE T # {}
    <3>1. PICK x \in T : TRUE
      BY <2>2
    <3> DEFINE U == T \ {x}
    <3>2. U \in SUBSET Rows /\ S \cap U = {} /\ S \cup U \in SUBSET Rows /\ (S \cup T) \ {x} = S \cup U
      OBVIOUS
    <3>3. U \in Good
      BY <1>2
    <3>4. WorkOf(S \cup U) = WorkOf(S) + WorkOf(U)
      BY <3>2, <3>3
    <3>5. WorkOf(T) = Work(x) + WorkOf(U) /\ WorkOf(S \cup T) = Work(x) + WorkOf((S \cup T) \ {x})
      BY <3>1, SumWithout
    <3>6. Work(x) \in Nat /\ WorkOf(S) \in Nat /\ WorkOf(U) \in Nat
      BY <1>1, <3>2, WorkType
    <3> HIDE DEF U
    <3>7. WorkOf((S \cup T) \ {x}) = WorkOf(S \cup U)
      BY <3>2
    <3>8. WorkOf(S \cup T) = Work(x) + (WorkOf(S) + WorkOf(U))
      BY <3>4, <3>5, <3>7
    <3> QED
      BY <3>5, <3>6, <3>8
  <2> QED
    BY <2>1, <2>2
<1> QED
  <2> HIDE DEF Good
  <2>1. \A T \in SUBSET Rows : T \in Good
    BY <1>1, <1>2, SetClimbs
  <2> QED
    BY <2>1 DEF Good

LEMMA SumKept ==
    ASSUME call' = call
    PROVE  \A S : WorkOf(S)' = WorkOf(S)
  BY DEF WorkOf, MapThenSumSet, MapThenFoldSet, Work

-----------------------------------------------------------------------------
(* Merging two states                                                      *)

\* The merged state's i-th set takes the a[i]-th of one and the b[i]-th of the
\* other, where b runs against a.
Pairs(s, t, m, a, b) ==
    /\ a \in [1 .. k -> 1 .. k] /\ b \in [1 .. k -> 1 .. k] /\ m \in [1 .. k -> RowSet]
    /\ \A i \in 1 .. k : /\ a[i] + b[i] = k + 1
                         /\ m[i].items = s[a[i]].items \cup t[b[i]].items /\ m[i].sum = s[a[i]].sum + t[b[i]].sum
    /\ \A i, j \in 1 .. k : i # j => a[i] # a[j] /\ b[i] # b[j]
    /\ \A j \in 1 .. k : (\E i \in 1 .. k : a[i] = j) /\ (\E i \in 1 .. k : b[i] = j)
    /\ Decreasing(m)

LEMMA MergePairs ==
    ASSUME k \in Nat \ {0}, NEW s \in [1 .. k -> RowSet], NEW t \in [1 .. k -> RowSet],
           NEW m \in Sorted(Differenced(s, t))
    PROVE  \E a, b : Pairs(s, t, m, a, b)
<1> DEFINE d == Differenced(s, t)
<1>1. PICK p \in Bijection(1 .. k, 1 .. k) :
         /\ m = [i \in 1 .. k |-> d[p[i]]]
         /\ \A i, j \in 1 .. k : i < j => ~SetGreater(d[p[j]], d[p[i]])
  BY DEF Sorted
<1> DEFINE b == [i \in 1 .. k |-> k + 1 - p[i]]
<1>2. /\ p \in [1 .. k -> 1 .. k] /\ \A i, j \in 1 .. k : p[i] = p[j] => i = j
      /\ \A j \in 1 .. k : \E i \in 1 .. k : p[i] = j
  BY DEF Bijection, Injection, Surjection, IsInjective
<1>3. \A i \in 1 .. k : p[i] \in 1 .. k /\ p[i] \in Nat
  <2>1. \A i \in 1 .. k : p[i] \in 1 .. k
    BY <1>2
  <2>2. \A j \in 1 .. k : j \in Nat
    OBVIOUS
  <2> QED
    BY <2>1, <2>2
<1>4. \A j \in 1 .. k : k + 1 - j \in 1 .. k /\ j + (k + 1 - j) = k + 1 /\ k + 1 - (k + 1 - j) = j
  OBVIOUS
<1>5. b \in [1 .. k -> 1 .. k] /\ \A i \in 1 .. k : p[i] + b[i] = k + 1
  BY <1>3, <1>4
<1>6. \A j \in 1 .. k : \E i \in 1 .. k : b[i] = j
  <2> SUFFICES ASSUME NEW j \in 1 .. k PROVE \E i \in 1 .. k : b[i] = j
    OBVIOUS
  <2>1. PICK i \in 1 .. k : p[i] = k + 1 - j
    BY <1>2, <1>4
  <2>2. b[i] = j
    BY <1>4, <2>1
  <2> QED
    BY <2>2
<1>7. \A i, j \in 1 .. k : i # j => p[i] # p[j] /\ b[i] # b[j]
  <2> SUFFICES ASSUME NEW i \in 1 .. k, NEW j \in 1 .. k, i # j PROVE p[i] # p[j] /\ b[i] # b[j]
    OBVIOUS
  <2>1. p[i] # p[j] /\ p[i] \in Nat /\ p[j] \in Nat
    BY <1>2, <1>3
  <2> QED
    BY <2>1
<1>8. ASSUME NEW i \in 1 .. k
      PROVE  /\ m[i] \in RowSet
             /\ m[i].items = s[p[i]].items \cup t[b[i]].items /\ m[i].sum = s[p[i]].sum + t[b[i]].sum
  <2>1. d[p[i]] = [items |-> s[p[i]].items \cup t[b[i]].items, sum |-> s[p[i]].sum + t[b[i]].sum]
    BY <1>3 DEF Differenced, Merged
  <2>2. m[i] = d[p[i]]
    BY <1>1
  <2>3. s[p[i]] \in RowSet /\ t[b[i]] \in RowSet
    BY <1>3, <1>5
  <2> HIDE DEF d, b
  <2>4. s[p[i]].sum + t[b[i]].sum \in Nat
    <3>1. PICK x \in Nat, y \in Nat : x = s[p[i]].sum /\ y = t[b[i]].sum
      BY <2>3 DEF RowSet
    <3> QED
      BY <3>1
  <2>5. s[p[i]].items \cup t[b[i]].items \in SUBSET Rows
    BY <2>3 DEF RowSet
  <2> QED
    BY <2>1, <2>2, <2>4, <2>5 DEF RowSet
<1>9. Decreasing(m)
  <2> SUFFICES ASSUME NEW i \in 1 .. k, NEW j \in 1 .. k, i < j PROVE m[i].sum >= m[j].sum
    BY DEF Decreasing
  <2>1. ~(m[j].sum > m[i].sum)
    BY <1>1 DEF SetGreater
  <2>2. m[i].sum \in Nat /\ m[j].sum \in Nat
    BY <1>8 DEF RowSet
  <2> QED
    BY <2>1, <2>2
<1>10. m \in [1 .. k -> RowSet]
  BY <1>1, <1>8
<1> HIDE DEF b, d
<1>11. Pairs(s, t, m, p, b)
  BY <1>2, <1>5, <1>6, <1>7, <1>8, <1>9, <1>10 DEF Pairs
<1> QED
  BY <1>11

LEMMA PairsHas ==
    ASSUME NEW s, NEW t, NEW m, NEW a, NEW b, Pairs(s, t, m, a, b)
    PROVE  \A r : Has(m, r) <=> Has(s, r) \/ Has(t, r)
<1> SUFFICES ASSUME NEW r PROVE Has(m, r) <=> Has(s, r) \/ Has(t, r)
  OBVIOUS
<1>1. \A i \in 1 .. k : m[i].items = s[a[i]].items \cup t[b[i]].items /\ a[i] \in 1 .. k /\ b[i] \in 1 .. k
  BY DEF Pairs
<1>2. \A j \in 1 .. k : (\E i \in 1 .. k : a[i] = j) /\ (\E i \in 1 .. k : b[i] = j)
  BY DEF Pairs
<1>3. Has(m, r) => Has(s, r) \/ Has(t, r)
  BY <1>1 DEF Has
<1>4. Has(s, r) => Has(m, r)
  BY <1>1, <1>2 DEF Has
<1>5. Has(t, r) => Has(m, r)
  BY <1>1, <1>2 DEF Has
<1> QED
  BY <1>3, <1>4, <1>5

LEMMA MergedApart ==
    ASSUME NEW s, NEW t, NEW m, NEW a, NEW b, Pairs(s, t, m, a, b), StateOK(s), StateOK(t), Apart(s, t)
    PROVE  \A i, j \in 1 .. k : i # j => m[i].items \cap m[j].items = {}
<1> SUFFICES ASSUME NEW i \in 1 .. k, NEW j \in 1 .. k, i # j PROVE m[i].items \cap m[j].items = {}
  OBVIOUS
<1>1. /\ a[i] \in 1 .. k /\ b[i] \in 1 .. k /\ a[j] \in 1 .. k /\ b[j] \in 1 .. k /\ a[i] # a[j] /\ b[i] # b[j]
      /\ m[i].items = s[a[i]].items \cup t[b[i]].items /\ m[j].items = s[a[j]].items \cup t[b[j]].items
  BY DEF Pairs
<1>2. s[a[i]].items \cap s[a[j]].items = {} /\ t[b[i]].items \cap t[b[j]].items = {}
  BY <1>1 DEF StateOK
<1>3. s[a[i]].items \cap t[b[j]].items = {} /\ s[a[j]].items \cap t[b[i]].items = {}
  BY <1>1 DEF Apart
<1> QED
  BY <1>1, <1>2, <1>3

LEMMA MergedSums ==
    ASSUME CallOK, NEW s, NEW t, NEW m, NEW a, NEW b, Pairs(s, t, m, a, b), StateOK(s), StateOK(t), Apart(s, t)
    PROVE  \A i \in 1 .. k : m[i].sum = WorkOf(m[i].items)
<1> SUFFICES ASSUME NEW i \in 1 .. k PROVE m[i].sum = WorkOf(m[i].items)
  OBVIOUS
<1>1. /\ a[i] \in 1 .. k /\ b[i] \in 1 .. k
      /\ m[i].items = s[a[i]].items \cup t[b[i]].items /\ m[i].sum = s[a[i]].sum + t[b[i]].sum
  BY DEF Pairs
<1>2. /\ s[a[i]].items \in SUBSET Rows /\ t[b[i]].items \in SUBSET Rows
      /\ s[a[i]].sum = WorkOf(s[a[i]].items) /\ t[b[i]].sum = WorkOf(t[b[i]].items)
  BY <1>1 DEF StateOK, RowSet
<1>3. s[a[i]].items \cap t[b[i]].items = {}
  BY <1>1 DEF Apart
<1> QED
  BY <1>1, <1>2, <1>3, SumUnion

\* Neither spread is exceeded: where a goes up, b goes down.
LEMMA MergedNarrow ==
    ASSUME k \in Nat \ {0}, NEW s, NEW t, NEW m, NEW a, NEW b, Pairs(s, t, m, a, b), StateOK(s), StateOK(t)
    PROVE  Spread(m) <= Spread(s) \/ Spread(m) <= Spread(t)
<1>1. 1 \in 1 .. k /\ k \in 1 .. k
  OBVIOUS
<1>2. /\ m[1].sum = s[a[1]].sum + t[b[1]].sum /\ m[k].sum = s[a[k]].sum + t[b[k]].sum
      /\ a[1] \in 1 .. k /\ a[k] \in 1 .. k /\ b[1] \in 1 .. k /\ b[k] \in 1 .. k
      /\ a[1] + b[1] = k + 1 /\ a[k] + b[k] = k + 1
  BY <1>1 DEF Pairs
<1>3. \A i \in 1 .. k : s[i].sum \in Nat /\ t[i].sum \in Nat
  BY DEF StateOK, RowSet
<1>4. \A i, j \in 1 .. k : i <= j => s[j].sum <= s[i].sum /\ t[j].sum <= t[i].sum
  <2> SUFFICES ASSUME NEW i \in 1 .. k, NEW j \in 1 .. k, i <= j PROVE s[j].sum <= s[i].sum /\ t[j].sum <= t[i].sum
    OBVIOUS
  <2>1. CASE i = j
    BY <1>3, <2>1
  <2>2. CASE i < j
    <3>1. s[i].sum >= s[j].sum /\ t[i].sum >= t[j].sum
      BY <2>2 DEF StateOK, Decreasing
    <3> QED
      BY <1>3, <3>1
  <2> QED
    BY <2>1, <2>2
<1>5. \A i \in 1 .. k : s[k].sum <= s[i].sum /\ s[i].sum <= s[1].sum /\ t[k].sum <= t[i].sum /\ t[i].sum <= t[1].sum
  BY <1>1, <1>4
<1>6. CASE a[1] <= a[k]
  <2>1. b[k] <= b[1]
    BY <1>2, <1>6
  <2>2. t[b[1]].sum <= t[b[k]].sum /\ s[a[1]].sum <= s[1].sum /\ s[k].sum <= s[a[k]].sum
    BY <1>2, <1>4, <1>5, <2>1
  <2>3. m[1].sum - m[k].sum <= s[1].sum - s[k].sum
    BY <1>1, <1>2, <1>3, <2>2
  <2> QED
    BY <2>3 DEF Spread
<1>7. CASE a[k] <= a[1]
  <2>1. b[1] <= b[k]
    BY <1>2, <1>7
  <2>2. s[a[1]].sum <= s[a[k]].sum /\ t[b[1]].sum <= t[1].sum /\ t[k].sum <= t[b[k]].sum
    BY <1>2, <1>4, <1>5, <1>7
  <2>3. m[1].sum - m[k].sum <= t[1].sum - t[k].sum
    BY <1>1, <1>2, <1>3, <2>2
  <2> QED
    BY <2>3 DEF Spread
<1> QED
  BY <1>2, <1>6, <1>7

LEMMA MergedLevel ==
    ASSUME CallOK, k \in Nat \ {0}, NEW s, NEW t, NEW m, NEW a, NEW b, Pairs(s, t, m, a, b),
           StateOK(s), StateOK(t), Apart(s, t), Equal
    PROVE  Level(m)
<1>1. PICK x \in Nat, y \in Nat : \A i \in 1 .. k : Cardinality(s[i].items) = x /\ Cardinality(t[i].items) = y
  <2>1. 1 \in 1 .. k
    OBVIOUS
  <2>2. \A i \in 1 .. k : s[i].items \in SUBSET Rows /\ t[i].items \in SUBSET Rows
    BY DEF StateOK, RowSet
  <2>3. Cardinality(s[1].items) \in Nat /\ Cardinality(t[1].items) \in Nat
    BY <2>1, <2>2, RowsFinite
  <2>4. \A i \in 1 .. k : /\ Cardinality(s[i].items) = Cardinality(s[1].items)
                          /\ Cardinality(t[i].items) = Cardinality(t[1].items)
    BY <2>1 DEF StateOK, Level
  <2> QED
    BY <2>3, <2>4
<1>2. ASSUME NEW i \in 1 .. k PROVE Cardinality(m[i].items) = x + y
  <2>1. a[i] \in 1 .. k /\ b[i] \in 1 .. k /\ m[i].items = s[a[i]].items \cup t[b[i]].items
    BY DEF Pairs
  <2>2. s[a[i]].items \cap t[b[i]].items = {}
    BY <2>1 DEF Apart
  <2>3. s[a[i]].items \in SUBSET Rows /\ t[b[i]].items \in SUBSET Rows
    BY <2>1 DEF StateOK, RowSet
  <2>4. IsFiniteSet(s[a[i]].items) /\ IsFiniteSet(t[b[i]].items)
    BY <2>3, RowsFinite
  <2>5. Cardinality(m[i].items) =
           Cardinality(s[a[i]].items) + Cardinality(t[b[i]].items) - Cardinality({})
    BY <2>1, <2>2, <2>4, FS_Union
  <2>6. Cardinality(s[a[i]].items) = x /\ Cardinality(t[b[i]].items) = y
    BY <1>1, <2>1
  <2> QED
    BY <2>5, <2>6, FS_EmptySet
<1> QED
  BY <1>2 DEF Level

LEMMA EmptyIsLight ==
    ASSUME CallOK, ~Equal, NEW s, StateOK(s)
    PROVE  \A i \in 1 .. k : s[i].sum \in Nat /\ (s[i].sum = 0 <=> s[i].items = {})
<1> SUFFICES ASSUME NEW i \in 1 .. k PROVE s[i].sum \in Nat /\ (s[i].sum = 0 <=> s[i].items = {})
  OBVIOUS
<1>1. s[i].items \in SUBSET Rows /\ s[i].sum \in Nat /\ s[i].sum = WorkOf(s[i].items)
  BY DEF StateOK, RowSet
<1>2. IsFiniteSet({}) /\ WorkOf({}) = 0
  BY SumPick, FS_EmptySet
<1>3. ASSUME s[i].items # {} PROVE s[i].sum > 0
  <2>1. PICK x \in s[i].items : TRUE
    BY <1>3
  <2>2. WorkOf(s[i].items) = Work(x) + WorkOf(s[i].items \ {x})
    BY <1>1, SumWithout
  <2>3. Work(x) \in Nat /\ Work(x) > 0 /\ WorkOf(s[i].items \ {x}) \in Nat
    <3>1. s[i].items \ {x} \in SUBSET Rows
      BY <1>1
    <3>2. WorkOf(s[i].items \ {x}) \in Nat
      BY <3>1, SumType
    <3> QED
      BY <1>1, <3>2, WorkType
  <2> QED
    BY <1>1, <2>2, <2>3
<1> QED
  BY <1>1, <1>2, <1>3

LEMMA MergedSparse ==
    ASSUME CallOK, k \in Nat \ {0}, NEW s, NEW t, NEW m, NEW a, NEW b, Pairs(s, t, m, a, b),
           StateOK(s), StateOK(t), ~Equal
    PROVE  Sparse(m)
<1> SUFFICES ASSUME NEW i \in 1 .. k, m[i].items = {},
                    NEW j \in 1 .. k, NEW x \in m[j].items, NEW y \in m[j].items, x # y
             PROVE  FALSE
  BY DEF Sparse
<1>1. /\ a[i] \in 1 .. k /\ b[i] \in 1 .. k /\ a[j] \in 1 .. k /\ b[j] \in 1 .. k
      /\ a[i] + b[i] = k + 1 /\ a[j] + b[j] = k + 1
      /\ m[i].items = s[a[i]].items \cup t[b[i]].items /\ m[j].items = s[a[j]].items \cup t[b[j]].items
  BY DEF Pairs
<1>2. s[a[i]].items = {} /\ t[b[i]].items = {}
  BY <1>1
<1>3. /\ \A u, v \in s[a[j]].items : u = v
      /\ \A u, v \in t[b[j]].items : u = v
  BY <1>1, <1>2 DEF StateOK, Sparse
<1>4. s[a[j]].items # {} /\ t[b[j]].items # {}
  BY <1>1, <1>3
<1>5. /\ s[a[i]].sum = 0 /\ s[a[j]].sum \in Nat /\ s[a[j]].sum # 0
      /\ t[b[i]].sum = 0 /\ t[b[j]].sum \in Nat /\ t[b[j]].sum # 0
  BY <1>1, <1>2, <1>4, EmptyIsLight
<1>6. ~(a[i] < a[j]) /\ ~(b[i] < b[j])
  <2>1. a[i] < a[j] => s[a[i]].sum >= s[a[j]].sum
    BY <1>1 DEF StateOK, Decreasing
  <2>2. b[i] < b[j] => t[b[i]].sum >= t[b[j]].sum
    BY <1>1 DEF StateOK, Decreasing
  <2> QED
    BY <1>5, <2>1, <2>2
<1>7. a[i] # a[j] /\ b[i] # b[j]
  BY <1>2, <1>4
<1> QED
  BY <1>1, <1>6, <1>7

LEMMA MergedOK ==
    ASSUME CallOK, k \in Nat \ {0}, NEW s, NEW t, StateOK(s), StateOK(t), Apart(s, t),
           NEW m \in Sorted(Differenced(s, t))
    PROVE  StateOK(m) /\ \A r : Has(m, r) <=> Has(s, r) \/ Has(t, r)
<1>1. s \in [1 .. k -> RowSet] /\ t \in [1 .. k -> RowSet] /\ Narrow(s) /\ Narrow(t)
  BY DEF StateOK
<1>2. PICK a, b : Pairs(s, t, m, a, b)
  BY <1>1, MergePairs
<1>3. m \in [1 .. k -> RowSet] /\ Decreasing(m)
  BY <1>2 DEF Pairs
<1>4. Narrow(m)
  <2>1. Spread(m) \in Int /\ Spread(s) \in Int /\ Spread(t) \in Int
    <3>1. 1 \in 1 .. k /\ k \in 1 .. k
      OBVIOUS
    <3>2. \A u \in [1 .. k -> RowSet] : u[1].sum \in Nat /\ u[k].sum \in Nat
      BY <3>1 DEF RowSet
    <3> QED
      BY <1>1, <1>3, <3>2 DEF Spread
  <2>2. \A i \in Rows : Work(i) \in Nat
    BY WorkType
  <2>3. Spread(m) <= Spread(s) \/ Spread(m) <= Spread(t)
    BY <1>2, MergedNarrow
  <2>4. CASE Equal
    <3>1. PICK i \in Rows, j \in Rows, p \in Rows, q \in Rows :
             Spread(s) <= Work(i) - Work(j) /\ Spread(t) <= Work(p) - Work(q)
      BY <1>1, <2>4 DEF Narrow
    <3>2. Spread(m) <= Work(i) - Work(j) \/ Spread(m) <= Work(p) - Work(q)
      BY <2>1, <2>2, <2>3, <3>1
    <3> QED
      BY <2>4, <3>2 DEF Narrow
  <2>5. CASE ~Equal
    <3>1. PICK i \in Rows, j \in Rows : Spread(s) <= Work(i) /\ Spread(t) <= Work(j)
      BY <1>1, <2>5 DEF Narrow
    <3>2. Spread(m) <= Work(i) \/ Spread(m) <= Work(j)
      BY <2>1, <2>2, <2>3, <3>1
    <3> QED
      BY <2>5, <3>2 DEF Narrow
  <2> QED
    BY <2>4, <2>5
<1>5. \A i \in 1 .. k : m[i].sum = WorkOf(m[i].items)
  BY <1>2, MergedSums
<1>6. \A i, j \in 1 .. k : i # j => m[i].items \cap m[j].items = {}
  BY <1>2, MergedApart
<1>7. Equal => Level(m)
  BY <1>2, MergedLevel
<1>8. ~Equal => Sparse(m)
  BY <1>2, MergedSparse
<1>9. \A r : Has(m, r) <=> Has(s, r) \/ Has(t, r)
  BY <1>2, PairsHas
<1> QED
  BY <1>3, <1>4, <1>5, <1>6, <1>7, <1>8, <1>9 DEF StateOK

-----------------------------------------------------------------------------
(* Splitting the rows                                                      *)

LEMMA SmallSums ==
    ASSUME CallOK
    PROVE  WorkOf({}) = 0 /\ \A r \in Rows : WorkOf({r}) = Work(r)
<1>1. WorkOf({}) = 0
  BY SumPick, FS_EmptySet
<1>2. ASSUME NEW r \in Rows PROVE WorkOf({r}) = Work(r)
  <2>1. {r} \in SUBSET Rows /\ r \in {r} /\ {r} \ {r} = {} /\ Work(r) \in Nat
    BY WorkType
  <2>2. WorkOf({r}) = Work(r) + WorkOf({r} \ {r})
    BY <2>1, SumWithout
  <2> QED
    BY <1>1, <2>1, <2>2
<1> QED
  BY <1>1, <1>2

LEMMA SingleOK ==
    ASSUME CallOK, k \in Nat \ {0}, ~Equal, NEW r \in Rows
    PROVE  StateOK(Single(r)) /\ \A x : Has(Single(r), x) <=> x = r
<1> DEFINE s == Single(r)
<1>1. /\ \A i \in 1 .. k : s[i].items = (IF i = 1 THEN {r} ELSE {}) /\ s[i].sum = (IF i = 1 THEN Work(r) ELSE 0)
      /\ s \in [1 .. k -> RowSet] /\ 1 \in 1 .. k /\ k \in 1 .. k /\ Work(r) \in Nat
  BY WorkType DEF Single, SetOf, EmptySet, RowSet
<1> HIDE DEF s
<1>2. Decreasing(s)
  <2> SUFFICES ASSUME NEW i \in 1 .. k, NEW j \in 1 .. k, i < j PROVE s[i].sum >= s[j].sum
    BY DEF Decreasing
  <2>1. j # 1
    OBVIOUS
  <2> QED
    BY <1>1, <2>1
<1>3. \A i \in 1 .. k : s[i].sum = WorkOf(s[i].items)
  BY <1>1, SmallSums
<1>4. \A i, j \in 1 .. k : i # j => s[i].items \cap s[j].items = {}
  BY <1>1
<1>5. Sparse(s)
  BY <1>1 DEF Sparse
<1>6. Narrow(s)
  <2>1. Spread(s) <= Work(r)
    BY <1>1 DEF Spread
  <2> QED
    BY <2>1 DEF Narrow
<1>7. \A x : Has(s, x) <=> x = r
  BY <1>1 DEF Has
<1> QED
  BY <1>1, <1>2, <1>3, <1>4, <1>5, <1>6, <1>7 DEF StateOK, s

\* Places in chunks of m.
Places(n, m) ==
    /\ \A c \in 1 .. n \div m : \A i \in 1 .. m : c * m + 1 - i \in 1 .. n
    /\ \A c, d \in 1 .. n \div m : \A i, j \in 1 .. m : c * m + 1 - i = d * m + 1 - j => c = d /\ i = j
    /\ \A p \in 1 .. n : \E c \in 1 .. n \div m : \E i \in 1 .. m : p = c * m + 1 - i

LEMMA ChunkPlaces ==
    ASSUME NEW n \in Nat, NEW m \in Nat \ {0}, n % m = 0
    PROVE  Places(n, m)
<1>1. PICK q \in Nat : q = n \div m /\ n = q * m
  <2>1. n \div m \in Nat /\ n = (n \div m) * m + (n % m)
    BY SMTT(30)
  <2> QED
    BY <2>1
<1>2. \A c, d \in Nat : c < d => c * m + m <= d * m
  <2> SUFFICES ASSUME NEW c \in Nat, NEW d \in Nat, c < d PROVE c * m + m <= d * m
    OBVIOUS
  <2>1. PICK e \in Nat : d = c + 1 + e
    <3>1. d - c - 1 \in Nat /\ d = c + 1 + (d - c - 1)
      OBVIOUS
    <3> QED
      BY <3>1
  <2>2. d * m = c * m + m + e * m /\ e * m \in Nat /\ c * m \in Nat
    BY <2>1
  <2> QED
    BY <2>2
<1>3. ASSUME NEW c \in 1 .. q, NEW i \in 1 .. m PROVE c * m + 1 - i \in 1 .. n
  <2>1. c \in Nat /\ 0 < c /\ c <= q /\ 0 * m = 0 /\ c * m \in Nat /\ q * m \in Nat
    OBVIOUS
  <2>2. m <= c * m
    <3>1. 0 * m + m <= c * m
      BY <1>2, <2>1
    <3> QED
      BY <2>1, <3>1
  <2>3. c * m <= q * m
    <3>1. c < q => c * m + m <= q * m
      BY <1>2, <2>1
    <3> QED
      BY <2>1, <3>1
  <2> DEFINE x == c * m
             y == q * m
  <2>4. x \in Nat /\ y \in Nat /\ m <= x /\ x <= y /\ n = y
    BY <1>1, <2>1, <2>2, <2>3
  <2> HIDE DEF x, y
  <2>5. x + 1 - i \in 1 .. n
    BY <2>4
  <2> QED
    BY <2>5 DEF x
<1>4. ASSUME NEW c \in 1 .. q, NEW d \in 1 .. q, NEW i \in 1 .. m, NEW j \in 1 .. m, c * m + 1 - i = d * m + 1 - j
      PROVE  c = d /\ i = j
  <2> DEFINE x == c * m
             y == d * m
  <2>1. c \in Nat /\ d \in Nat /\ x \in Nat /\ y \in Nat /\ x + 1 - i = y + 1 - j
    BY <1>4
  <2>2. (c < d => x + m <= y) /\ (d < c => y + m <= x) /\ (c = d => x = y)
    BY <1>2, <2>1
  <2> HIDE DEF x, y
  <2>3. ~(c < d) /\ ~(d < c)
    BY <2>1, <2>2
  <2> QED
    BY <2>1, <2>2, <2>3
<1>5. ASSUME NEW p \in 1 .. n PROVE \E c \in 1 .. q : \E i \in 1 .. m : p = c * m + 1 - i
  <2>1. PICK e \in Nat, f \in 0 .. m - 1 : p - 1 = e * m + f
    <3>1. (p - 1) \div m \in Nat /\ (p - 1) % m \in 0 .. m - 1 /\ p - 1 = ((p - 1) \div m) * m + ((p - 1) % m)
      BY SMTT(30)
    <3> QED
      BY <3>1
  <2>2. (e + 1) * m = e * m + m
    OBVIOUS
  <2>3. e < q
    <3> SUFFICES ASSUME q <= e PROVE FALSE
      BY <1>1, <2>1
    <3> DEFINE x == e * m
               y == q * m
    <3>1. y <= x
      <4>1. q < e => q * m + m <= e * m
        BY <1>2
      <4> QED
        BY <4>1
    <3>2. x \in Nat /\ y \in Nat /\ n = y /\ p - 1 = x + f
      BY <1>1, <2>1
    <3> HIDE DEF x, y
    <3> QED
      BY <3>1, <3>2
  <2>4. e + 1 \in 1 .. q /\ m - f \in 1 .. m
    BY <2>1, <2>3
  <2>5. p = (e + 1) * m + 1 - (m - f)
    <3> DEFINE x == e * m
    <3>1. x \in Nat /\ p - 1 = x + f /\ (e + 1) * m = x + m
      BY <2>1, <2>2
    <3> HIDE DEF x
    <3> QED
      BY <2>1, <3>1
  <2> QED
    BY <2>4, <2>5
<1> QED
  BY <1>1, <1>3, <1>4, <1>5 DEF Places

\* The p-th row by workload is at one place of one chunk.
LEMMA ChunkRows ==
    ASSUME CallOK, Equal, k = call.k
    PROVE  /\ \A c \in 1 .. Len(call.tokens) \div k : \A i \in 1 .. k :
                 c * k + 1 - i \in 1 .. Len(call.tokens) /\ Chunk(c)[i] = SetOf(ByWork[c * k + 1 - i])
           /\ \A c, d \in 1 .. Len(call.tokens) \div k : \A i, j \in 1 .. k :
                 Chunk(c)[i].items \cap Chunk(d)[j].items # {} => c = d /\ i = j
           /\ \A r \in Rows : \E c \in 1 .. Len(call.tokens) \div k : Has(Chunk(c), r)
<1> DEFINE n == Len(call.tokens)
           o == ByWork
           C == 1 .. n \div k
<1>1. n \in Nat /\ k \in Nat \ {0} /\ n % k = 0 /\ Rows = 1 .. n
  BY CallFacts
<1>2. o \in Bijection(1 .. n, Rows)
  BY SortedByWork, RowsFinite DEF ByWork
<1>3. /\ \A p \in 1 .. n : o[p] \in Rows
      /\ \A p, q \in 1 .. n : o[p] = o[q] => p = q
      /\ \A r \in Rows : \E p \in 1 .. n : o[p] = r
  BY <1>2 DEF Bijection, Injection, Surjection, IsInjective
<1>4. \A c \in C : \A i \in 1 .. k : Chunk(c)[i] = SetOf(o[c * k + 1 - i])
  BY DEF Chunk
<1> HIDE DEF n, o
<1>5. /\ \A c \in C : \A i \in 1 .. k : c * k + 1 - i \in 1 .. n
      /\ \A c, d \in C : \A i, j \in 1 .. k : c * k + 1 - i = d * k + 1 - j => c = d /\ i = j
      /\ \A p \in 1 .. n : \E c \in C : \E i \in 1 .. k : p = c * k + 1 - i
  <2>1. Places(n, k)
    BY <1>1, ChunkPlaces
  <2> QED
    BY <2>1 DEF Places
<1> HIDE DEF C
<1>6. ASSUME NEW c \in C, NEW d \in C, NEW i \in 1 .. k, NEW j \in 1 .. k, Chunk(c)[i].items \cap Chunk(d)[j].items # {}
      PROVE  c = d /\ i = j
  <2> DEFINE p == c * k + 1 - i
             q == d * k + 1 - j
  <2>1. p \in 1 .. n /\ q \in 1 .. n /\ Chunk(c)[i] = SetOf(o[p]) /\ Chunk(d)[j] = SetOf(o[q])
    BY <1>4, <1>5
  <2>2. p = q => c = d /\ i = j
    BY <1>5
  <2> HIDE DEF p, q
  <2>3. o[p] = o[q]
    BY <1>6, <2>1 DEF SetOf
  <2> QED
    BY <1>3, <2>1, <2>2, <2>3
<1>7. ASSUME NEW r \in Rows PROVE \E c \in C : Has(Chunk(c), r)
  <2>1. PICK p \in 1 .. n : o[p] = r
    BY <1>3
  <2>2. PICK c \in C, i \in 1 .. k : p = c * k + 1 - i
    BY <1>5
  <2>3. Chunk(c)[i] = SetOf(r)
    BY <1>4, <2>1, <2>2
  <2>4. r \in Chunk(c)[i].items
    BY <2>3 DEF SetOf
  <2> QED
    BY <2>4 DEF Has
<1> QED
  BY <1>4, <1>5, <1>6, <1>7 DEF C, n, o

LEMMA ChunkOK ==
    ASSUME CallOK, Equal, k = call.k, NEW c \in 1 .. Len(call.tokens) \div k
    PROVE  StateOK(Chunk(c))
<1> DEFINE n == Len(call.tokens)
           o == ByWork
           s == Chunk(c)
           at == [i \in 1 .. k |-> c * k + 1 - i]
<1>1. n \in Nat /\ k \in Nat \ {0} /\ \A r \in Rows : Work(r) \in Nat
  BY CallFacts, WorkType
<1>2. o \in Bijection(1 .. n, Rows) /\ \A p, q \in 1 .. n : p < q => Work(o[p]) <= Work(o[q])
  BY SortedByWork, RowsFinite DEF ByWork
<1>3. \A p \in 1 .. n : o[p] \in Rows
  BY <1>2 DEF Bijection, Injection
<1>4. \A i \in 1 .. k : at[i] \in 1 .. n /\ s[i] = SetOf(o[at[i]])
  BY ChunkRows
<1>5. \A i, j \in 1 .. k : i < j => at[j] < at[i]
  <2> SUFFICES ASSUME NEW i \in 1 .. k, NEW j \in 1 .. k, i < j PROVE at[j] < at[i]
    OBVIOUS
  <2> DEFINE x == c * k
  <2>1. x \in Int /\ at[i] = x + 1 - i /\ at[j] = x + 1 - j
    BY <1>1
  <2> HIDE DEF x, at
  <2> QED
    BY <2>1
<1>6. s = [i \in 1 .. k |-> s[i]]
  BY DEF Chunk
<1>7. \A i, j \in 1 .. k : i # j => s[i].items \cap s[j].items = {}
  BY ChunkRows
<1> HIDE DEF n, o, s, at
<1>8. \A i \in 1 .. k : /\ s[i].items = {o[at[i]]} /\ s[i].sum = Work(o[at[i]])
                        /\ o[at[i]] \in Rows /\ s[i] \in RowSet
  <2> SUFFICES ASSUME NEW i \in 1 .. k
               PROVE  /\ s[i].items = {o[at[i]]} /\ s[i].sum = Work(o[at[i]])
                      /\ o[at[i]] \in Rows /\ s[i] \in RowSet
    OBVIOUS
  <2>1. s[i] = SetOf(o[at[i]]) /\ o[at[i]] \in Rows
    BY <1>3, <1>4
  <2>2. Work(o[at[i]]) \in Nat
    BY <1>1, <2>1
  <2> QED
    BY <2>1, <2>2 DEF SetOf, RowSet
<1>9. s \in [1 .. k -> RowSet]
  BY <1>6, <1>8
<1>10. Decreasing(s)
  <2> SUFFICES ASSUME NEW i \in 1 .. k, NEW j \in 1 .. k, i < j PROVE s[i].sum >= s[j].sum
    BY DEF Decreasing
  <2>1. Work(o[at[j]]) <= Work(o[at[i]])
    BY <1>2, <1>4, <1>5
  <2> QED
    BY <1>1, <1>8, <2>1
<1>11. \A i \in 1 .. k : s[i].sum = WorkOf(s[i].items)
  BY <1>8, SmallSums
<1>12. Level(s)
  <2>1. \A x : Cardinality({x}) = 1
    BY FS_Singleton
  <2>2. \A i \in 1 .. k : Cardinality(s[i].items) = 1
    BY <1>8, <2>1
  <2> QED
    BY <2>2 DEF Level
<1>13. Narrow(s)
  <2>1. 1 \in 1 .. k /\ k \in 1 .. k
    BY <1>1
  <2>2. Spread(s) = Work(o[at[1]]) - Work(o[at[k]]) /\ o[at[1]] \in Rows /\ o[at[k]] \in Rows
    BY <1>8, <2>1 DEF Spread
  <2>3. Spread(s) <= Work(o[at[1]]) - Work(o[at[k]])
    BY <1>1, <2>2
  <2> QED
    BY <2>2, <2>3 DEF Narrow
<1>14. StateOK(s)
  BY <1>7, <1>9, <1>10, <1>11, <1>12, <1>13 DEF StateOK
<1> QED
  BY <1>14 DEF s

-----------------------------------------------------------------------------
(* The number of micro-batches                                             *)

LEMMA OfTwo ==
    ASSUME NEW a \in Int, NEW b \in Int
    PROVE  /\ Max({a, b}) = (IF a >= b THEN a ELSE b)
           /\ Min({a, b}) = (IF a <= b THEN a ELSE b)
<1>1. \E x \in {a, b} : \A y \in {a, b} : x >= y
  OBVIOUS
<1>2. \E x \in {a, b} : \A y \in {a, b} : x <= y
  OBVIOUS
<1>3. Max({a, b}) \in {a, b} /\ Max({a, b}) >= a /\ Max({a, b}) >= b
  BY <1>1 DEF Max
<1>4. Min({a, b}) \in {a, b} /\ Min({a, b}) <= a /\ Min({a, b}) <= b
  BY <1>2 DEF Min
<1> QED
  BY <1>3, <1>4

LEMMA CeilDivPositive ==
    ASSUME NEW a \in Nat \ {0}, NEW b \in Nat \ {0}
    PROVE  CeilDiv(a, b) \in Nat \ {0}
<1>1. PICK q \in Int, r \in 0 .. b - 1 : q = (a + b - 1) \div b /\ a + b - 1 = q * b + r
  <2>1. /\ (a + b - 1) \div b \in Int /\ (a + b - 1) % b \in 0 .. b - 1
        /\ a + b - 1 = ((a + b - 1) \div b) * b + ((a + b - 1) % b)
    BY SMTT(30)
  <2> QED
    BY <2>1
<1>2. q >= 1
  <2> SUFFICES ASSUME q <= 0 PROVE FALSE
    BY <1>1
  <2>1. q * b <= 0
    BY <1>1
  <2> DEFINE x == q * b
  <2>2. x \in Int /\ x <= 0 /\ a + b - 1 = x + r
    BY <1>1, <2>1
  <2> HIDE DEF x
  <2> QED
    BY <2>2
<1> QED
  BY <1>1, <1>2 DEF CeilDiv

LEMMA WantedFacts ==
    ASSUME CallOK, ~Equal
    PROVE  Wanted \in Nat \ {0} /\ (Wanted > Len(call.tokens) => call.divisor > 1)
<1>1. PICK n \in Nat \ {0}, o \in Nat, d \in Nat \ {0} :
         n = Len(call.tokens) /\ o = call.others /\ d = call.divisor /\ o <= n
  BY CallFacts
<1>2. TotalTokens(call) \in Nat \ {0}
  BY CallFacts, TotalAssumption DEF CallOK, Equal, Callers
<1>3. PICK t \in Nat \ {0} : t = CeilDiv(TotalTokens(call), Limit)
  BY <1>2, CeilDivPositive, NumbersAssumption
<1>4. PICK x \in Nat \ {0} : x = Max({Min({n, t}), o}) /\ x <= n
  <2>1. Min({n, t}) = IF n <= t THEN n ELSE t
    BY OfTwo
  <2>2. PICK y \in Nat \ {0} : y = Min({n, t}) /\ y <= n
    BY <2>1
  <2>3. Max({y, o}) = IF y >= o THEN y ELSE o
    BY OfTwo
  <2> QED
    BY <1>1, <2>2, <2>3
<1>5. Wanted = CeilDiv(x, d) * d
  BY <1>1, <1>3, <1>4 DEF Wanted
<1>6. CeilDiv(x, d) \in Nat \ {0}
  BY CeilDivPositive
<1>7. CeilDiv(x, d) * d \in Nat \ {0}
  <2>1. \A e, f \in Nat \ {0} : e * f \in Nat \ {0}
    OBVIOUS
  <2> QED
    BY <1>6, <2>1
<1>8. d = 1 => CeilDiv(x, d) * d = x
  BY DEF CeilDiv
<1> QED
  BY <1>1, <1>4, <1>5, <1>7, <1>8

-----------------------------------------------------------------------------
(* The last state is sane                                                  *)

\* If one of the k sets were empty, the others would have too few rows.
LEMMA NoneEmpty ==
    ASSUME CallOK, k \in Nat \ {0}, k <= Len(call.tokens), ~Equal, NEW s, StateOK(s), \A r \in Rows : Has(s, r)
    PROVE  \A i \in 1 .. k : s[i].items # {}
<1> SUFFICES ASSUME NEW e \in 1 .. k, s[e].items = {} PROVE FALSE
  OBVIOUS
<1> DEFINE K == (1 .. k) \ {e}
           f == [r \in Rows |-> CHOOSE i \in 1 .. k : r \in s[i].items]
<1>1. \A j \in 1 .. k : \A x, y \in s[j].items : x = y
  BY DEF StateOK, Sparse
<1>2. \A r \in Rows : f[r] \in 1 .. k /\ r \in s[f[r]].items
  BY DEF Has
<1>3. f \in Injection(Rows, K)
  <2>1. \A r \in Rows : f[r] \in K
    BY <1>2
  <2>2. \A q, r \in Rows : f[q] = f[r] => q = r
    BY <1>1, <1>2
  <2> QED
    BY <2>1, <2>2 DEF Injection, IsInjective
<1>4. IsFiniteSet(K) /\ Cardinality(K) = k - 1
  <2>1. IsFiniteSet(1 .. k) /\ Cardinality(1 .. k) = IF 1 > k THEN 0 ELSE k - 1 + 1
    BY FS_Interval
  <2>2. Cardinality(1 .. k) = k
    BY <2>1
  <2> QED
    BY <2>1, <2>2, FS_RemoveElement
<1>5. Cardinality(Rows) <= Cardinality(K)
  <2> HIDE DEF f, K
  <2> QED
    BY <1>3, <1>4, FS_Injection
<1>6. Cardinality(Rows) = Len(call.tokens) /\ Len(call.tokens) \in Nat
  BY RowsFinite, CallFacts
<1> QED
  BY <1>4, <1>5, <1>6

\* k sets of x rows each.
LEMMA LevelShare ==
    ASSUME CallOK, k \in Nat \ {0}, NEW s, StateOK(s), Equal, \A r \in Rows : Has(s, r)
    PROVE  \A i \in 1 .. k : Cardinality(s[i].items) * k = Len(call.tokens) /\ s[i].items # {}
<1>1. PICK x \in Nat : \A i \in 1 .. k : Cardinality(s[i].items) = x /\ s[i].items \in SUBSET Rows
  <2>1. 1 \in 1 .. k
    OBVIOUS
  <2>2. \A i \in 1 .. k : s[i].items \in SUBSET Rows
    BY DEF StateOK, RowSet
  <2>3. Cardinality(s[1].items) \in Nat
    BY <2>1, <2>2, RowsFinite
  <2>4. \A i \in 1 .. k : Cardinality(s[i].items) = Cardinality(s[1].items)
    BY <2>1 DEF StateOK, Level
  <2> QED
    BY <2>2, <2>3, <2>4
<1> DEFINE P == (1 .. k) \X (1 .. x)
           B == [i \in 1 .. k |-> CHOOSE g : g \in Bijection(1 .. x, s[i].items)]
           h == [p \in P |-> B[p[1]][p[2]]]
<1>2. \A i \in 1 .. k : B[i] \in Bijection(1 .. x, s[i].items)
  <2> SUFFICES ASSUME NEW i \in 1 .. k PROVE \E g : g \in Bijection(1 .. x, s[i].items)
    BY Zenon
  <2>1. IsFiniteSet(s[i].items) /\ Cardinality(s[i].items) = x
    BY <1>1, RowsFinite
  <2>2. ExistsBijection(1 .. Cardinality(s[i].items), s[i].items)
    BY <2>1, FS_CardinalityType
  <2> QED
    BY <2>1, <2>2 DEF ExistsBijection
<1> HIDE DEF B
<1>3. /\ \A i \in 1 .. k : \A j \in 1 .. x : B[i][j] \in s[i].items
      /\ \A i \in 1 .. k : \A j, l \in 1 .. x : B[i][j] = B[i][l] => j = l
      /\ \A i \in 1 .. k : \A r \in s[i].items : \E j \in 1 .. x : B[i][j] = r
  BY <1>2 DEF Bijection, Injection, Surjection, IsInjective
<1>4. \A i, j \in 1 .. k : i # j => s[i].items \cap s[j].items = {}
  BY DEF StateOK
<1>5. h \in [P -> Rows]
  BY <1>1, <1>3
<1>6. \A p, q \in P : h[p] = h[q] => p = q
  <2> SUFFICES ASSUME NEW i \in 1 .. k, NEW a \in 1 .. x, NEW j \in 1 .. k, NEW b \in 1 .. x, B[i][a] = B[j][b]
               PROVE  i = j /\ a = b
    OBVIOUS
  <2>1. i = j
    BY <1>3, <1>4
  <2> QED
    BY <1>3, <2>1
<1>7. \A r \in Rows : \E p \in P : h[p] = r
  <2> SUFFICES ASSUME NEW r \in Rows PROVE \E p \in P : h[p] = r
    OBVIOUS
  <2>1. PICK i \in 1 .. k : r \in s[i].items
    BY DEF Has
  <2>2. PICK j \in 1 .. x : B[i][j] = r
    BY <1>3, <2>1
  <2>3. <<i, j>> \in P /\ h[<<i, j>>] = r
    BY <2>2
  <2> QED
    BY <2>3
<1>8. ExistsBijection(P, Rows)
  <2> HIDE DEF h, P
  <2> QED
    BY <1>5, <1>6, <1>7 DEF ExistsBijection, Bijection, Injection, Surjection, IsInjective
<1>9. IsFiniteSet(P) /\ Cardinality(P) = k * x
  <2>1. IsFiniteSet(1 .. k) /\ Cardinality(1 .. k) = IF 1 > k THEN 0 ELSE k - 1 + 1
    BY FS_Interval
  <2>2. IsFiniteSet(1 .. x) /\ Cardinality(1 .. x) = IF 1 > x THEN 0 ELSE x - 1 + 1
    BY FS_Interval
  <2>3. Cardinality(1 .. k) = k /\ Cardinality(1 .. x) = x
    BY <2>1, <2>2
  <2>4. \A S, T : IsFiniteSet(S) /\ IsFiniteSet(T) => /\ IsFiniteSet(S \X T)
                                                      /\ Cardinality(S \X T) = Cardinality(S) * Cardinality(T)
    BY FS_Product
  <2>5. IsFiniteSet((1 .. k) \X (1 .. x)) /\ Cardinality((1 .. k) \X (1 .. x)) = Cardinality(1 .. k) * Cardinality(1 .. x)
    BY <2>1, <2>2, <2>4, Zenon
  <2> QED
    BY <2>3, <2>5
<1>10. Cardinality(Rows) = Cardinality(P)
  <2> HIDE DEF P
  <2> QED
    BY <1>8, <1>9, FS_Bijection
<1>11. k * x = Len(call.tokens) /\ Len(call.tokens) \in Nat \ {0}
  BY <1>9, <1>10, RowsFinite, CallFacts
<1>12. x * k = Len(call.tokens) /\ x # 0
  BY <1>11
<1>13. \A i \in 1 .. k : s[i].items # {}
  BY <1>1, <1>12, FS_EmptySet
<1> QED
  BY <1>1, <1>12, <1>13

LEMMA AllSane ==
    ASSUME CallOK, k \in Nat \ {0}, ~Equal => k <= Len(call.tokens),
           NEW s, StateOK(s), \A r \in Rows : Has(s, r)
    PROVE  EvenSizes(s) /\ Covering(s)
<1>1. UNION {s[i].items : i \in 1 .. k} = Rows
  <2>1. \A i \in 1 .. k : s[i].items \in SUBSET Rows
    BY DEF StateOK, RowSet
  <2> QED
    BY <2>1 DEF Has
<1>2. \A i \in 1 .. k : s[i].items # {}
  BY NoneEmpty, LevelShare
<1>3. Equal => \A i \in 1 .. k : Cardinality(s[i].items) * k = Len(call.tokens)
  BY LevelShare
<1> QED
  BY <1>1, <1>2, <1>3 DEF EvenSizes, Covering

-----------------------------------------------------------------------------
(* The partitions, and how the callers arrange them                        *)

LEMMA ListsAll ==
    ASSUME NEW T, NEW S \in SUBSET T, NEW n \in Nat, NEW o \in Bijection(1 .. n, S)
    PROVE  o \in Seq(T) /\ Len(o) = n /\ IsInjective(o) /\ ToSet(o) = S
<1>1. o \in [1 .. n -> S] /\ DOMAIN o = 1 .. n
  BY DEF Bijection, Injection
<1>2. o \in [1 .. n -> T]
  BY <1>1
<1>3. o \in Seq(T)
  BY <1>2
<1>4. Len(o) = n
  BY <1>1, <1>3
<1>5. IsInjective(o)
  BY DEF Bijection, Injection
<1>6. ToSet(o) = S
  BY <1>1 DEF ToSet, Bijection, Surjection
<1> QED
  BY <1>3, <1>4, <1>5, <1>6

LEMMA PartitionsFrom ==
    ASSUME CallOK, k \in Nat \ {0}, NEW s, StateOK(s), \A i \in 1 .. k : s[i].items # {}
    PROVE  From(s, [i \in 1 .. k |-> Ascending(s[i].items)])
<1> DEFINE ps == [i \in 1 .. k |-> Ascending(s[i].items)]
<1>1. ASSUME NEW i \in 1 .. k
      PROVE  ps[i] \in Seq(Rows) /\ ps[i] # <<>> /\ IsInjective(ps[i]) /\ ToSet(ps[i]) = s[i].items
  <2>1. s[i].items \in SUBSET Rows /\ Cardinality(s[i].items) \in Nat
    BY RowsFinite DEF StateOK, RowSet
  <2>2. ps[i] \in Bijection(1 .. Cardinality(s[i].items), s[i].items)
    BY <2>1, SortedByNumber
  <2>3. ps[i] \in Seq(Rows) /\ IsInjective(ps[i]) /\ ToSet(ps[i]) = s[i].items
    <3> HIDE DEF ps
    <3> QED
      BY <2>1, <2>2, ListsAll
  <2>4. ps[i] # <<>>
    <3> HIDE DEF ps
    <3> QED
      BY <2>3 DEF ToSet
  <2> QED
    BY <2>3, <2>4
<1>2. ps \in [1 .. k -> Seq(Rows)] /\ k \in Nat
  BY <1>1
<1>3. ps \in Seq(Seq(Rows)) /\ Len(ps) = k
  <2> HIDE DEF ps
  <2> QED
    BY <1>2
<1>4. \A i, j \in 1 .. k : i # j => s[i].items \cap s[j].items = {}
  BY DEF StateOK
<1> QED
  <2> HIDE DEF ps
  <2>1. From(s, ps)
    BY <1>1, <1>3, <1>4 DEF From
  <2> QED
    BY <2>1 DEF ps

\* The halves of a list: what every other element of it is, from the first and
\* from the second.
LEMMA Halves ==
    ASSUME NEW T, NEW s \in Seq(T), IsInjective(s)
    PROVE  /\ \A f \in 1 .. 2 : EveryOther(s, f) \in Seq(T) /\ IsInjective(EveryOther(s, f))
           /\ ToSet(EveryOther(s, 1)) \cap ToSet(EveryOther(s, 2)) = {}
           /\ ToSet(EveryOther(s, 1)) \cup ToSet(EveryOther(s, 2)) = ToSet(s)
<1>1. PICK n \in Nat : n = Len(s)
  OBVIOUS
<1> DEFINE size == [f \in 1 .. 2 |-> (n - f + 2) \div 2]
<1>2. /\ \A f \in 1 .. 2 : size[f] \in Nat
      /\ \A f \in 1 .. 2 : \A i \in 1 .. size[f] : f + 2 * (i - 1) \in 1 .. n
      /\ \A i \in 1 .. size[1] : \A j \in 1 .. size[2] : 1 + 2 * (i - 1) # 2 + 2 * (j - 1)
      /\ \A p \in 1 .. n : \E f \in 1 .. 2 : \E i \in 1 .. size[f] : p = f + 2 * (i - 1)
  <2>1. size[1] = (n + 1) \div 2 /\ size[2] = n \div 2
    OBVIOUS
  <2>2. size[1] \in Nat /\ size[2] \in Nat
    BY <2>1
  <2>3. \A i \in 1 .. size[1] : 1 + 2 * (i - 1) \in 1 .. n
    BY <2>1
  <2>4. \A i \in 1 .. size[2] : 2 + 2 * (i - 1) \in 1 .. n
    BY <2>1
  <2>5. ASSUME NEW p \in 1 .. n PROVE \E f \in 1 .. 2 : \E i \in 1 .. size[f] : p = f + 2 * (i - 1)
    <3>1. PICK h \in Nat : p = 2 * h \/ p = 2 * h + 1
      <4>1. p \div 2 \in Nat /\ (p = 2 * (p \div 2) \/ p = 2 * (p \div 2) + 1)
        OBVIOUS
      <4> QED
        BY <4>1
    <3>2. CASE p = 2 * h
      <4>1. 2 \in 1 .. 2 /\ h \in 1 .. size[2] /\ p = 2 + 2 * (h - 1)
        BY <2>1, <3>2
      <4> QED
        BY <4>1
    <3>3. CASE p = 2 * h + 1
      <4>1. 1 \in 1 .. 2 /\ h + 1 \in 1 .. size[1] /\ p = 1 + 2 * ((h + 1) - 1)
        BY <2>1, <3>3
      <4> QED
        BY <4>1
    <3> QED
      BY <3>1, <3>2, <3>3
  <2>6. \A f \in 1 .. 2 : f = 1 \/ f = 2
    OBVIOUS
  <2>7. \A i \in 1 .. size[1] : \A j \in 1 .. size[2] : 1 + 2 * (i - 1) # 2 + 2 * (j - 1)
    BY <2>2
  <2> HIDE DEF size
  <2> QED
    BY <2>2, <2>3, <2>4, <2>5, <2>6, <2>7
<1> DEFINE h == [f \in 1 .. 2 |-> EveryOther(s, f)]
<1>3. \A f \in 1 .. 2 : h[f] = [i \in 1 .. size[f] |-> s[f + 2 * (i - 1)]]
  <2>1. \A f \in 1 .. 2 : (Len(s) - f + 1) + 2 - 1 = n - f + 2
    BY <1>1
  <2> QED
    BY <2>1 DEF EveryOther, CeilDiv
<1>4. DOMAIN s = 1 .. n /\ \A p \in 1 .. n : s[p] \in T
  BY <1>1
<1>5. \A p, q \in 1 .. n : s[p] = s[q] => p = q
  BY <1>4 DEF IsInjective
<1> HIDE DEF size, h
<1>6. ASSUME NEW f \in 1 .. 2
      PROVE  /\ h[f] \in Seq(T) /\ DOMAIN h[f] = 1 .. size[f] /\ IsInjective(h[f])
             /\ \A i \in 1 .. size[f] : h[f][i] = s[f + 2 * (i - 1)]
  <2>1. h[f] \in [1 .. size[f] -> T] /\ \A i \in 1 .. size[f] : h[f][i] = s[f + 2 * (i - 1)]
    BY <1>2, <1>3, <1>4
  <2>2. h[f] \in Seq(T) /\ DOMAIN h[f] = 1 .. size[f]
    <3>1. \A m \in Nat : \A g \in [1 .. m -> T] : g \in Seq(T) /\ DOMAIN g = 1 .. m
      OBVIOUS
    <3>2. size[f] \in Nat
      BY <1>2
    <3> QED
      BY <2>1, <3>1, <3>2
  <2>3. ASSUME NEW i \in 1 .. size[f], NEW j \in 1 .. size[f], h[f][i] = h[f][j] PROVE i = j
    <3>1. f + 2 * (i - 1) = f + 2 * (j - 1)
      BY <1>2, <1>5, <2>1, <2>3
    <3> QED
      BY <1>2, <3>1
  <2> QED
    BY <2>1, <2>2, <2>3 DEF IsInjective
<1>7. \A f \in 1 .. 2 : ToSet(h[f]) = {s[f + 2 * (i - 1)] : i \in 1 .. size[f]}
  BY <1>6 DEF ToSet
<1>8. ToSet(s) = {s[p] : p \in 1 .. n}
  BY <1>4 DEF ToSet
<1>9. 1 \in 1 .. 2 /\ 2 \in 1 .. 2
  OBVIOUS
<1>10. ToSet(h[1]) \cap ToSet(h[2]) = {}
  <2> SUFFICES ASSUME NEW i \in 1 .. size[1], NEW j \in 1 .. size[2], s[1 + 2 * (i - 1)] = s[2 + 2 * (j - 1)]
               PROVE  FALSE
    BY <1>7, <1>9
  <2>1. 1 + 2 * (i - 1) \in 1 .. n /\ 2 + 2 * (j - 1) \in 1 .. n /\ 1 + 2 * (i - 1) # 2 + 2 * (j - 1)
    BY <1>2, <1>9
  <2> QED
    BY <1>5, <2>1
<1>11. ToSet(h[1]) \cup ToSet(h[2]) \subseteq ToSet(s)
  BY <1>2, <1>7, <1>8, <1>9
<1>12. ToSet(s) \subseteq ToSet(h[1]) \cup ToSet(h[2])
  <2> SUFFICES ASSUME NEW p \in 1 .. n PROVE s[p] \in ToSet(h[1]) \cup ToSet(h[2])
    BY <1>8
  <2>1. PICK f \in 1 .. 2 : \E i \in 1 .. size[f] : p = f + 2 * (i - 1)
    BY <1>2
  <2>2. s[p] \in ToSet(h[f])
    BY <1>7, <2>1
  <2>3. f = 1 \/ f = 2
    OBVIOUS
  <2> QED
    BY <2>2, <2>3
<1>13. h[1] = EveryOther(s, 1) /\ h[2] = EveryOther(s, 2) /\ \A f \in 1 .. 2 : h[f] = EveryOther(s, f)
  BY DEF h
<1> QED
  BY <1>6, <1>10, <1>11, <1>12, <1>13

LEMMA Reversed ==
    ASSUME NEW T, NEW s \in Seq(T), IsInjective(s)
    PROVE  Reverse(s) \in Seq(T) /\ IsInjective(Reverse(s)) /\ ToSet(Reverse(s)) = ToSet(s)
<1>1. PICK n \in Nat : n = Len(s)
  OBVIOUS
<1> DEFINE r == Reverse(s)
<1>2. \A i \in 1 .. n : n - i + 1 \in 1 .. n /\ n - (n - i + 1) + 1 = i
  OBVIOUS
<1>3. DOMAIN s = 1 .. n /\ \A p \in 1 .. n : s[p] \in T
  BY <1>1
<1>4. r \in [1 .. n -> T] /\ \A i \in 1 .. n : r[i] = s[n - i + 1]
  BY <1>1, <1>2, <1>3 DEF Reverse
<1> HIDE DEF r
<1>5. r \in Seq(T) /\ DOMAIN r = 1 .. n
  BY <1>4
<1>6. ASSUME NEW i \in 1 .. n, NEW j \in 1 .. n, r[i] = r[j] PROVE i = j
  <2>1. n - i + 1 = n - j + 1
    BY <1>2, <1>3, <1>4, <1>6 DEF IsInjective
  <2> QED
    BY <2>1
<1>7. ToSet(r) = ToSet(s)
  <2>1. ToSet(r) = {r[i] : i \in 1 .. n} /\ ToSet(s) = {s[i] : i \in 1 .. n}
    BY <1>3, <1>5 DEF ToSet
  <2>2. \A i \in 1 .. n : r[n - i + 1] = s[i]
    BY <1>2, <1>4
  <2> QED
    BY <1>2, <1>4, <2>1, <2>2
<1> QED
  BY <1>5, <1>6, <1>7 DEF IsInjective, r

LEMMA ListLength ==
    ASSUME NEW T, NEW s \in Seq(T), IsInjective(s)
    PROVE  IsFiniteSet(ToSet(s)) /\ Cardinality(ToSet(s)) = Len(s)
<1>1. PICK n \in Nat : n = Len(s)
  OBVIOUS
<1>2. DOMAIN s = 1 .. n /\ ToSet(s) = {s[i] : i \in 1 .. n}
  BY <1>1 DEF ToSet
<1>3. s \in [1 .. n -> ToSet(s)]
  BY <1>1, <1>2
<1>4. s \in Bijection(1 .. n, ToSet(s))
  BY <1>2, <1>3 DEF Bijection, Injection, Surjection
<1>5. IsFiniteSet(1 .. n) /\ Cardinality(1 .. n) = IF 1 > n THEN 0 ELSE n - 1 + 1
  BY FS_Interval
<1>6. ExistsBijection(1 .. n, ToSet(s))
  BY <1>4 DEF ExistsBijection
<1>7. IsFiniteSet(ToSet(s)) /\ Cardinality(1 .. n) = Cardinality(ToSet(s))
  BY <1>5, <1>6, FS_Bijection
<1> QED
  BY <1>1, <1>5, <1>7

LEMMA RowsArranged ==
    ASSUME CallOK, NEW part \in Seq(Rows), IsInjective(part)
    PROVE  /\ ArrangedRows(part) \in Seq(Rows) /\ IsInjective(ArrangedRows(part))
           /\ ToSet(ArrangedRows(part)) = ToSet(part)
<1> DEFINE S == ToSet(part)
           o == Ordered(S, Before)
           a == EveryOther(o, 1)
           b == EveryOther(o, 2)
<1>1. S \in SUBSET Rows
  BY DEF ToSet
<1>2. Cardinality(S) \in Nat /\ o \in Bijection(1 .. Cardinality(S), S)
  BY <1>1, RowsFinite, SortedByWork
<1>3. o \in Seq(Rows) /\ IsInjective(o) /\ ToSet(o) = S
  <2> HIDE DEF o, S
  <2> QED
    BY <1>1, <1>2, ListsAll
<1>4. /\ a \in Seq(Rows) /\ IsInjective(a) /\ b \in Seq(Rows) /\ IsInjective(b)
      /\ ToSet(a) \cap ToSet(b) = {} /\ ToSet(a) \cup ToSet(b) = S
  <2>1. 1 \in 1 .. 2 /\ 2 \in 1 .. 2
    OBVIOUS
  <2> HIDE DEF o, S
  <2> QED
    BY <1>3, <2>1, Halves
<1>5. ArrangedRows(part) = a \o Reverse(b)
  BY DEF ArrangedRows
<1> HIDE DEF a, b, S
<1>6. Reverse(b) \in Seq(Rows) /\ IsInjective(Reverse(b)) /\ ToSet(Reverse(b)) = ToSet(b)
  BY <1>4, Reversed
<1>7. /\ a \o Reverse(b) \in Seq(Rows) /\ IsInjective(a \o Reverse(b))
      /\ ToSet(a \o Reverse(b)) = ToSet(a) \cup ToSet(Reverse(b))
  <2> DEFINE c == Reverse(b)
  <2>1. ToSet(a) \cap ToSet(c) = {}
    BY <1>4, <1>6
  <2>2. c \in Seq(Rows) /\ IsInjective(c)
    BY <1>6
  <2> HIDE DEF c
  <2>3. a \o c \in Seq(Rows) /\ IsInjective(a \o c) /\ ToSet(a \o c) = ToSet(a) \cup ToSet(c)
    BY <1>4, <2>1, <2>2, JoinedOnce
  <2> QED
    BY <2>3 DEF c
<1> QED
  BY <1>4, <1>5, <1>6, <1>7 DEF S

LEMMA PartsDiffer ==
    ASSUME k \in Nat, NEW s, From(s, parts)
    PROVE  /\ IsInjective(parts) /\ parts \in Seq(Seq(Rows))
           /\ IsFiniteSet(ToSet(parts)) /\ Cardinality(ToSet(parts)) = k
           /\ \A p \in ToSet(parts) : p \in Seq(Rows) /\ p[1] \in ToSet(p) /\ ToSet(p) \in SUBSET Rows
           /\ \A p, q \in ToSet(parts) : p[1] = q[1] => p = q
<1>1. /\ parts \in Seq(Seq(Rows)) /\ DOMAIN parts = 1 .. k /\ Len(parts) = k
      /\ \A i \in 1 .. k : parts[i] \in Seq(Rows) /\ parts[i] # <<>>
  BY DEF From
<1>2. \A p \in Seq(Rows) : p # <<>> => p[1] \in ToSet(p) /\ ToSet(p) \in SUBSET Rows
  BY DEF ToSet
<1>3. \A i, j \in 1 .. k : i # j => ToSet(parts[i]) \cap ToSet(parts[j]) = {}
  BY DEF From
<1>4. ToSet(parts) = {parts[i] : i \in 1 .. k}
  BY <1>1 DEF ToSet
<1>5. \A i, j \in 1 .. k : parts[i][1] = parts[j][1] => i = j
  BY <1>1, <1>2, <1>3
<1>6. IsInjective(parts)
  BY <1>1, <1>5 DEF IsInjective
<1>7. IsFiniteSet(ToSet(parts)) /\ Cardinality(ToSet(parts)) = Len(parts)
  BY <1>1, <1>6, ListLength
<1>8. \A p \in ToSet(parts) : p \in Seq(Rows) /\ p[1] \in ToSet(p) /\ ToSet(p) \in SUBSET Rows
  BY <1>1, <1>2, <1>4
<1>9. \A p, q \in ToSet(parts) : p[1] = q[1] => p = q
  BY <1>4, <1>5
<1> QED
  BY <1>1, <1>6, <1>7, <1>8, <1>9

LEMMA BatchesArranged ==
    ASSUME CallOK, k \in Nat, NEW s, From(s, parts)
    PROVE  /\ ArrangedBatches \in Seq(Seq(Rows)) /\ IsInjective(ArrangedBatches)
           /\ ToSet(ArrangedBatches) = ToSet(parts)
<1> DEFINE S == ToSet(parts)
           o == Ordered(S, Heavier)
           a == EveryOther(o, 1)
           b == EveryOther(o, 2)
<1>1. /\ IsFiniteSet(S) /\ Cardinality(S) = k
      /\ \A p \in S : p \in Seq(Rows) /\ p[1] \in ToSet(p) /\ ToSet(p) \in SUBSET Rows
      /\ \A p, q \in S : p[1] = q[1] => p = q
  BY PartsDiffer
<1>2. \A p \in S : PartWork(p) \in Int /\ p[1] \in Int
  <2> SUFFICES ASSUME NEW p \in S PROVE PartWork(p) \in Int /\ p[1] \in Int
    OBVIOUS
  <2>1. WorkOf(ToSet(p)) \in Nat
    BY <1>1, SumType
  <2>2. PartWork(p) = WorkOf(ToSet(p))
    BY DEF PartWork, WorkOf
  <2>3. p[1] \in Rows
    BY <1>1
  <2> QED
    BY <2>1, <2>2, <2>3, RowsFinite
<1>3. o \in Bijection(1 .. k, S)
  <2>1. o \in Bijection(1 .. Cardinality(S), S)
    <3> HIDE DEF S
    <3> QED
      BY <1>1, <1>2, SortedByWeight
  <2> QED
    BY <1>1, <2>1
<1>4. o \in Seq(Seq(Rows)) /\ IsInjective(o) /\ ToSet(o) = S
  <2>1. S \in SUBSET Seq(Rows)
    BY <1>1
  <2> HIDE DEF o, S
  <2> QED
    BY <1>3, <2>1, ListsAll
<1>5. /\ a \in Seq(Seq(Rows)) /\ IsInjective(a) /\ b \in Seq(Seq(Rows)) /\ IsInjective(b)
      /\ ToSet(a) \cap ToSet(b) = {} /\ ToSet(a) \cup ToSet(b) = S
  <2>1. 1 \in 1 .. 2 /\ 2 \in 1 .. 2
    OBVIOUS
  <2> HIDE DEF o, S
  <2> QED
    BY <1>4, <2>1, Halves
<1>6. ArrangedBatches = Reverse(a) \o b
  BY DEF ArrangedBatches
<1> HIDE DEF a, b, S
<1>7. Reverse(a) \in Seq(Seq(Rows)) /\ IsInjective(Reverse(a)) /\ ToSet(Reverse(a)) = ToSet(a)
  BY <1>5, Reversed
<1>8. /\ Reverse(a) \o b \in Seq(Seq(Rows)) /\ IsInjective(Reverse(a) \o b)
      /\ ToSet(Reverse(a) \o b) = ToSet(Reverse(a)) \cup ToSet(b)
  <2> DEFINE c == Reverse(a)
  <2>1. ToSet(c) \cap ToSet(b) = {}
    BY <1>5, <1>7
  <2>2. c \in Seq(Seq(Rows)) /\ IsInjective(c)
    BY <1>7
  <2> HIDE DEF c
  <2>3. c \o b \in Seq(Seq(Rows)) /\ IsInjective(c \o b) /\ ToSet(c \o b) = ToSet(c) \cup ToSet(b)
    BY <1>5, <2>1, <2>2, JoinedOnce
  <2> QED
    BY <2>3 DEF c
<1> QED
  BY <1>5, <1>6, <1>7, <1>8 DEF S

LEMMA RanksFrom ==
    ASSUME CallOK, k \in Nat, NEW s, From(s, parts)
    PROVE  From(s, [i \in 1 .. k |-> ArrangedRows(parts[i])])
<1> DEFINE ps == [i \in 1 .. k |-> ArrangedRows(parts[i])]
<1>1. \A i \in 1 .. k : parts[i] \in Seq(Rows) /\ IsInjective(parts[i]) /\ parts[i] # <<>>
  <2>1. parts \in Seq(Seq(Rows)) /\ Len(parts) = k
    BY DEF From
  <2>2. \A i \in 1 .. k : parts[i] \in Seq(Rows)
    BY <2>1
  <2> QED
    BY <2>2 DEF From
<1>2. ASSUME NEW i \in 1 .. k
      PROVE  ps[i] \in Seq(Rows) /\ IsInjective(ps[i]) /\ ToSet(ps[i]) = ToSet(parts[i])
  <2> DEFINE part == parts[i]
  <2>1. part \in Seq(Rows) /\ IsInjective(part) /\ ps[i] = ArrangedRows(part)
    BY <1>1
  <2> HIDE DEF part, ps
  <2>2. /\ ArrangedRows(part) \in Seq(Rows) /\ IsInjective(ArrangedRows(part))
        /\ ToSet(ArrangedRows(part)) = ToSet(part)
    BY <2>1, RowsArranged
  <2> QED
    BY <2>1, <2>2 DEF part
<1> HIDE DEF ps
<1>3. \A i \in 1 .. k : ps[i] # <<>>
  <2>1. \A i \in 1 .. k : ToSet(parts[i]) # {}
    <3>1. \A p \in Seq(Rows) : p # <<>> => p[1] \in ToSet(p)
      BY DEF ToSet
    <3> QED
      BY <1>1, <3>1
  <2>2. ToSet(<<>>) = {}
    BY DEF ToSet
  <2> QED
    BY <1>2, <2>1, <2>2
<1>4. ps \in Seq(Seq(Rows)) /\ Len(ps) = k
  <2>1. ps \in [1 .. k -> Seq(Rows)]
    BY <1>2 DEF ps
  <2> QED
    BY <2>1
<1>5. From(s, ps)
  BY <1>2, <1>3, <1>4 DEF From
<1> QED
  BY <1>5 DEF ps

LEMMA Rearranged ==
    ASSUME k \in Nat, NEW s, From(s, parts),
           NEW ps \in Seq(Seq(Rows)), IsInjective(ps), ToSet(ps) = ToSet(parts)
    PROVE  From(s, ps)
<1>1. Len(ps) = k
  <2>1. Cardinality(ToSet(ps)) = k
    BY PartsDiffer
  <2> QED
    BY <2>1, ListLength
<1>2. DOMAIN ps = 1 .. k /\ DOMAIN parts = 1 .. k
  <2>1. parts \in Seq(Seq(Rows)) /\ Len(parts) = k
    BY DEF From
  <2> QED
    BY <1>1, <2>1
<1>3. {ps[i] : i \in 1 .. k} = {parts[i] : i \in 1 .. k}
  BY <1>2 DEF ToSet
<1>4. \A p \in 1 .. k : \E i \in 1 .. k : ps[p] = parts[i]
  BY <1>3
<1>5. \A i \in 1 .. k : \E p \in 1 .. k : ps[p] = parts[i]
  BY <1>3
<1>6. ASSUME NEW p \in 1 .. k
      PROVE  ps[p] # <<>> /\ IsInjective(ps[p]) /\ \E i \in 1 .. k : ToSet(ps[p]) = s[i].items
  <2>1. PICK j \in 1 .. k : ps[p] = parts[j]
    BY <1>4
  <2>2. parts[j] # <<>> /\ IsInjective(parts[j]) /\ \E i \in 1 .. k : ToSet(parts[j]) = s[i].items
    BY DEF From
  <2> QED
    BY <2>1, <2>2
<1>7. \A i \in 1 .. k : \E p \in 1 .. k : ToSet(ps[p]) = s[i].items
  <2> SUFFICES ASSUME NEW i \in 1 .. k PROVE \E p \in 1 .. k : ToSet(ps[p]) = s[i].items
    OBVIOUS
  <2>1. PICK j \in 1 .. k : ToSet(parts[j]) = s[i].items
    BY DEF From
  <2>2. PICK p \in 1 .. k : ps[p] = parts[j]
    BY <1>5
  <2> QED
    BY <2>1, <2>2
<1>8. ASSUME NEW p \in 1 .. k, NEW q \in 1 .. k, p # q PROVE ToSet(ps[p]) \cap ToSet(ps[q]) = {}
  <2>1. PICK i \in 1 .. k, j \in 1 .. k : ps[p] = parts[i] /\ ps[q] = parts[j]
    BY <1>4
  <2>2. ps[p] # ps[q]
    BY <1>2, <1>8 DEF IsInjective
  <2>3. i # j
    BY <2>1, <2>2
  <2> QED
    BY <2>1, <2>3 DEF From
<1> QED
  BY <1>1, <1>6, <1>7, <1>8 DEF From

\* In any arrangement every row comes once.
LEMMA FlatFrom ==
    ASSUME CallOK, k \in Nat \ {0}, NEW s, StateOK(s), \A r \in Rows : Has(s, r), From(s, parts)
    PROVE  /\ FlattenSeq(parts) \in Seq(Rows) /\ IsInjective(FlattenSeq(parts)) /\ ToSet(FlattenSeq(parts)) = Rows
           /\ Len(FlattenSeq(parts)) = Len(call.tokens)
<1>1. /\ parts \in Seq(Seq(Rows)) /\ Len(parts) = k /\ \A i \in 1 .. k : IsInjective(parts[i])
      /\ \A i, j \in 1 .. k : i # j => ToSet(parts[i]) \cap ToSet(parts[j]) = {}
  BY DEF From
<1>2. parts # <<>>
  BY <1>1
<1>3. /\ FlattenSeq(parts) \in Seq(Rows) /\ IsInjective(FlattenSeq(parts))
      /\ ToSet(FlattenSeq(parts)) = UNION {ToSet(parts[i]) : i \in 1 .. k}
  BY <1>1, <1>2, FlattenedOnce
<1>4. \A i \in 1 .. k : ToSet(parts[i]) \in SUBSET Rows
  <2>1. \A i \in 1 .. k : parts[i] \in Seq(Rows)
    BY <1>1
  <2>2. \A p \in Seq(Rows) : ToSet(p) \in SUBSET Rows
    BY DEF ToSet
  <2> QED
    BY <2>1, <2>2
<1>5. ASSUME NEW r \in Rows PROVE \E i \in 1 .. k : r \in ToSet(parts[i])
  <2>1. PICK i \in 1 .. k : r \in s[i].items
    BY DEF Has
  <2>2. PICK p \in 1 .. k : ToSet(parts[p]) = s[i].items
    BY DEF From
  <2> QED
    BY <2>1, <2>2
<1>6. ToSet(FlattenSeq(parts)) = Rows
  BY <1>3, <1>4, <1>5
<1>7. Len(FlattenSeq(parts)) = Cardinality(Rows)
  <2> DEFINE f == FlattenSeq(parts)
  <2>1. f \in Seq(Rows) /\ IsInjective(f) /\ ToSet(f) = Rows
    BY <1>3, <1>6
  <2> HIDE DEF f
  <2>2. Cardinality(ToSet(f)) = Len(f)
    BY <2>1, ListLength
  <2> QED
    BY <2>1, <2>2 DEF f
<1> QED
  BY <1>3, <1>6, <1>7, RowsFinite

LEMMA BackInOrder ==
    ASSUME CallOK, NEW r \in Seq(Rows), IsInjective(r), ToSet(r) = Rows, Len(r) = Len(call.tokens)
    PROVE  [i \in 1 .. Len(r) |-> r[ReverseIdx(r)[i]]] = [i \in Rows |-> i]
<1>1. 1 .. Len(r) = Rows /\ DOMAIN r = Rows
  BY CallFacts
<1>2. ASSUME NEW j \in Rows PROVE r[ReverseIdx(r)[j]] = j
  <2>1. PICK i \in Rows : r[i] = j
    BY <1>1 DEF ToSet
  <2>2. {l \in 1 .. Len(r) : r[l] = j} = {i, i}
    BY <1>1, <2>1 DEF IsInjective
  <2>3. Max({i, i}) = i
    BY OfTwo, RowsFinite
  <2>4. ReverseIdx(r)[j] = IF \E l \in 1 .. Len(r) : r[l] = j THEN Max({l \in 1 .. Len(r) : r[l] = j}) ELSE r[j]
    BY <1>1 DEF ReverseIdx
  <2>5. ReverseIdx(r)[j] = i
    BY <1>1, <2>1, <2>2, <2>3, <2>4
  <2> QED
    BY <2>1, <2>5
<1> QED
  BY <1>1, <1>2

-----------------------------------------------------------------------------
(* The invariant                                                           *)

\* Only the call and the number of partitions say whether a state is a good one.
LEMMA StatesKept ==
    ASSUME call' = call, k' = k
    PROVE  /\ \A s : StateOK(s)' <=> StateOK(s)
           /\ \A s, t : Apart(s, t)' <=> Apart(s, t)
           /\ \A s, r : Has(s, r)' <=> Has(s, r)
           /\ Rows' = Rows /\ Equal' = Equal
<1>1. Rows' = Rows /\ (Equal' <=> Equal)
  BY DEF Rows, Equal
<1>2. \A S : WorkOf(S)' = WorkOf(S)
  BY SumKept
<1>3. \A i : Work(i)' = Work(i)
  BY DEF Work
<1>4. \A s, t : Apart(s, t)' <=> Apart(s, t)
  BY DEF Apart
<1>5. \A s, r : Has(s, r)' <=> Has(s, r)
  BY DEF Has
<1>6. ASSUME NEW s PROVE StateOK(s)' <=> StateOK(s)
  <2>1. RowSet' = RowSet
    BY <1>1 DEF RowSet
  <2>2. Decreasing(s)' <=> Decreasing(s)
    BY DEF Decreasing
  <2>3. (\A i \in 1 .. k : s[i].sum = WorkOf(s[i].items))' <=> \A i \in 1 .. k : s[i].sum = WorkOf(s[i].items)
    BY <1>2
  <2>4. (Level(s)' <=> Level(s)) /\ (Sparse(s)' <=> Sparse(s))
    BY DEF Level, Sparse
  <2>5. Narrow(s)' <=> Narrow(s)
    BY <1>1, <1>3 DEF Narrow, Spread
  <2> QED
    BY <1>1, <2>1, <2>2, <2>3, <2>4, <2>5 DEF StateOK
<1> QED
  BY <1>1, <1>4, <1>5, <1>6

LEMMA FromKept ==
    ASSUME call' = call, k' = k, NEW s, NEW ps, parts' = ps, From(s, ps)
    PROVE  From(s, parts)'
<1>1. Rows' = Rows
  BY DEF Rows
<1> QED
  BY <1>1 DEF From

LEMMA InitInv == BalancingInit => Inv
<1> SUFFICES ASSUME BalancingInit PROVE Inv
  OBVIOUS
<1>1. call \in Calls /\ CallOK
  BY DEF BalancingInit, CallOK
<1>2. call.k \in Nat \ {0} /\ call.caller \in Callers
  BY <1>1, CallFacts
<1>3. Control
  BY <1>1, <1>2 DEF BalancingInit, Control, Equal, Callers
<1>4. Heaped /\ Delivered
  <2>1. heap = {} /\ parts = <<>> /\ restored = <<>> /\ balancePc \in {"count", "split"}
    BY DEF BalancingInit
  <2> QED
    BY <2>1 DEF Heaped, Delivered
<1> QED
  BY <1>3, <1>4 DEF Inv

LEMMA CountStep == Inv /\ CountMicroBatches => Inv'
<1> SUFFICES ASSUME Inv, CountMicroBatches PROVE Inv'
  OBVIOUS
<1>1. call' = call /\ heap' = heap /\ parts' = parts /\ restored' = restored /\ balancePc = "count"
  BY DEF CountMicroBatches
<1>2. CallOK /\ ~Equal /\ heap = {} /\ k \in Nat \ {0} /\ call \in Calls
  BY <1>1 DEF Inv, Control, CallOK
<1>3. Wanted \in Nat \ {0} /\ (Wanted > Len(call.tokens) => call.divisor > 1)
  BY <1>2, WantedFacts
<1>4. Wanted' = Wanted /\ (Equal' <=> Equal)
  BY <1>1 DEF Wanted, Equal
<1>5. /\ Wanted <= Len(call.tokens) => k' = Wanted /\ balancePc' = "split"
      /\ ~(Wanted <= Len(call.tokens)) => k' = k /\ balancePc' = "failed"
  BY DEF CountMicroBatches
<1>6. Control'
  <2>1. Len(call.tokens) \in Nat
    BY <1>2, CallFacts
  <2>2. CASE Wanted <= Len(call.tokens)
    BY <1>1, <1>2, <1>3, <1>4, <1>5, <2>2 DEF Control
  <2>3. CASE ~(Wanted <= Len(call.tokens))
    <3>1. Wanted > Len(call.tokens)
      BY <1>3, <2>1, <2>3
    <3> QED
      BY <1>1, <1>2, <1>3, <1>4, <1>5, <2>3, <3>1 DEF Control
  <2> QED
    BY <2>2, <2>3
<1>7. balancePc' \in {"split", "failed"}
  BY <1>5
<1>8. Heaped'
  BY <1>1, <1>2, <1>7 DEF Heaped
<1>9. Delivered'
  <2>1. parts = <<>> /\ restored = <<>>
    BY <1>1 DEF Inv, Delivered
  <2> QED
    BY <1>1, <1>7, <2>1 DEF Delivered
<1> QED
  BY <1>6, <1>8, <1>9 DEF Inv

LEMMA SplitStep == Inv /\ Split => Inv'
<1> SUFFICES ASSUME Inv, Split PROVE Inv'
  OBVIOUS
<1>1. call' = call /\ k' = k /\ parts' = parts /\ restored' = restored /\ balancePc = "split" /\ balancePc' = "merge"
  BY DEF Split
<1>2. CallOK /\ call \in Calls /\ k \in Nat \ {0} /\ (Equal => k = call.k) /\ (~Equal => k <= Len(call.tokens))
  BY <1>1 DEF Inv, Control, CallOK
<1>3. /\ \A s : StateOK(s)' <=> StateOK(s)
      /\ \A s, t : Apart(s, t)' <=> Apart(s, t)
      /\ \A s, r : Has(s, r)' <=> Has(s, r)
      /\ Rows' = Rows /\ Equal' = Equal
  BY <1>1, StatesKept
<1>4. Control'
  BY <1>1, <1>2, <1>3 DEF Control
<1>5. /\ \A s \in heap' : StateOK(s)
      /\ \A s, t \in heap' : s # t => Apart(s, t)
      /\ \A r \in Rows : \E s \in heap' : Has(s, r)
  <2>1. CASE Equal
    <3>1. heap' = {Chunk(c) : c \in 1 .. Len(call.tokens) \div k}
      BY <2>1 DEF Split
    <3>2. \A s \in heap' : StateOK(s)
      BY <1>2, <2>1, <3>1, ChunkOK
    <3>3. \A s, t \in heap' : s # t => Apart(s, t)
      <4> SUFFICES ASSUME NEW c \in 1 .. Len(call.tokens) \div k, NEW d \in 1 .. Len(call.tokens) \div k,
                          Chunk(c) # Chunk(d), NEW i \in 1 .. k, NEW j \in 1 .. k
                   PROVE  Chunk(c)[i].items \cap Chunk(d)[j].items = {}
        BY <3>1 DEF Apart
      <4> QED
        BY <1>2, <2>1, ChunkRows
    <3>4. \A r \in Rows : \E s \in heap' : Has(s, r)
      <4>1. \A r \in Rows : \E c \in 1 .. Len(call.tokens) \div k : Has(Chunk(c), r)
        BY <1>2, <2>1, ChunkRows
      <4> QED
        BY <3>1, <4>1
    <3> QED
      BY <3>2, <3>3, <3>4
  <2>2. CASE ~Equal
    <3>1. heap' = {Single(r) : r \in Rows}
      BY <2>2 DEF Split
    <3>2. \A r \in Rows : StateOK(Single(r)) /\ \A x : Has(Single(r), x) <=> x = r
      BY <1>2, <2>2, SingleOK
    <3>3. \A q, r \in Rows : q # r => Apart(Single(q), Single(r))
      BY <3>2 DEF Apart, Has
    <3> QED
      BY <3>1, <3>2, <3>3
  <2> QED
    BY <2>1, <2>2
<1>6. Heaped'
  BY <1>3, <1>5 DEF Heaped
<1>7. Delivered'
  <2>1. parts = <<>> /\ restored = <<>>
    BY <1>1 DEF Inv, Delivered
  <2> QED
    BY <1>1, <2>1 DEF Delivered
<1> QED
  BY <1>4, <1>6, <1>7 DEF Inv

LEMMA MergeStep == ASSUME NEW s \in heap, NEW t \in heap PROVE Inv /\ Merge(s, t) => Inv'
<1> SUFFICES ASSUME Inv, Merge(s, t) PROVE Inv'
  OBVIOUS
<1>1. /\ call' = call /\ k' = k /\ parts' = parts /\ restored' = restored /\ balancePc = "merge" /\ balancePc' = "merge" /\ s # t
      /\ \E m \in Sorted(Differenced(s, t)) : heap' = (heap \ {s, t}) \cup {m}
  BY DEF Merge
<1>2. PICK m \in Sorted(Differenced(s, t)) : heap' = (heap \ {s, t}) \cup {m}
  BY <1>1
<1>3. CallOK /\ k \in Nat \ {0}
  BY DEF Inv, Control, CallOK
<1>4. /\ \A u : StateOK(u)' <=> StateOK(u)
      /\ \A u, v : Apart(u, v)' <=> Apart(u, v)
      /\ \A u, r : Has(u, r)' <=> Has(u, r)
      /\ Rows' = Rows /\ Equal' = Equal
  BY <1>1, StatesKept
<1>5. Control'
  BY <1>1, <1>4 DEF Inv, Control
<1>6. /\ \A u \in heap : StateOK(u)
      /\ \A u, v \in heap : u # v => Apart(u, v)
      /\ \A r \in Rows : \E u \in heap : Has(u, r)
  BY <1>1 DEF Inv, Heaped
<1>7. StateOK(m) /\ \A r : Has(m, r) <=> Has(s, r) \/ Has(t, r)
  BY <1>1, <1>2, <1>3, <1>6, MergedOK
<1>8. \A u \in heap \ {s, t} : Apart(u, m) /\ Apart(m, u)
  <2> SUFFICES ASSUME NEW u \in heap \ {s, t} PROVE Apart(u, m) /\ Apart(m, u)
    OBVIOUS
  <2>1. ~ \E r : Has(u, r) /\ (Has(s, r) \/ Has(t, r))
    BY <1>6 DEF Apart, Has
  <2> QED
    BY <1>7, <2>1 DEF Apart, Has
<1>9. Heaped'
  <2>1. \A u \in heap' : StateOK(u)
    BY <1>2, <1>6, <1>7
  <2>2. \A u, v \in heap' : u # v => Apart(u, v)
    BY <1>2, <1>6, <1>8
  <2>3. \A r \in Rows : \E u \in heap' : Has(u, r)
    BY <1>2, <1>6, <1>7
  <2> QED
    BY <1>4, <2>1, <2>2, <2>3 DEF Heaped
<1>10. Delivered'
  <2>1. parts = <<>> /\ restored = <<>>
    BY <1>1 DEF Inv, Delivered
  <2> QED
    BY <1>1, <2>1 DEF Delivered
<1> QED
  BY <1>5, <1>9, <1>10 DEF Inv

LEMMA GetStep == ASSUME NEW s \in heap PROVE Inv /\ GetPartitions(s) => Inv'
<1> SUFFICES ASSUME Inv, GetPartitions(s) PROVE Inv'
  OBVIOUS
<1>1. /\ call' = call /\ k' = k /\ heap' = heap /\ restored' = restored /\ balancePc = "merge" /\ heap = {s}
      /\ EvenSizes(s) /\ Covering(s) => parts' = [i \in 1 .. k |-> Ascending(s[i].items)] /\ balancePc' = "arrange"
  BY DEF GetPartitions
<1>2. CallOK /\ k \in Nat \ {0} /\ (~Equal => k <= Len(call.tokens))
  BY <1>1 DEF Inv, Control, CallOK
<1>3. /\ \A u : StateOK(u)' <=> StateOK(u)
      /\ \A u, v : Apart(u, v)' <=> Apart(u, v)
      /\ \A u, r : Has(u, r)' <=> Has(u, r)
      /\ Rows' = Rows /\ Equal' = Equal
  BY <1>1, StatesKept
<1>4. StateOK(s) /\ \A r \in Rows : Has(s, r)
  BY <1>1 DEF Inv, Heaped
<1>5. EvenSizes(s) /\ Covering(s)
  BY <1>2, <1>4, AllSane
<1>6. parts' = [i \in 1 .. k |-> Ascending(s[i].items)] /\ balancePc' = "arrange"
  BY <1>1, <1>5
<1>7. Control'
  BY <1>1, <1>3, <1>6 DEF Inv, Control
<1>8. Heaped'
  BY <1>1, <1>3, <1>4, <1>6 DEF Inv, Heaped
<1>9. Delivered'
  <2> DEFINE ps == [i \in 1 .. k |-> Ascending(s[i].items)]
  <2>1. \A i \in 1 .. k : s[i].items # {}
    BY <1>5 DEF Covering
  <2>2. From(s, ps)
    BY <1>2, <1>4, <2>1, PartitionsFrom
  <2>3. parts' = ps
    BY <1>6
  <2> HIDE DEF ps
  <2>4. From(s, parts)'
    BY <1>1, <2>2, <2>3, FromKept
  <2>5. restored = <<>>
    BY <1>1 DEF Inv, Delivered
  <2> QED
    BY <1>1, <1>6, <2>4, <2>5 DEF Delivered
<1> QED
  BY <1>7, <1>8, <1>9 DEF Inv

LEMMA ArrangeStep == Inv /\ Arrange => Inv'
<1> SUFFICES ASSUME Inv, Arrange PROVE Inv'
  OBVIOUS
<1>1. /\ call' = call /\ k' = k /\ heap' = heap /\ restored' = restored /\ balancePc = "arrange" /\ balancePc' = "compute"
      /\ parts' = IF Equal THEN [i \in 1 .. k |-> ArrangedRows(parts[i])] ELSE ArrangedBatches
  BY DEF Arrange
<1>2. CallOK /\ k \in Nat \ {0}
  BY <1>1 DEF Inv, Control, CallOK
<1>3. /\ \A u : StateOK(u)' <=> StateOK(u)
      /\ \A u, v : Apart(u, v)' <=> Apart(u, v)
      /\ \A u, r : Has(u, r)' <=> Has(u, r)
      /\ Rows' = Rows /\ Equal' = Equal
  BY <1>1, StatesKept
<1>4. PICK s \in heap : heap = {s} /\ From(s, parts)
  BY <1>1 DEF Inv, Delivered
<1>5. Control'
  BY <1>1, <1>3 DEF Inv, Control
<1>6. Heaped'
  BY <1>1, <1>3 DEF Inv, Heaped
<1>7. From(s, parts)'
  <2>1. CASE Equal
    <3> DEFINE ps == [i \in 1 .. k |-> ArrangedRows(parts[i])]
    <3>1. From(s, ps) /\ parts' = ps
      BY <1>1, <1>2, <1>4, <2>1, RanksFrom
    <3> HIDE DEF ps
    <3> QED
      BY <1>1, <3>1, FromKept
  <2>2. CASE ~Equal
    <3> DEFINE ps == ArrangedBatches
    <3>1. ps \in Seq(Seq(Rows)) /\ IsInjective(ps) /\ ToSet(ps) = ToSet(parts)
      BY <1>2, <1>4, BatchesArranged
    <3>2. parts' = ps
      BY <1>1, <2>2
    <3> HIDE DEF ps
    <3>3. From(s, ps)
      BY <1>2, <1>4, <3>1, Rearranged
    <3> QED
      BY <1>1, <3>2, <3>3, FromKept
  <2> QED
    BY <2>1, <2>2
<1>8. Delivered'
  <2>1. restored = <<>>
    BY <1>1 DEF Inv, Delivered
  <2> QED
    BY <1>1, <1>4, <1>7, <2>1 DEF Delivered
<1> QED
  BY <1>5, <1>6, <1>8 DEF Inv

LEMMA RestoreStep == Inv /\ Restore => Inv'
<1> SUFFICES ASSUME Inv, Restore PROVE Inv'
  OBVIOUS
<1> DEFINE r == FlattenSeq(parts)
<1>1. /\ call' = call /\ k' = k /\ heap' = heap /\ parts' = parts /\ balancePc = "compute" /\ balancePc' = "done"
      /\ restored' = [i \in 1 .. Len(r) |-> r[ReverseIdx(r)[i]]]
  BY DEF Restore
<1>2. CallOK /\ k \in Nat \ {0}
  BY <1>1 DEF Inv, Control, CallOK
<1>3. /\ \A u : StateOK(u)' <=> StateOK(u)
      /\ \A u, v : Apart(u, v)' <=> Apart(u, v)
      /\ \A u, x : Has(u, x)' <=> Has(u, x)
      /\ Rows' = Rows /\ Equal' = Equal
  BY <1>1, StatesKept
<1>4. PICK s \in heap : heap = {s} /\ From(s, parts)
  BY <1>1 DEF Inv, Delivered
<1>5. Control'
  BY <1>1, <1>3 DEF Inv, Control
<1>6. Heaped'
  BY <1>1, <1>3 DEF Inv, Heaped
<1>7. StateOK(s) /\ \A x \in Rows : Has(s, x)
  BY <1>1, <1>4 DEF Inv, Heaped
<1>8. r \in Seq(Rows) /\ IsInjective(r) /\ ToSet(r) = Rows /\ Len(r) = Len(call.tokens)
  BY <1>2, <1>4, <1>7, FlatFrom
<1>9. restored' = [i \in Rows |-> i]
  <2> HIDE DEF r
  <2>1. [i \in 1 .. Len(r) |-> r[ReverseIdx(r)[i]]] = [i \in Rows |-> i]
    BY <1>2, <1>8, BackInOrder
  <2> QED
    BY <1>1, <2>1
<1>10. Delivered'
  <2>1. \A ps : parts' = ps /\ From(s, ps) => From(s, parts)'
    BY <1>1, FromKept
  <2>2. From(s, parts)'
    BY <1>1, <1>4, <2>1
  <2> QED
    BY <1>1, <1>3, <1>4, <1>9, <2>2 DEF Delivered
<1> QED
  BY <1>5, <1>6, <1>10 DEF Inv

LEMMA StutterStep == Inv /\ UNCHANGED balancingVars => Inv'
<1> SUFFICES ASSUME Inv, UNCHANGED balancingVars PROVE Inv'
  OBVIOUS
<1>1. call' = call /\ k' = k /\ heap' = heap /\ parts' = parts /\ balancePc' = balancePc /\ restored' = restored
  BY DEF balancingVars
<1>2. /\ \A u : StateOK(u)' <=> StateOK(u)
      /\ \A u, v : Apart(u, v)' <=> Apart(u, v)
      /\ \A u, x : Has(u, x)' <=> Has(u, x)
      /\ Rows' = Rows /\ Equal' = Equal
  BY <1>1, StatesKept
<1>3. Wanted' = Wanted
  BY <1>1 DEF Wanted
<1>4. Control'
  BY <1>1, <1>2, <1>3 DEF Inv, Control
<1>5. Heaped'
  BY <1>1, <1>2 DEF Inv, Heaped
<1>6. Delivered'
  <2>1. \A s, ps : parts' = ps /\ From(s, ps) => From(s, parts)'
    BY <1>1, FromKept
  <2> QED
    BY <1>1, <1>2, <2>1 DEF Inv, Delivered
<1> QED
  BY <1>4, <1>5, <1>6 DEF Inv

LEMMA InvAlways == BalancingSpec => []Inv
<1>1. Inv /\ [BalancingNext]_balancingVars => Inv'
  BY CountStep, SplitStep, MergeStep, GetStep, ArrangeStep, RestoreStep, StutterStep DEF BalancingNext
<1> QED
  BY <1>1, InitInv, PTL DEF BalancingSpec

-----------------------------------------------------------------------------
(* The theorems                                                            *)

\* Every state of the heap is k sets of rows in decreasing order of their sums,
\* however often states were merged, and the partitions are sequences of rows.
THEOREM TypesKept == BalancingSpec => []BalancingTypeOK
<1>1. ASSUME Inv PROVE BalancingTypeOK
  <2>1. call \in Calls /\ k \in Nat \ {0} /\ balancePc \in {"count", "split", "merge", "arrange", "compute", "done", "failed"}
    BY <1>1 DEF Inv, Control
  <2>2. \A s \in heap : s \in [1 .. k -> SetType] /\ Decreasing(s)
    <3>1. RowSet \subseteq SetType
      BY DEF RowSet, SetType
    <3> QED
      BY <1>1, <3>1 DEF Inv, Heaped, StateOK
  <2>3. parts \in Seq(Seq(Rows))
    <3>1. <<>> \in Seq(Seq(Rows))
      OBVIOUS
    <3> QED
      BY <1>1, <2>1, <3>1 DEF Inv, Delivered, From
  <2>4. restored \in Seq(Rows)
    <3>1. Rows = 1 .. Len(call.tokens) /\ Len(call.tokens) \in Nat
      BY <2>1, CallFacts DEF CallOK
    <3>2. [i \in Rows |-> i] \in Seq(Rows) /\ <<>> \in Seq(Rows)
      BY <3>1
    <3> QED
      BY <1>1, <3>2 DEF Inv, Delivered
  <2> QED
    BY <2>1, <2>2, <2>3, <2>4 DEF BalancingTypeOK
<1> QED
  BY <1>1, InvAlways, PTL

\* For any rows, any number of partitions and any order of equal sets, no row
\* is lost or doubled by the differencing.
THEOREM RowsOnce == BalancingSpec => []ItemsOnce
<1>1. ASSUME Inv PROVE ItemsOnce
  <2> SUFFICES ASSUME balancePc \in {"merge", "arrange", "compute", "done"}
               PROVE  /\ \A r \in Rows : \E s \in heap, i \in 1 .. k : r \in s[i].items
                      /\ \A s, t \in heap : \A i, j \in 1 .. k :
                            s[i].items \cap t[j].items # {} => s = t /\ i = j
    BY DEF ItemsOnce
  <2>1. \A r \in Rows : \E s \in heap, i \in 1 .. k : r \in s[i].items
    BY <1>1 DEF Inv, Heaped, Has
  <2>2. \A s, t \in heap : \A i, j \in 1 .. k : s[i].items \cap t[j].items # {} => s = t /\ i = j
    BY <1>1 DEF Inv, Heaped, Apart, StateOK
  <2> QED
    BY <2>1, <2>2
<1> QED
  BY <1>1, InvAlways, PTL

\* A merge never makes the heaviest and the lightest set differ by more than
\* two rows do, or by more than one row if the sizes are free.
THEOREM SpreadNeverWidens == BalancingSpec => []SpreadBounded
<1>1. ASSUME Inv PROVE SpreadBounded
  BY <1>1 DEF Inv, Heaped, StateOK, Narrow, SpreadBounded
<1> QED
  BY <1>1, InvAlways, PTL

\* Whatever batches the rows were put in and however those were arranged, each
\* result is put back at the place of its row.
THEOREM Restored == BalancingSpec => []RestoredInOrder
<1>1. ASSUME Inv PROVE RestoredInOrder
  BY <1>1 DEF Inv, Delivered, RestoredInOrder
<1> QED
  BY <1>1, InvAlways, PTL

\* No assertion on the way can fail but the one on the number of micro-batches,
\* and that one only if it was rounded up to a multiple of a divisor.
THEOREM OnlyRoundingFails == BalancingSpec => []FailsOnlyWhenRounded
<1>1. ASSUME Inv PROVE FailsOnlyWhenRounded
  BY <1>1 DEF Inv, Control, FailsOnlyWhenRounded
<1> QED
  BY <1>1, InvAlways, PTL

LEMMA Extremes ==
    ASSUME NEW T, T \subseteq Nat, T # {}, NEW B \in Nat, \A x \in T : x <= B
    PROVE  \A x \in T : /\ Max(T) \in Nat /\ Min(T) \in Nat /\ Min(T) <= x /\ x <= Max(T)
<1> DEFINE Bounds == {b \in Nat : \A x \in T : x <= b}
<1>1. PICK b \in Bounds : \A c \in Bounds : b <= c
  <2>1. Bounds \subseteq Nat /\ Bounds # {}
    OBVIOUS
  <2> HIDE DEF Bounds
  <2> QED
    BY <2>1, LeastNumber
<1>2. b \in Nat /\ \A x \in T : x \in Nat /\ x <= b
  BY <1>1
<1>3. b \in T
  <2> SUFFICES ASSUME b \notin T PROVE FALSE
    OBVIOUS
  <2>1. \A x \in T : x <= b - 1
    BY <1>2
  <2>2. b - 1 \in Nat
    <3>1. PICK x \in T : TRUE
      OBVIOUS
    <3>2. x \in Nat /\ x <= b - 1
      BY <1>2, <2>1
    <3> QED
      BY <1>2, <3>2
  <2>3. b - 1 \in Bounds
    BY <2>1, <2>2
  <2>4. b <= b - 1
    BY <1>1, <2>3
  <2> QED
    BY <1>2, <2>4
<1>4. PICK a \in T : \A x \in T : a <= x
  BY LeastNumber
<1>5. Max(T) \in T /\ \A x \in T : Max(T) >= x
  <2>1. \E m \in T : \A x \in T : m >= x
    BY <1>2, <1>3
  <2> QED
    BY <2>1 DEF Max
<1>6. Min(T) \in T /\ \A x \in T : Min(T) <= x
  <2>1. \E m \in T : \A x \in T : m <= x
    BY <1>4
  <2> QED
    BY <2>1 DEF Min
<1> QED
  BY <1>5, <1>6

LEMMA WorkExtremes ==
    ASSUME CallOK
    PROVE  \A i \in Rows : /\ Max({Work(r) : r \in Rows}) \in Nat /\ Min({Work(r) : r \in Rows}) \in Nat
                           /\ Min({Work(r) : r \in Rows}) <= Work(i) /\ Work(i) <= Max({Work(r) : r \in Rows})
<1> DEFINE T == {Work(r) : r \in Rows}
<1>1. PICK B \in Nat : B = WorkOf(Rows)
  BY SumType
<1>2. ASSUME NEW r \in Rows PROVE Work(r) \in Nat /\ Work(r) <= B
  <2>1. WorkOf(Rows) = Work(r) + WorkOf(Rows \ {r})
    BY SumWithout
  <2>2. PICK w \in Nat, v \in Nat : w = Work(r) /\ v = WorkOf(Rows \ {r})
    BY WorkType, SumType
  <2> QED
    BY <1>1, <2>1, <2>2
<1> SUFFICES ASSUME NEW i \in Rows
             PROVE  Max(T) \in Nat /\ Min(T) \in Nat /\ Min(T) <= Work(i) /\ Work(i) <= Max(T)
  OBVIOUS
<1>3. T \subseteq Nat /\ Work(i) \in T /\ T # {} /\ \A x \in T : x <= B
  BY <1>2
<1> HIDE DEF T
<1> QED
  BY <1>3, Extremes

\* What a caller gets: the rows, each once; equal sizes for ranks, no empty
\* micro-batch; true workloads apart by no more than two rows are, or by no more
\* than the heaviest row.
THEOREM Balanced == BalancingSpec => []BalancedResult
<1>1. ASSUME Inv, balancePc \in {"compute", "done"}
      PROVE  /\ Len(parts) = k
             /\ Len(FlattenSeq(parts)) = Len(call.tokens) /\ ToSet(FlattenSeq(parts)) = Rows
             /\ \A p, q \in 1 .. k :
                   /\ parts[p] # <<>>
                   /\ Equal => Len(parts[p]) = Len(parts[q])
                   /\ PartWork(parts[p]) - PartWork(parts[q])
                         <= Max({Work(i) : i \in Rows}) - (IF Equal THEN Min({Work(i) : i \in Rows}) ELSE 0)
  <2>1. CallOK /\ k \in Nat \ {0}
    BY <1>1 DEF Inv, Control, CallOK
  <2>2. PICK s \in heap : heap = {s} /\ From(s, parts)
    BY <1>1 DEF Inv, Delivered
  <2>3. StateOK(s) /\ \A x \in Rows : Has(s, x)
    BY <1>1, <2>2 DEF Inv, Heaped
  <2>4. Len(FlattenSeq(parts)) = Len(call.tokens) /\ ToSet(FlattenSeq(parts)) = Rows
    BY <2>1, <2>2, <2>3, FlatFrom
  <2>5. /\ Len(parts) = k
        /\ \A p \in 1 .. k : parts[p] # <<>> /\ \E i \in 1 .. k : ToSet(parts[p]) = s[i].items
    BY <2>2 DEF From
  <2>6. \A p \in 1 .. k : Len(parts[p]) = Cardinality(ToSet(parts[p]))
    <3>1. parts \in Seq(Seq(Rows)) /\ \A p \in 1 .. k : IsInjective(parts[p])
      BY <2>2 DEF From
    <3>2. \A p \in 1 .. k : parts[p] \in Seq(Rows)
      BY <2>5, <3>1
    <3>3. \A l \in Seq(Rows) : IsInjective(l) => Cardinality(ToSet(l)) = Len(l)
      BY ListLength
    <3> QED
      BY <3>1, <3>2, <3>3
  <2>7. ASSUME NEW p \in 1 .. k, NEW q \in 1 .. k
        PROVE  /\ Equal => Len(parts[p]) = Len(parts[q])
               /\ PartWork(parts[p]) - PartWork(parts[q])
                     <= Max({Work(i) : i \in Rows}) - (IF Equal THEN Min({Work(i) : i \in Rows}) ELSE 0)
    <3>1. PICK i \in 1 .. k, j \in 1 .. k : ToSet(parts[p]) = s[i].items /\ ToSet(parts[q]) = s[j].items
      BY <2>5
    <3>2. Equal => Len(parts[p]) = Len(parts[q])
      <4>1. Equal => Cardinality(s[i].items) = Cardinality(s[j].items)
        BY <2>3 DEF StateOK, Level
      <4>2. Len(parts[p]) = Cardinality(ToSet(parts[p])) /\ Len(parts[q]) = Cardinality(ToSet(parts[q]))
        BY <2>6
      <4> QED
        BY <3>1, <4>1, <4>2
    <3>3. PartWork(parts[p]) = s[i].sum /\ PartWork(parts[q]) = s[j].sum
      <4>1. PartWork(parts[p]) = WorkOf(ToSet(parts[p])) /\ PartWork(parts[q]) = WorkOf(ToSet(parts[q]))
        BY DEF PartWork, WorkOf
      <4> QED
        BY <2>3, <3>1, <4>1 DEF StateOK
    <3>4. \A l \in 1 .. k : s[l].sum \in Nat /\ s[1].sum >= s[l].sum /\ s[l].sum >= s[k].sum
      <4>1. \A l \in 1 .. k : s[l].sum \in Nat
        BY <2>3 DEF StateOK, RowSet
      <4>2. \A l \in 1 .. k : (l = 1 \/ 1 < l) /\ (l = k \/ l < k) /\ 1 \in 1 .. k /\ k \in 1 .. k
        BY <2>1
      <4> QED
        BY <2>3, <4>1, <4>2 DEF StateOK, Decreasing
    <3>5. s[i].sum - s[j].sum <= Spread(s) /\ Spread(s) \in Int
      <4>1. 1 \in 1 .. k /\ k \in 1 .. k
        BY <2>1
      <4> QED
        BY <3>4, <4>1 DEF Spread
    <3>6. Spread(s) <= Max({Work(r) : r \in Rows}) - (IF Equal THEN Min({Work(r) : r \in Rows}) ELSE 0)
      <4>1. \A r \in Rows : Work(r) \in Nat
        BY <2>1, WorkType
      <4>2. CASE Equal
        <5>1. PICK x \in Rows, y \in Rows : Spread(s) <= Work(x) - Work(y)
          BY <2>3, <4>2 DEF StateOK, Narrow
        <5> DEFINE hi == Max({Work(r) : r \in Rows})
                   lo == Min({Work(r) : r \in Rows})
        <5>2. hi \in Nat /\ lo \in Nat /\ Work(x) <= hi /\ lo <= Work(y) /\ Work(x) \in Nat /\ Work(y) \in Nat
          BY <2>1, <4>1, WorkExtremes
        <5> HIDE DEF hi, lo
        <5>3. Spread(s) <= hi - lo
          BY <3>5, <5>1, <5>2
        <5> QED
          BY <4>2, <5>3 DEF hi, lo
      <4>3. CASE ~Equal
        <5>1. PICK x \in Rows : Spread(s) <= Work(x)
          BY <2>3, <4>3 DEF StateOK, Narrow
        <5> DEFINE hi == Max({Work(r) : r \in Rows})
        <5>2. hi \in Nat /\ Work(x) <= hi /\ Work(x) \in Nat
          BY <2>1, <4>1, WorkExtremes
        <5> HIDE DEF hi
        <5>3. Spread(s) <= hi - 0
          BY <3>5, <5>1, <5>2
        <5> QED
          BY <4>3, <5>3 DEF hi
      <4> QED
        BY <4>2, <4>3
    <3>7. PartWork(parts[p]) - PartWork(parts[q])
             <= Max({Work(r) : r \in Rows}) - (IF Equal THEN Min({Work(r) : r \in Rows}) ELSE 0)
      <4> DEFINE most == Max({Work(r) : r \in Rows}) - (IF Equal THEN Min({Work(r) : r \in Rows}) ELSE 0)
      <4>1. most \in Int
        <5>1. 1 \in Rows
          BY <2>1, CallFacts
        <5>2. Max({Work(r) : r \in Rows}) \in Nat /\ Min({Work(r) : r \in Rows}) \in Nat
          BY <2>1, <5>1, WorkExtremes
        <5> QED
          BY <5>2
      <4>2. Spread(s) <= most
        BY <3>6
      <4> HIDE DEF most
      <4>3. s[i].sum - s[j].sum <= most
        BY <3>4, <3>5, <4>1, <4>2
      <4> QED
        BY <3>3, <4>3 DEF most
    <3> QED
      BY <3>2, <3>7
  <2> QED
    BY <2>4, <2>5, <2>7
<1>2. ASSUME Inv PROVE BalancedResult
  BY <1>1, <1>2 DEF BalancedResult
<1> QED
  BY <1>2, InvAlways, PTL

=============================================================================
