-------------------------- MODULE SeqlenBalancing --------------------------
(***************************************************************************)
(* Balancing rows of different length                                      *)
(* (verl/utils/seqlen_balancing.py): the Karmarkar-Karp differencing       *)
(* method, step by step, and its two callers.  _balance_batch of the       *)
(* trainer ("ranks") wants k partitions of equal size, one per data        *)
(* parallel rank; rearrange_micro_batches ("micro") derives the number of  *)
(* micro-batches from a token limit, and restore_dynamic_batch puts what   *)
(* was computed on the micro-batches back in the order of the batch.       *)
(*                                                                         *)
(* Rows are numbered from one.  Where two sets or two states have the same *)
(* sums and sizes the code goes by the row numbers they hold; here either  *)
(* may come first.  use_dynamic_bsz_balance is on and force_group_size is  *)
(* one, the defaults; min_num_micro_batch, which no caller sets, is left   *)
(* out.  The other ranks have as many rows and want at most one            *)
(* micro-batch for each.                                                   *)
(***************************************************************************)
EXTENDS Integers, Sequences, FiniteSets, TLC, FiniteSetsExt, SequencesExt

CONSTANTS
    Calls,   \* the calls: caller, tokens per row, k, the other ranks' count, divisor
    Limit,   \* max_token_len
    Linear   \* the linear coefficient of calculate_workload

Callers == {"ranks", "micro"}

\* total_seqlen.
TotalTokens(c) == MapThenSumSet(LAMBDA i : c.tokens[i], 1 .. Len(c.tokens))

ASSUME CallsAssumption ==
    /\ Calls \subseteq [caller : Callers, tokens : Seq(Nat), k : Nat \ {0}, others : Nat,
                        divisor : Nat \ {0}]
    /\ \A c \in Calls :
          /\ c.tokens # <<>>
          /\ c.caller = "ranks" => c.k <= Len(c.tokens) /\ Len(c.tokens) % c.k = 0
          /\ c.caller = "micro" => /\ \A i \in 1 .. Len(c.tokens) : c.tokens[i] \in 1 .. Limit
                                   /\ c.others <= Len(c.tokens)
ASSUME TotalAssumption == \A c \in Calls : c.caller = "micro" => TotalTokens(c) \in Nat \ {0}
ASSUME NumbersAssumption == Limit \in Nat \ {0} /\ Linear \in Nat

VARIABLES
    call,      \* the call
    balancePc, \* "count", "split", "merge", "arrange", "compute", "done" or "failed"
    k,         \* k_partitions
    heap,      \* states_pq
    parts,     \* the partitions, as sequences of row numbers
    restored   \* which row's result is at which place of the restored batch

balancingVars == <<call, balancePc, k, heap, parts, restored>>

Rows == 1 .. Len(call.tokens)

\* The elements of S as Below puts them: behind p - 1 elements, the p-th.
Ordered(S, Below(_, _)) ==
    [p \in 1 .. Cardinality(S) |-> CHOOSE x \in S : Cardinality({y \in S : Below(y, x)}) = p - 1]

\* calculate_workload.
Work(i) == Linear * call.tokens[i] + call.tokens[i] * call.tokens[i]

Equal == call.caller = "ranks"

-----------------------------------------------------------------------------
(* The classes Set and State of karmarkar_karp                             *)

SetOf(i) == [items |-> {i}, sum |-> Work(i)]
EmptySet == [items |-> {}, sum |-> 0]

\* Mutant of Merged: the sum is not brought up to date.
MergedStale(s, t) == [items |-> s.items \cup t.items, sum |-> s.sum]

Merged(s, t) == [items |-> s.items \cup t.items, sum |-> s.sum + t.sum]

\* s > t for Sets.
SetGreater(s, t) ==
    \/ s.sum > t.sum
    \/ s.sum = t.sum /\ Cardinality(s.items) > Cardinality(t.items)

\* The orders sorted(sets, reverse=True) may give.
Sorted(sets) ==
    {[i \in 1 .. k |-> sets[p[i]]] : p \in
        {q \in Bijection(1 .. k, 1 .. k) : \A i, j \in 1 .. k : i < j => ~SetGreater(sets[q[j]], sets[q[i]])}}

Spread(state) == state[1].sum - state[k].sum

\* s is popped before t: State.__lt__.
PopsBefore(s, t) ==
    \/ Spread(s) > Spread(t)
    \/ Spread(s) = Spread(t) /\ SetGreater(s[1], t[1])

\* Mutant of Differenced: heavy sets meet heavy sets.
DifferencedAligned(s, t) == [i \in 1 .. k |-> Merged(s[i], t[i])]

\* State.merge before it sorts: the heaviest set of one state takes the
\* lightest of the other.
Differenced(s, t) == [i \in 1 .. k |-> Merged(s[i], t[k + 1 - i])]

-----------------------------------------------------------------------------
BalancingInit ==
    /\ call \in Calls
    /\ balancePc = IF call.caller = "micro" THEN "count" ELSE "split"
    /\ k = call.k
    /\ heap = {}
    /\ parts = <<>>
    /\ restored = <<>>

CeilDiv(a, b) == (a + b - 1) \div b

\* Mutant of Wanted: one more than the full batches, and no limit.
WantedOneMore == CeilDiv(Max({TotalTokens(call) \div Limit + 1, call.others}), call.divisor) * call.divisor

\* The number of micro-batches: enough for the tokens, at most one per row, as
\* many as any other data parallel rank wants, a multiple of the divisor.
Wanted ==
    CeilDiv(Max({Min({Len(call.tokens), CeilDiv(TotalTokens(call), Limit)}), call.others}), call.divisor)
        * call.divisor

CountMicroBatches ==
    /\ balancePc = "count"
    /\ IF Wanted <= Len(call.tokens)
       THEN k' = Wanted /\ balancePc' = "split"
       ELSE k' = k /\ balancePc' = "failed"
    /\ UNCHANGED <<call, heap, parts, restored>>

\* Row i is before row j by workload, then by number.
Before(i, j) == Work(i) < Work(j) \/ (Work(i) = Work(j) /\ i < j)

\* sorted_seqlen_list.
ByWork == Ordered(Rows, Before)

\* Mutant of Chunk: the second chunk begins with the last row of the first.
ChunkOverlapping(c) == [i \in 1 .. k |-> SetOf(ByWork[c * k + 1 - i - (IF c = 2 THEN 1 ELSE 0)])]

\* For equal sizes: k rows next to each other in that order, a set each.
Chunk(c) == [i \in 1 .. k |-> SetOf(ByWork[c * k + 1 - i])]

\* For any sizes: one row, and k - 1 empty sets.
Single(r) == [i \in 1 .. k |-> IF i = 1 THEN SetOf(r) ELSE EmptySet]

Split ==
    /\ balancePc = "split"
    /\ heap' = IF Equal THEN {Chunk(c) : c \in 1 .. Len(call.tokens) \div k} ELSE {Single(r) : r \in Rows}
    /\ balancePc' = "merge"
    /\ UNCHANGED <<call, k, parts, restored>>

\* Mutant of Merge: the sets of a merged state are not sorted again.
MergeUnsorted(s, t) ==
    /\ balancePc = "merge"
    /\ s # t
    /\ \A u \in heap : ~PopsBefore(u, s)
    /\ \A u \in heap \ {s} : ~PopsBefore(u, t)
    /\ heap' = (heap \ {s, t}) \cup {Differenced(s, t)}
    /\ UNCHANGED <<call, balancePc, k, parts, restored>>

\* The two states with the largest spread are popped and merged.
Merge(s, t) ==
    /\ balancePc = "merge"
    /\ s # t
    /\ \A u \in heap : ~PopsBefore(u, s)
    /\ \A u \in heap \ {s} : ~PopsBefore(u, t)
    /\ \E m \in Sorted(Differenced(s, t)) : heap' = (heap \ {s, t}) \cup {m}
    /\ UNCHANGED <<call, balancePc, k, parts, restored>>

Ascending(S) == Ordered(S, LAMBDA i, j : i < j)

\* The assertion of karmarkar_karp on equal sizes.
EvenSizes(state) == Equal => \A i \in 1 .. k : Cardinality(state[i].items) * k = Len(call.tokens)

\* The assertions of _check_and_sort_partitions.
Covering(state) ==
    /\ \A i \in 1 .. k : state[i].items # {}
    /\ UNION {state[i].items : i \in 1 .. k} = Rows

\* get_partitions, between the assertions on what the differencing left.

GetPartitions(s) ==
    /\ balancePc = "merge"
    /\ heap = {s}
    /\ IF EvenSizes(s) /\ Covering(s)
       THEN parts' = [i \in 1 .. k |-> Ascending(s[i].items)] /\ balancePc' = "arrange"
       ELSE parts' = parts /\ balancePc' = "failed"
    /\ UNCHANGED <<call, k, heap, restored>>

-----------------------------------------------------------------------------
(* The callers                                                             *)

\* s[first::2]
EveryOther(s, first) == [i \in 1 .. CeilDiv(Len(s) - first + 1, 2) |-> s[first + 2 * (i - 1)]]

\* _balance_batch: within a partition, light rows at both ends.
ArrangedRows(part) ==
    LET s == Ordered(ToSet(part), Before)
    IN  EveryOther(s, 1) \o Reverse(EveryOther(s, 2))

PartWork(part) == MapThenSumSet(Work, ToSet(part))

Heavier(p, q) == PartWork(p) > PartWork(q) \/ (PartWork(p) = PartWork(q) /\ p[1] > q[1])

\* Mutant of ArrangedBatches: the heaviest batch comes twice.
ArrangedBatchesTwice ==
    LET s == Ordered(ToSet(parts), Heavier)
    IN  Reverse(EveryOther(s, 1)) \o EveryOther(s, 1)

\* rearrange_micro_batches: light batches at both ends.
ArrangedBatches ==
    LET s == Ordered(ToSet(parts), Heavier)
    IN  Reverse(EveryOther(s, 1)) \o EveryOther(s, 2)

Arrange ==
    /\ balancePc = "arrange"
    /\ parts' = IF Equal THEN [i \in 1 .. k |-> ArrangedRows(parts[i])] ELSE ArrangedBatches
    /\ balancePc' = "compute"
    /\ UNCHANGED <<call, k, heap, restored>>

\* get_reverse_idx: later entries overwrite earlier ones.
ReverseIdx(s) ==
    [j \in 1 .. Len(s) |->
        IF \E i \in 1 .. Len(s) : s[i] = j THEN Max({i \in 1 .. Len(s) : s[i] = j}) ELSE s[j]]

\* restore_dynamic_batch on the results of the micro-batches, in their order.
Restore ==
    /\ balancePc = "compute"
    /\ ~Equal
    /\ LET results == FlattenSeq(parts)
       IN  restored' = [i \in 1 .. Len(results) |-> results[ReverseIdx(results)[i]]]
    /\ balancePc' = "done"
    /\ UNCHANGED <<call, k, heap, parts>>

BalancingNext ==
    \/ CountMicroBatches
    \/ Split
    \/ \E s, t \in heap : Merge(s, t)
    \/ \E s \in heap : GetPartitions(s)
    \/ Arrange
    \/ Restore

BalancingSpec == BalancingInit /\ [][BalancingNext]_balancingVars

-----------------------------------------------------------------------------
(* Properties                                                              *)

SetType == [items : SUBSET Rows, sum : Int]
Decreasing(state) == \A i, j \in 1 .. k : i < j => state[i].sum >= state[j].sum

\* Among the types: "sets should always be decreasing order"
\* (verl/utils/seqlen_balancing.py:97).
BalancingTypeOK ==
    /\ call \in Calls
    /\ balancePc \in {"count", "split", "merge", "arrange", "compute", "done", "failed"}
    /\ k \in Nat \ {0}
    /\ \A s \in heap : s \in [1 .. k -> SetType] /\ Decreasing(s)
    /\ parts \in Seq(Seq(Rows))
    /\ restored \in Seq(Rows)

\* Through all merges a row is in one set of one state, never in two, never in
\* none.
ItemsOnce ==
    balancePc \in {"merge", "arrange", "compute", "done"} =>
        /\ \A r \in Rows : \E s \in heap, i \in 1 .. k : r \in s[i].items
        /\ \A s, t \in heap : \A i, j \in 1 .. k :
              s[i].items \cap t[j].items # {} => s = t /\ i = j

\* The differencing never widens: in every state on the heap, at any time, the
\* heaviest and the lightest set differ by no more than two single rows do, or
\* by no more than one row if the sizes are free.
SpreadBounded ==
    \A s \in heap :
        IF Equal THEN \E i, j \in Rows : Spread(s) <= Work(i) - Work(j)
        ELSE \E i \in Rows : Spread(s) <= Work(i)

\* What a caller gets: every row once; partitions of equal size for ranks, no
\* empty one for micro-batches, whose true workloads are as close as
\* SpreadBounded says.
BalancedResult ==
    balancePc \in {"compute", "done"} =>
        /\ Len(parts) = k
        /\ Len(FlattenSeq(parts)) = Len(call.tokens) /\ ToSet(FlattenSeq(parts)) = Rows
        /\ \A p, q \in 1 .. k :
              /\ parts[p] # <<>>
              /\ Equal => Len(parts[p]) = Len(parts[q])
              /\ PartWork(parts[p]) - PartWork(parts[q])
                    <= Max({Work(i) : i \in Rows}) - (IF Equal THEN Min({Work(i) : i \in Rows}) ELSE 0)

\* However the micro-batches were arranged: each row's result is back at its
\* place, once.
RestoredInOrder == balancePc = "done" => restored = [i \in Rows |-> i]

\* Of all assertions on the way only one can fail: the divisor may ask for
\* more micro-batches than there are rows.
FailsOnlyWhenRounded == balancePc = "failed" => call.divisor > 1 /\ Wanted > Len(call.tokens)
=============================================================================
