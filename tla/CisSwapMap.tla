----------------------------- MODULE CisSwapMap -----------------------------
(***************************************************************************)
(* The swap map of CISGrpoDataset (cis_grpo/dataset.py): which row's image *)
(* the counterfactual (CF) copy of row i borrows.  _build_swap_map runs    *)
(* when the dataset is built and again from set_epoch.  It has three       *)
(* branches: a fixed offset, half the dataset, or a random permutation     *)
(* that a bounded number of passes tries to repair by exchanging two rows, *)
(* after which rows that still overflow the prompt budget borrow their own *)
(* image.                                                                  *)
(*                                                                         *)
(* The random draws (the starting permutation, the order of the violators, *)
(* the 32 partners tried for each) are choices of the environment: a row   *)
(* is repaired with any acceptable partner, or left as it is because none  *)
(* was drawn.  Lengths are small numbers of tokens.                        *)
(***************************************************************************)
EXTENDS Integers, FiniteSets

CONSTANTS
    N,              \* _n_real, the rows left by the filters
    Budget,         \* config.max_prompt_length
    MaxPasses,      \* repair passes of a build (5 in the code)
    NoThinkTokens,  \* tokens of the " /no_think" suffix, 0 with append_no_think off
    MaxEpoch,       \* bound: epochs the dataset is asked to reshuffle for
    Datasets,       \* the datasets explored: [gts, txt, img]
    SwapOffsets,    \* values of the option cis.swap_offset
    ShuffleOptions  \* values of the option cis.shuffle_swap_each_epoch

Row == 0 .. N - 1

\* What prepare_cis_ready.py leaves: every kept row fits the budget with its
\* own image (totals <= max_len), the image tokens being total - text.  A file
\* without the token columns reads as zeros.
KeptRow(d, i) == d.txt[i] + d.img[i] <= Budget

ASSUME NAssumption == N \in Nat /\ N >= 2
ASSUME BoundsAssumption ==
    /\ Budget \in Nat
    /\ MaxPasses \in Nat
    /\ NoThinkTokens \in Nat
    /\ MaxEpoch \in Nat
    /\ SwapOffsets \subseteq Nat
    /\ ShuffleOptions \subseteq BOOLEAN
ASSUME DatasetsAssumption ==
    \A d \in Datasets :
        /\ DOMAIN d.gts = Row
        /\ d.txt \in [Row -> Nat]
        /\ d.img \in [Row -> Nat]
        /\ \A i \in Row : KeptRow(d, i)

VARIABLES
    data,       \* the filtered rows: ground truths, text and image tokens
    swapOffset, \* option cis.swap_offset
    shuffle,    \* option cis.shuffle_swap_each_epoch
    swapEpoch,  \* the epoch the map is (being) built for
    swapPc,     \* "build", "pass", "visit", "redirect", "ready"
    passes,     \* passes begun
    perm,       \* the permutation under repair
    todo,       \* violators of this pass not visited yet
    warned,     \* whether the build logged residual violations
    swapMap     \* _swap_map, the map in service

swapVars == <<data, swapOffset, shuffle, swapEpoch, swapPc, passes, perm, todo, warned, swapMap>>

Identity == [i \in Row |-> i]
RowPermutations == {p \in [Row -> Row] : \A i, j \in Row : p[i] = p[j] => i = j}

-----------------------------------------------------------------------------
(* The three constraints of the docstring.                                 *)

BudgetActive == (\E i \in Row : data.img[i] # 0) /\ (\E i \in Row : data.txt[i] # 0)

\* fits(i, j): row i's prompt with row j's image stays within the budget.
Fits(i, j) == BudgetActive => data.txt[i] + data.img[j] <= Budget

\* Row i may borrow row j's image.
Allowed(i, j) == j # i /\ data.gts[j] # data.gts[i] /\ Fits(i, j)

\* bad(i), and the violators of a pass.
Bad(p, i) == ~Allowed(i, p[i])
Violators(p) == {i \in Row : Bad(p, i)}

\* Mutant of Acceptable: the partner's side is not checked.
AcceptableForOne(p, i, j) == j # i /\ Allowed(i, p[j])

\* Partner j is acceptable for violator i: both rows end up allowed.
Acceptable(p, i, j) == j # i /\ Allowed(i, p[j]) /\ Allowed(j, p[i])

\* Mutant of Exchanged: only one of the two entries is written.
ExchangedHalf(p, i, j) == [p EXCEPT ![i] = p[j]]

Exchanged(p, i, j) == [p EXCEPT ![i] = p[j], ![j] = p[i]]

\* Mutant of Redirected: the safety net is missing.
RedirectedNot(p) == p

\* The final safety net: rows over budget borrow their own image.
Redirected(p) == [i \in Row |-> IF Fits(i, p[i]) THEN p[i] ELSE i]

-----------------------------------------------------------------------------
SwapInit ==
    /\ data \in Datasets
    /\ swapOffset \in SwapOffsets
    /\ shuffle \in ShuffleOptions
    /\ swapEpoch = 0
    /\ swapPc = "build"
    /\ passes = 0
    /\ perm = Identity
    /\ todo = {}
    /\ warned = FALSE
    /\ swapMap = Identity

\* Mutant of BuildFixedOffset: the offset is not reduced modulo N.
BuildUnreducedOffset ==
    /\ swapPc = "build"
    /\ swapOffset > 0
    /\ swapMap' = [i \in Row |-> i + swapOffset]
    /\ swapPc' = "ready"
    /\ UNCHANGED <<data, swapOffset, shuffle, swapEpoch, passes, perm, todo, warned>>

\* Branch 1 of _build_swap_map: a configured offset.
BuildFixedOffset ==
    /\ swapPc = "build"
    /\ swapOffset > 0
    /\ swapMap' = [i \in Row |-> (i + swapOffset) % N]
    /\ swapPc' = "ready"
    /\ UNCHANGED <<data, swapOffset, shuffle, swapEpoch, passes, perm, todo, warned>>

\* Branch 2: no reshuffling, half the dataset (max(1, N // 2), and N >= 2).
BuildHalfOffset ==
    /\ swapPc = "build"
    /\ swapOffset = 0
    /\ ~shuffle
    /\ swapMap' = [i \in Row |-> (i + N \div 2) % N]
    /\ swapPc' = "ready"
    /\ UNCHANGED <<data, swapOffset, shuffle, swapEpoch, passes, perm, todo, warned>>

\* Branch 3: a random permutation, to be repaired.
BuildShuffled ==
    /\ swapPc = "build"
    /\ swapOffset = 0
    /\ shuffle
    /\ perm' \in RowPermutations
    /\ passes' = 0
    /\ swapPc' = "pass"
    /\ UNCHANGED <<data, swapOffset, shuffle, swapEpoch, todo, warned, swapMap>>

BeginPass ==
    /\ swapPc = "pass"
    /\ passes < MaxPasses
    /\ Violators(perm) # {}
    /\ todo' = Violators(perm)
    /\ passes' = passes + 1
    /\ swapPc' = "visit"
    /\ UNCHANGED <<data, swapOffset, shuffle, swapEpoch, perm, warned, swapMap>>

\* Mutant of EndRepair: the residuals are judged by the stale list of the
\* last pass.
EndRepairStale ==
    /\ swapPc = "pass"
    /\ passes = MaxPasses \/ Violators(perm) = {}
    /\ warned' = (todo # {})
    /\ swapPc' = "redirect"
    /\ UNCHANGED <<data, swapOffset, shuffle, swapEpoch, passes, perm, todo, swapMap>>

\* The for loop is over, or left early because nothing is bad; the residual
\* violations are counted and logged.
EndRepair ==
    /\ swapPc = "pass"
    /\ passes = MaxPasses \/ Violators(perm) = {}
    /\ warned' = (Violators(perm) # {})
    /\ swapPc' = "redirect"
    /\ UNCHANGED <<data, swapOffset, shuffle, swapEpoch, passes, perm, todo, swapMap>>

\* The violator list was taken at the start of the pass: row i may have been
\* repaired since as somebody's partner, and is then left alone.
VisitRepaired(i) ==
    /\ swapPc = "visit"
    /\ i \in todo
    /\ ~Bad(perm, i)
    /\ todo' = todo \ {i}
    /\ UNCHANGED <<data, swapOffset, shuffle, swapEpoch, swapPc, passes, perm, warned, swapMap>>

\* The first acceptable partner drawn exchanges images with row i.
VisitExchange(i, j) ==
    /\ swapPc = "visit"
    /\ i \in todo
    /\ Bad(perm, i)
    /\ Acceptable(perm, i, j)
    /\ perm' = Exchanged(perm, i, j)
    /\ todo' = todo \ {i}
    /\ UNCHANGED <<data, swapOffset, shuffle, swapEpoch, swapPc, passes, warned, swapMap>>

\* None of the partners drawn is acceptable.
VisitNoPartner(i) ==
    /\ swapPc = "visit"
    /\ i \in todo
    /\ Bad(perm, i)
    /\ todo' = todo \ {i}
    /\ UNCHANGED <<data, swapOffset, shuffle, swapEpoch, swapPc, passes, perm, warned, swapMap>>

EndPass ==
    /\ swapPc = "visit"
    /\ todo = {}
    /\ swapPc' = "pass"
    /\ UNCHANGED <<data, swapOffset, shuffle, swapEpoch, passes, perm, todo, warned, swapMap>>

\* The redirect of budget violators, and the assignment of the map.
Redirect ==
    /\ swapPc = "redirect"
    /\ swapMap' = Redirected(perm)
    /\ swapPc' = "ready"
    /\ UNCHANGED <<data, swapOffset, shuffle, swapEpoch, passes, perm, todo, warned>>

\* set_epoch: rebuilds only when the option asks for it.
SetEpoch ==
    /\ swapPc = "ready"
    /\ swapEpoch < MaxEpoch
    /\ swapEpoch' = swapEpoch + 1
    /\ swapPc' = IF shuffle THEN "build" ELSE "ready"
    /\ UNCHANGED <<data, swapOffset, shuffle, passes, perm, todo, warned, swapMap>>

SwapNext ==
    \/ BuildFixedOffset
    \/ BuildHalfOffset
    \/ BuildShuffled
    \/ BeginPass
    \/ EndRepair
    \/ \E i \in Row : VisitRepaired(i)
    \/ \E i, j \in Row : VisitExchange(i, j)
    \/ \E i \in Row : VisitNoPartner(i)
    \/ EndPass
    \/ Redirect
    \/ SetEpoch

SwapSpec == SwapInit /\ [][SwapNext]_swapVars

-----------------------------------------------------------------------------
(* What __getitem__ serves: 2N items, even ones real, odd ones the CF copy *)
(* of the same prompt, the prompt extended by _build_messages.             *)

Item == 0 .. 2 * N - 1

ItemImage(k) == IF k % 2 = 1 THEN swapMap[k \div 2] ELSE k \div 2

ItemTokens(k) == data.txt[k \div 2] + data.img[ItemImage(k)] + NoThinkTokens

Shuffled == swapOffset = 0 /\ shuffle

-----------------------------------------------------------------------------
(* Properties                                                              *)

SwapTypeOK ==
    /\ data \in Datasets
    /\ swapOffset \in SwapOffsets
    /\ shuffle \in ShuffleOptions
    /\ swapEpoch \in 0 .. MaxEpoch
    /\ swapPc \in {"build", "pass", "visit", "redirect", "ready"}
    /\ passes \in 0 .. MaxPasses
    /\ perm \in [Row -> Row]
    /\ todo \subseteq Row
    /\ warned \in BOOLEAN
    /\ swapMap \in [Row -> Row]

\* Throughout the repair every image is borrowed exactly once: the exchanges
\* of _build_swap_map never drop or duplicate an entry of perm.
PermutationUnderRepair == perm \in RowPermutations

\* Whatever rows the repair passes could not fix, an item served from a
\* shuffled map is over max_prompt_length by no more than the suffix that
\* _build_messages appends after the tokens were counted.
OverflowOnlyBySuffix ==
    swapPc = "ready" /\ Shuffled => \A k \in Item : ItemTokens(k) <= Budget + NoThinkTokens

\* Constraint 3 of the description: "text_tokens[i] + image_tokens[s(i)] <=
\* max_prompt_length - prevents vLLM overflow" (dataset.py:168-169), so no item of
\* a shuffled map is longer than max_prompt_length.  The code does not keep it
\* with append_no_think, which is on by default.
NoPromptOverflow ==
    swapPc = "ready" /\ Shuffled => \A k \in Item : ItemTokens(k) <= Budget

\* The warning is the only sign of residual violations: a shuffled build that
\* logged nothing serves a permutation that keeps all three constraints.
SilentBuildIsClean ==
    swapPc = "ready" /\ Shuffled /\ ~warned =>
        swapMap \in RowPermutations /\ \A i \in Row : Allowed(i, swapMap[i])

\* A visit never turns a row that was fine into a violator, and an exchange
\* leaves strictly fewer violators than it found.
RepairNeverBreaks ==
    [][swapPc = "visit" =>
         /\ Violators(perm') \subseteq Violators(perm)
         /\ perm' # perm => Violators(perm') # Violators(perm)]_swapVars
=============================================================================
