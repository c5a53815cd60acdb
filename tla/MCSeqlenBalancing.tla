------------------------- MODULE MCSeqlenBalancing -------------------------
(* Instances of SeqlenBalancing for TLC.                                   *)
EXTENDS SeqlenBalancing

Tokens(n) == [1 .. n -> IF n = 5 THEN {1, 4} ELSE {1, 3, 4}]

\* Six rows on two and three ranks; up to five rows in micro-batches of four
\* tokens, next to ranks that want up to three, with and without a divisor.
\* Three lengths, but two for five rows, whose sets have most orders to try.
MCCalls ==
    [caller : {"ranks"}, tokens : Tokens(6), k : {2, 3}, others : {0}, divisor : {1}]
    \cup UNION {[caller : {"micro"}, tokens : Tokens(n), k : {1}, others : {0, 3}, divisor : {1, 2}] :
                  n \in 3 .. 5}
=============================================================================
