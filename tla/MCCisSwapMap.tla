---------------------------- MODULE MCCisSwapMap ----------------------------
(* Instances of CisSwapMap for TLC.                                        *)
EXTENDS CisSwapMap, Sequences

OnRows(s) == [i \in Row |-> s[i + 1]]

\* Four rows: answers that can all be told apart, answers where a majority
\* makes residual violations certain, crossed with lengths for which nothing,
\* one row or half of the rows are tight, and with files that have no token
\* columns.
MCDatasets ==
    {[gts |-> OnRows(g), txt |-> OnRows(l[1]), img |-> OnRows(l[2])] :
        g \in {<<"A", "A", "B", "C">>, <<"A", "A", "A", "B">>, <<"A", "B", "A", "B">>},
        l \in {<< <<1, 1, 1, 1>>, <<1, 1, 2, 2>> >>,
               << <<2, 1, 1, 1>>, <<1, 2, 1, 2>> >>,
               << <<2, 1, 2, 1>>, <<1, 2, 1, 2>> >>,
               << <<0, 0, 0, 0>>, <<0, 0, 0, 0>> >>}}
=============================================================================
