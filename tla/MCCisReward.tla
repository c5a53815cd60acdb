---------------------------- MODULE MCCisReward ----------------------------
(* Instances of CisReward for TLC: two prompts with different answers, and *)
(* responses that are empty, have an empty box, or are right for one of    *)
(* the prompts, with or without the format.                                *)
EXTENDS CisReward, TLC

CONSTANTS u1, u2, a, b

ResponseOf(answer, format, len) == [answer |-> answer, format |-> format, len |-> len]

AnyResponse ==
    {ResponseOf(NoBox, FALSE, 0), ResponseOf(NoAnswer, TRUE, 1),
     ResponseOf(a, TRUE, 2), ResponseOf(b, FALSE, 2)}

TwoPrompts == u1 :> {a} @@ u2 :> {b}
OnePrompt == u1 :> {a}
=============================================================================
