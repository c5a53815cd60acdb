------------------------- MODULE MCWeightTransfer -------------------------
(* Instances of WeightTransfer for TLC. *)
EXTENDS WeightTransfer

\* With buckets of two bytes: two weights share a bucket, one needs two buckets and leaves room in the second for the
\* next, one fills a bucket exactly, one two of them.
MixedSizes == <<1, 3, 1, 2, 4, 2, 1, 1>>
=============================================================================
