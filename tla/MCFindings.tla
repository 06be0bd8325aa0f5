------------------------------ MODULE MCFindings ------------------------------
(* Small instances of the FIND gate.                                       *)
EXTENDS Findings

CONSTANTS v1, v2

OneValidator == {v1}
TwoValidators == {v1, v2}

(* A chain of overlaps, 1 with 2 and 2 with 3, and a pair.                 *)
Chain == {1, 2, 3}
ChainOverlaps == {p \in Chain \X Chain : p[1] - p[2] \in -1..1}
Pair == {1, 2}
PairOverlaps == Pair \X Pair
=============================================================================
