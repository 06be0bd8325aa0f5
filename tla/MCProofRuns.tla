----------------------------- MODULE MCProofRuns -----------------------------
(* Two runs are enough to share a port, a card, a second or the store; one *)
(* port is enough to run out of them.                                      *)
EXTENDS ProofRuns

CONSTANTS r1, r2, sol, cand, broken

MCRuns == {r1, r2}
MCTargets == {sol, cand, broken}
MCSolutions == {sol, broken}
MCMalformed == {broken}

L(target, phase, keep, n) ==
    [target |-> target, phase |-> phase, keep |-> keep, trials |-> n]
Pair(one, other) == [r \in MCRuns |-> IF r = r1 THEN one ELSE other]

(* The runs of a pair meet at the port, at the card, or in the store only. *)
MCJobs ==
    {Pair(L(sol, "pre", FALSE, 2), L(sol, "post", FALSE, 1)),
     Pair(L(sol, "post", FALSE, 0), L(sol, "post", FALSE, 0)),
     Pair(L(cand, "post", TRUE, 0), L(sol, "pre", FALSE, 0)),
     Pair(L(broken, "pre", FALSE, 0), L(sol, "pre", FALSE, 0))}
=============================================================================
