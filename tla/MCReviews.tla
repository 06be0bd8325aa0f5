------------------------------ MODULE MCReviews ------------------------------
(* Three roles that a mode requires, and one that only some rounds         *)
(* ask; an approval, an objection and a file that cannot be read; and a    *)
(* selection that is too small.                                            *)
EXTENDS Reviews, TLC

CONSTANTS positive, critical, reproduction, other

MCRoles == {positive, critical, reproduction, other}
MCVerdicts == {"real", "synthetic", "garbled"}

MCSelections ==
    {{other}, {positive, critical, reproduction}, MCRoles}

(* The rules count verdicts and do not look at who gave them.              *)
Symmetry == Permutations(MCRoles \ {other})
=============================================================================
