----------------------------- MODULE MCCandidates -----------------------------
(* Small instances of the candidates' life.                                *)
EXTENDS Candidates

CONSTANTS p1, p2, c1, c2, f1, f2, old

OneCommand == {p1}
TwoCommands == {p1, p2}
OneCand == {c1}
TwoCands == {c1, c2}
OneFind == {f1}
TwoFinds == {f1, f2}
MCContents == {old}

(* Two candidates that share a finding, and one with one finding.          *)
Shared == [c \in TwoCands |-> IF c = c1 THEN {f1} ELSE {f1, f2}]
Single == [c \in OneCand |-> {f1}]

Says(verdict, confidence, paths) ==
    [verdict |-> verdict, confidence |-> confidence, sound |-> TRUE,
     paths |-> paths]

(* A grounded approval, one that also cites other lines, and an uncertain  *)
(* verdict.                                                                *)
FewVerdicts ==
    {Says("approve", "high", {f1}),
     Says("approve", "high", {f1, Elsewhere}),
     Says("uncertain", "high", {f1})}

(* Also a less confident one, one that breaks the schema, and two whose    *)
(* evidence_paths are empty and null.                                      *)
ManyVerdicts ==
    FewVerdicts \cup
    {Says("approve", "medium", {f1}),
     [Says("approve", "high", {f1}) EXCEPT !.sound = FALSE],
     Says("uncertain", "high", {}),
     Says("approve", "high", Null)}
=============================================================================
