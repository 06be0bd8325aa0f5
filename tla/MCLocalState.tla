----------------------------- MODULE MCLocalState -----------------------------
(* Small instances of the FSM store.                                       *)
EXTENDS LocalState

CONSTANTS p1, p2, i1, i2, draft, ready, fp, n1, n2, n3

MCProcs == {p1, p2}
MCItems == {i1, i2}
OneItem == {i1}
MCStates == {draft, ready}
OneState == {draft}
MCExtras == {fp}
NoExtras == {}
TwoInodes == {n1, n2}
ThreeInodes == {n1, n2, n3}
=============================================================================
