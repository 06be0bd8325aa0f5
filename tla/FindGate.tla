------------------------------- MODULE FindGate -------------------------------
(***************************************************************************)
(* What the FIND gate promises (schema/finding.schema.yaml, "status" and   *)
(* B-1-4): a finding is in one place at a time, it reaches ready/ only     *)
(* when it overlaps nothing there, and the recorded state is that of the   *)
(* place.                                                                  *)
(***************************************************************************)
CONSTANTS Finds, Overlaps

VARIABLES place, state

vars == <<place, state>>

StateOf == [ready |-> "discovered", rejected |-> "rejected"]

Init ==
    /\ place = [f \in Finds |-> "unwritten"]
    /\ state = [f \in Finds |-> "none"]

Move(f, from, to) ==
    /\ place[f] = from
    /\ place' = [place EXCEPT ![f] = to]
    /\ UNCHANGED state

Write(f) == Move(f, "unwritten", "drafts")

Promote(f) ==
    /\ Move(f, "drafts", "ready")
    /\ \A g \in Finds \ {f} : place[g] = "ready" => <<f, g>> \notin Overlaps

Reject(f) == Move(f, "drafts", "rejected")

Return(f) == Move(f, "rejected", "drafts")

Record(f) ==
    /\ place[f] \in DOMAIN StateOf
    /\ state' = [state EXCEPT ![f] = StateOf[place[f]]]
    /\ UNCHANGED place

Next ==
    \E f \in Finds :
        Write(f) \/ Promote(f) \/ Reject(f) \/ Return(f) \/ Record(f)

Spec == Init /\ [][Next]_vars
=============================================================================
