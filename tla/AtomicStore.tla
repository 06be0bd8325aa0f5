------------------------------ MODULE AtomicStore ------------------------------
(***************************************************************************)
(* What the docstring of harness/local_state.py promises of the FSM store: *)
(* a transition takes effect at once and for good, and is then written to  *)
(* an append-only log.  A crash can come between the two, and then loses   *)
(* the log line but never the transition.                                  *)
(***************************************************************************)
EXTENDS ItemRecords

VARIABLES
    store,     \* the current state of every item
    pending,   \* the log line of the last transition, until it is written
    log        \* the append-only log

absvars == <<store, pending, log>>

Init ==
    /\ store = EmptyStore
    /\ pending = None
    /\ log = <<>>

Commit ==
    /\ pending = None
    /\ \E i \in Items, to \in States, x \in SUBSET Extras,
          n \in 1..MaxCalls :
          LET t == [from |-> store[i].state, to |-> to, by |-> n]
          IN  /\ \A m \in UsedIds(store) : m < n
              /\ store' = Advance(store, i, t, x)
              /\ pending' = [item |-> i, trans |-> t]
    /\ UNCHANGED log

Write ==
    /\ pending # None
    /\ log' = Append(log, pending)
    /\ pending' = None
    /\ UNCHANGED store

Forget ==
    /\ pending # None
    /\ pending' = None
    /\ UNCHANGED <<store, log>>

Next == Commit \/ Write \/ Forget

Spec == Init /\ [][Next]_absvars
=============================================================================
