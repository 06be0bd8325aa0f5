------------------------------ MODULE ItemRecords ------------------------------
(***************************************************************************)
(* The data that apply_transition of harness/local_state.py keeps for a    *)
(* finding, a candidate or a solution, and the one update it makes to it.  *)
(* Timestamps and the field "kind" are left out: no tool reads them back.  *)
(***************************************************************************)
EXTENDS Integers, SequencesExt

CONSTANTS
    Items,       \* FIND, CAND and SOL identifiers
    States,      \* names of FSM states
    Extras,      \* keys a caller may put into an item's extras
    None,        \* Python's None: an item without a state, a call without
                 \* a from_state
    MaxCalls     \* bound on the calls of a behaviour

ASSUME NoneAssumption == None \notin States
ASSUME MaxCallsAssumption == MaxCalls \in Nat

(* A transition carries the number of the call that made it: it stands for *)
(* the actor, the reason and the time that identify the call.              *)
Transition == [from : States \cup {None}, to : States, by : 1..MaxCalls]

Item == [state : States \cup {None}, transitions : Seq(Transition),
         extras : SUBSET Extras]

Store == [Items -> Item]

(* An item without transitions is one that is absent from the file.        *)
FreshItem == [state |-> None, transitions |-> <<>>, extras |-> {}]

EmptyStore == [i \in Items |-> FreshItem]

LogLine == [item : Items, trans : Transition]

ASSUME NoneLineAssumption == None \notin LogLine

(* Variant of Advance: the newest transition is put first.                 *)
AdvanceFirst(s, i, t, x) ==
    [s EXCEPT ![i] = [state       |-> t.to,
                      transitions |-> <<t>> \o s[i].transitions,
                      extras      |-> s[i].extras \cup x]]

(* What apply_transition does to item i.                                   *)
Advance(s, i, t, x) ==
    [s EXCEPT ![i] = [state       |-> t.to,
                      transitions |-> Append(s[i].transitions, t),
                      extras      |-> s[i].extras \cup x]]

(* The call numbers that occur in a store.                                 *)
UsedIds(s) ==
    UNION {{s[i].transitions[k].by : k \in DOMAIN s[i].transitions} : i \in Items}

-----------------------------------------------------------------------------
(* A store reads as the life of its items: every transition starts where   *)
(* the one before it ended, and the state is where the last one ended.     *)
Chained(item) ==
    LET ts == item.transitions
    IN  /\ \A k \in 1..Len(ts) :
              ts[k].from = IF k = 1 THEN None ELSE ts[k-1].to
        /\ item.state = IF ts = <<>> THEN None ELSE ts[Len(ts)].to

ChainedStore(s) == \A i \in Items : Chained(s[i])

(* Store u keeps everything that store s has recorded.                     *)
Grows(s, u) ==
    \A i \in Items : /\ IsPrefix(s[i].transitions, u[i].transitions)
                     /\ s[i].extras \subseteq u[i].extras
=============================================================================
