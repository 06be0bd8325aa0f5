------------------------ MODULE LocalStateSerialProofs ------------------------
(***************************************************************************)
(* What the FSM store guarantees when one command runs at a time, with     *)
(* kills at any point of a call: nothing that was recorded is lost, the    *)
(* file is never torn, and the store implements the atomic store.          *)
(***************************************************************************)
EXTENDS LocalStateProofs

-----------------------------------------------------------------------------
(* Facts about the update of one item.                                     *)

(* The updated store keeps what the old one has recorded.                  *)
LEMMA AdvanceGrows ==
  ASSUME NEW s \in Store, NEW i \in Items, NEW t \in Transition,
         NEW x \in SUBSET Extras
  PROVE  Grows(s, Advance(s, i, t, x))
<1> DEFINE u == Advance(s, i, t, x)
<1>1. \A j \in Items : s[j].transitions \in Seq(Transition)
  BY DEF Store, Item
<1>2. \A j \in Items : IsPrefix(s[j].transitions, s[j].transitions)
  BY <1>1 DEF IsPrefix
<1>3. \A ts \in Seq(Transition) : IsPrefix(ts, Append(ts, t))
  BY DEF IsPrefix
<1>4. \A j \in Items \ {i} : u[j] = s[j]
  BY DEF Advance, Store
<1>5. u[i].transitions = Append(s[i].transitions, t)
      /\ u[i].extras = s[i].extras \cup x
  BY DEF Advance, Store
<1>6. QED
  BY <1>1, <1>2, <1>3, <1>4, <1>5 DEF Grows

(* A transition that starts in the item's state keeps the chains.          *)
LEMMA AdvanceChained ==
  ASSUME NEW s \in Store, NEW i \in Items, NEW t \in Transition,
         NEW x \in SUBSET Extras, ChainedStore(s), t.from = s[i].state
  PROVE  ChainedStore(Advance(s, i, t, x))
<1> DEFINE u == Advance(s, i, t, x)
           ts == s[i].transitions
<1>1. \A j \in Items \ {i} : u[j] = s[j]
  BY DEF Advance, Store
<1>2. u[i].transitions = Append(ts, t) /\ u[i].state = t.to
  BY DEF Advance, Store
<1>3. ts \in Seq(Transition) /\ Chained(s[i])
  BY DEF Store, Item, ChainedStore
<1>4. /\ Append(ts, t) \in Seq(Transition)
      /\ Append(ts, t) # <<>>
      /\ Len(Append(ts, t)) = Len(ts) + 1
      /\ Len(ts) \in Nat
      /\ \A k \in 1..Len(ts) : Append(ts, t)[k] = ts[k]
      /\ Append(ts, t)[Len(ts) + 1] = t
  BY <1>3
<1>5. \A k \in 1..Len(ts) :
        Append(ts, t)[k].from = IF k = 1 THEN None ELSE Append(ts, t)[k-1].to
  BY <1>3, <1>4 DEF Chained
<1>6. t.from = IF Len(ts) = 0 THEN None ELSE ts[Len(ts)].to
  BY <1>3 DEF Chained
<1>7. Append(ts, t)[Len(ts) + 1].from =
        IF Len(ts) + 1 = 1 THEN None ELSE Append(ts, t)[Len(ts)].to
  BY <1>4, <1>6
<1>8. Chained(u[i])
  BY <1>2, <1>4, <1>5, <1>7 DEF Chained
<1>9. QED
  BY <1>1, <1>8 DEF ChainedStore

(* The update uses one more call number.                                   *)
LEMMA AdvanceIds ==
  ASSUME NEW s \in Store, NEW i \in Items, NEW t \in Transition,
         NEW x \in SUBSET Extras
  PROVE  UsedIds(Advance(s, i, t, x)) = UsedIds(s) \cup {t.by}
<1> DEFINE u == Advance(s, i, t, x)
           ts == s[i].transitions
           Ids(r, j) == {r[j].transitions[k].by : k \in DOMAIN r[j].transitions}
<1>1. \A j \in Items \ {i} : Ids(u, j) = Ids(s, j)
  BY DEF Advance, Store
<1>2. u[i].transitions = Append(ts, t) /\ ts \in Seq(Transition)
  BY DEF Advance, Store, Item
<1>3. /\ DOMAIN Append(ts, t) = DOMAIN ts \cup {Len(ts) + 1}
      /\ Len(ts) + 1 \notin DOMAIN ts
      /\ \A k \in DOMAIN ts : Append(ts, t)[k] = ts[k]
      /\ Append(ts, t)[Len(ts) + 1] = t
  BY <1>2
<1>4. Ids(u, i) = Ids(s, i) \cup {t.by}
  BY <1>2, <1>3
<1>5. \A m : m \in UsedIds(u) <=> \E j \in Items : m \in Ids(u, j)
  BY DEF UsedIds
<1>6. \A m : m \in UsedIds(s) <=> \E j \in Items : m \in Ids(s, j)
  BY DEF UsedIds
<1> HIDE DEF u, ts, Ids
<1>7. \A m : m \in UsedIds(u) <=> m \in UsedIds(s) \cup {t.by}
  BY <1>1, <1>4, <1>5, <1>6
<1>8. QED
  BY <1>7 DEF u

-----------------------------------------------------------------------------
(* The inductive invariant of serial use.                                  *)

AtMostOneCall ==
    \A p, q \in Procs : pc[p] # "idle" /\ pc[q] # "idle" => p = q

FilesApart == live # NoFile => tmp # live

Unsaved(p) == pc[p] \in {"loaded", "opened", "dumping", "dumped"}

(* What a call is about to save is one update away from state.yaml.        *)
MemIsNext ==
    \A p \in Procs : Unsaved(p) =>
        /\ \E x \in SUBSET Extras :
              mem[p] = Advance(LiveStore, entry[p].item, entry[p].trans, x)
        /\ entry[p].trans.from = LiveStore[entry[p].item].state

(* The temporary file is the one that the call has open.                   *)
TmpIsMine ==
    \A p \in Procs :
        /\ pc[p] \in {"opened", "dumping", "dumped"} =>
              tmp # NoFile /\ fd[p] = tmp
        /\ pc[p] = "opened" => content[tmp] = Blank
        /\ pc[p] = "dumping" => content[tmp] = [store |-> mem[p], cut |-> TRUE]
        /\ pc[p] = "dumped" => content[tmp] = [store |-> mem[p], cut |-> FALSE]

(* Call numbers in state.yaml are those of earlier calls.                  *)
IdsFollowCalls ==
    /\ \A m \in UsedIds(LiveStore) : m <= calls
    /\ \A p \in Procs : pc[p] # "idle" => entry[p].trans.by = calls
    /\ \A p \in Procs : Unsaved(p) => \A m \in UsedIds(LiveStore) : m < calls

SerialInv ==
    /\ TypeInv
    /\ AtMostOneCall
    /\ FilesApart
    /\ Readable
    /\ StateIsChained
    /\ MemIsNext
    /\ TmpIsMine
    /\ IdsFollowCalls

(* What a step other than the rename leaves of state.yaml.                 *)
LEMMA LiveKept ==
  ASSUME SerialInv, NEW p \in Procs,
         \/ Load(p) \/ Refuse(p) \/ OpenTmp(p) \/ DumpPart(p) \/ Dump(p)
         \/ ReplaceFails(p) \/ AppendHistory(p) \/ Crash(p) \/ UNCHANGED vars
  PROVE  live' = live /\ LiveBody' = LiveBody /\ LiveStore' = LiveStore
<1> USE DEF SerialInv, TypeInv
<1>1. live' = live
  BY DEF Load, Refuse, OpenTmp, DumpPart, Dump, ReplaceFails, AppendHistory,
         Crash, files, vars
<1>2. CASE OpenTmp(p)
  BY <1>1, <1>2 DEF OpenTmp, LiveBody, FilesApart, TypeOK, LiveStore
<1>3. CASE DumpPart(p) \/ Dump(p)
  <2>1. fd[p] = tmp /\ tmp # NoFile
    BY <1>3 DEF DumpPart, Dump, TmpIsMine
  <2>2. \E b : content' = [content EXCEPT ![tmp] = b]
    BY <1>3, <2>1 DEF DumpPart, Dump
  <2>3. QED
    BY <1>1, <2>1, <2>2 DEF LiveBody, FilesApart, TypeOK, LiveStore
<1>4. CASE ~OpenTmp(p) /\ ~DumpPart(p) /\ ~Dump(p)
  <2>1. content' = content
    BY <1>4 DEF Load, Refuse, ReplaceFails, AppendHistory, Crash, files, vars
  <2>2. QED
    BY <1>1, <2>1 DEF LiveBody, LiveStore
<1>5. QED
  BY <1>2, <1>3, <1>4

-----------------------------------------------------------------------------
(* The serial specification is the specification with fewer steps.         *)
LEMMA SerialSteps == SerialNext => Next
BY DEF SerialNext, Next

(* The empty store satisfies the invariant.                                *)
LEMMA SerialInit == Init => SerialInv
<1> SUFFICES ASSUME Init PROVE SerialInv
  OBVIOUS
<1>1. TypeInv
  BY TypeInit
<1>2. LiveBody = Blank /\ LiveStore = EmptyStore /\ ~LiveBody.cut
  BY DEF Init, LiveBody, LiveStore, Blank
<1>3. ChainedStore(EmptyStore)
  BY DEF ChainedStore, EmptyStore, FreshItem, Chained
<1>4. UsedIds(EmptyStore) = {}
  BY DEF UsedIds, EmptyStore, FreshItem
<1>5. \A p \in Procs : pc[p] = "idle"
  BY DEF Init
<1>6. QED
  BY <1>1, <1>2, <1>3, <1>4, <1>5
     DEF SerialInv, AtMostOneCall, FilesApart, Readable, StateIsChained,
         MemIsNext, TmpIsMine, IdsFollowCalls, Unsaved, Init

(* Every serial step keeps the invariant.                                  *)
LEMMA SerialStep == SerialInv /\ [SerialNext]_vars => SerialInv'
<1> SUFFICES ASSUME SerialInv, [SerialNext]_vars PROVE SerialInv'
  OBVIOUS
<1>t. TypeInv /\ TypeInv'
  BY TypeStep, SerialSteps DEF SerialInv
<1>live. \A p \in Procs :
           (Load(p) \/ Refuse(p) \/ OpenTmp(p) \/ DumpPart(p) \/ Dump(p)
             \/ ReplaceFails(p) \/ AppendHistory(p) \/ Crash(p))
           => live' = live /\ LiveBody' = LiveBody /\ LiveStore' = LiveStore
  BY LiveKept
<1>s. LiveStore \in Store
  BY <1>t, EmptyStoreType DEF TypeInv, TypeOK, LiveStore, LiveBody, Blank, Body
<1>c. calls \in Nat
  BY <1>t, MaxCallsAssumption DEF TypeInv, TypeOK
<1>u. UsedIds(LiveStore) \subseteq Nat
  <2>1. \A i \in Items : LiveStore[i].transitions \in Seq(Transition)
    BY <1>s DEF Store, Item
  <2>t. \A t \in Transition : t.by \in Nat
    BY MaxCallsAssumption DEF Transition
  <2>2. ASSUME NEW i \in Items, NEW k \in DOMAIN LiveStore[i].transitions
        PROVE  LiveStore[i].transitions[k].by \in Nat
    <3>1. LiveStore[i].transitions \in Seq(Transition)
      BY <2>1
    <3>2. LiveStore[i].transitions[k] \in Transition
      BY <3>1
    <3>3. QED
      BY <3>2, <2>t
  <2>3. QED
    BY <2>2 DEF UsedIds
<1>alone. ASSUME NEW p \in Procs, pc[p] # "idle"
          PROVE  \A q \in Procs \ {p} : pc[q] = "idle"
  BY <1>alone DEF SerialInv, AtMostOneCall
<1> USE DEF SerialInv
<1>1. ASSUME NEW p \in Procs, Alone(p), Load(p) PROVE SerialInv'
  <2>1. /\ pc' = [pc EXCEPT ![p] = "loaded"] /\ pc[p] = "idle"
        /\ calls' = calls + 1
        /\ tmp' = tmp /\ content' = content
        /\ \A q \in Procs \ {p} : pc[q] = "idle"
    BY <1>1 DEF Load, files, Alone
  <2>2. \A q \in Procs \ {p} : pc'[q] = "idle"
    BY <2>1, <1>t DEF TypeInv, TypeOK
  <2>3. pc'[p] = "loaded"
    BY <2>1, <1>t DEF TypeInv, TypeOK
  <2>4. LoadResults(LiveBody) = {LiveStore}
    BY DEF LoadResults, LiveStore, Readable
  <2>load. PICK s \in LoadResults(LiveBody), i \in Items, to \in States,
                from \in States \cup {None}, x \in SUBSET Extras :
              Update(p, s, i, from, to, x)
    BY <1>1 DEF Load
  <2>a. /\ mem' = [mem EXCEPT ![p] =
              Advance(s, i, [from |-> s[i].state, to |-> to, by |-> calls + 1], x)]
        /\ entry' = [entry EXCEPT ![p] = [item |-> i,
              trans |-> [from |-> s[i].state, to |-> to, by |-> calls + 1]]]
    BY <2>load DEF Update
  <2> DEFINE t == [from |-> LiveStore[i].state, to |-> to, by |-> calls + 1]
  <2>5. /\ mem' = [mem EXCEPT ![p] = Advance(LiveStore, i, t, x)]
        /\ entry' = [entry EXCEPT ![p] = [item |-> i, trans |-> t]]
    BY <2>a, <2>4
  <2>6. /\ mem'[p] = Advance(LiveStore, entry'[p].item, entry'[p].trans, x)
        /\ entry'[p].trans.from = LiveStore[entry'[p].item].state
        /\ entry'[p].trans.by = calls'
    BY <2>1, <2>5, <1>t DEF TypeInv, TypeOK
  <2>7. AtMostOneCall'
    BY <2>2 DEF AtMostOneCall
  <2>8. FilesApart' /\ Readable' /\ StateIsChained'
    BY <1>1, <1>live, <2>1 DEF FilesApart, Readable, StateIsChained
  <2>9. MemIsNext'
    BY <1>1, <1>live, <2>2, <2>6 DEF MemIsNext, Unsaved
  <2>10. TmpIsMine'
    BY <2>2, <2>3 DEF TmpIsMine
  <2>11. IdsFollowCalls'
    <3>1. \A m \in UsedIds(LiveStore) : m < calls'
      BY <1>c, <1>u, <2>1 DEF IdsFollowCalls
    <3>2. QED
      BY <1>1, <1>live, <1>c, <1>u, <2>1, <2>2, <2>6, <3>1
         DEF IdsFollowCalls, Unsaved
  <2>12. QED
    BY <1>t, <2>7, <2>8, <2>9, <2>10, <2>11
<1>2. ASSUME NEW p \in Procs, Alone(p), Refuse(p) PROVE SerialInv'
  <2>1. /\ \A q \in Procs : pc[q] = "idle" /\ pc'[q] = "idle"
        /\ calls' = calls + 1 /\ tmp' = tmp
    BY <1>2 DEF Refuse, Alone, files
  <2>2. \A m \in UsedIds(LiveStore) : m <= calls'
    BY <1>c, <1>u, <2>1 DEF IdsFollowCalls
  <2>3. QED
    BY <1>2, <1>t, <1>live, <2>1, <2>2
       DEF AtMostOneCall, FilesApart, Readable, StateIsChained, MemIsNext,
           TmpIsMine, IdsFollowCalls, Unsaved
(* The call goes on in its own files: only pc and the temporary file move. *)
<1>3. ASSUME NEW p \in Procs, OpenTmp(p) \/ DumpPart(p) \/ Dump(p)
      PROVE  SerialInv'
  <2>1. /\ pc[p] \in {"loaded", "opened", "dumping"}
        /\ \E next \in {"opened", "dumping", "dumped"} :
              pc' = [pc EXCEPT ![p] = next]
        /\ mem' = mem /\ entry' = entry /\ calls' = calls
    BY <1>3 DEF OpenTmp, DumpPart, Dump
  <2>2. \A q \in Procs \ {p} : pc[q] = "idle" /\ pc'[q] = "idle"
    BY <1>alone, <2>1, <1>t DEF TypeInv, TypeOK
  <2>3. Unsaved(p) /\ Unsaved(p)' /\ pc[p] # "idle" /\ pc'[p] # "idle"
    BY <2>1, <1>t DEF Unsaved, TypeInv, TypeOK
  <2>4. AtMostOneCall'
    BY <2>2 DEF AtMostOneCall
  <2>5. live' = live /\ LiveBody' = LiveBody /\ LiveStore' = LiveStore
    BY <1>3, <1>live
  <2>6. FilesApart'
    BY <1>3, <2>5, <1>t, NoFileAssumption
       DEF OpenTmp, DumpPart, Dump, FilesApart, TypeInv, TypeOK
  <2>7. Readable' /\ StateIsChained'
    BY <2>5 DEF Readable, StateIsChained
  <2>8. MemIsNext'
    BY <2>1, <2>2, <2>3, <2>5 DEF MemIsNext, Unsaved
  <2>9. TmpIsMine'
    <3>1. CASE OpenTmp(p)
      <4>1. PICK n \in Inodes : tmp' = n /\ fd' = [fd EXCEPT ![p] = n]
                                /\ content' = [content EXCEPT ![n] = Blank]
        BY <3>1 DEF OpenTmp
      <4>2. fd'[p] = n /\ content'[n] = Blank /\ n # NoFile
        BY <4>1, <1>t, NoFileAssumption DEF TypeInv, TypeOK
      <4>3. pc'[p] = "opened"
        BY <3>1, <1>t DEF OpenTmp, TypeInv, TypeOK
      <4>4. QED
        BY <2>2, <4>1, <4>2, <4>3 DEF TmpIsMine
    <3>2. CASE DumpPart(p)
      <4>1. fd[p] = tmp /\ tmp # NoFile /\ tmp \in Inodes
        BY <3>2, <1>t DEF DumpPart, TmpIsMine, TypeInv, TypeOK
      <4>2. content'[tmp] = [store |-> mem[p], cut |-> TRUE]
        <5>1. content[fd[p]] = Blank
          BY <3>2, <4>1 DEF DumpPart, TmpIsMine
        <5>2. content' = [content EXCEPT ![fd[p]] = [store |-> mem[p], cut |-> TRUE]]
          BY <3>2, <5>1 DEF DumpPart
        <5>3. QED
          BY <4>1, <5>2, <1>t DEF TypeInv, TypeOK
      <4>3. pc'[p] = "dumping" /\ tmp' = tmp /\ fd' = fd
        BY <3>2, <1>t DEF DumpPart, TypeInv, TypeOK
      <4>4. QED
        BY <2>1, <2>2, <4>1, <4>2, <4>3 DEF TmpIsMine
    <3>3. CASE Dump(p)
      <4>1. fd[p] = tmp /\ tmp # NoFile /\ tmp \in Inodes
        BY <3>3, <1>t DEF Dump, TmpIsMine, TypeInv, TypeOK
      <4>2. content' = [content EXCEPT ![tmp] = [store |-> mem[p], cut |-> FALSE]]
        <5>1. content[fd[p]] = IF pc[p] = "opened" THEN Blank
                               ELSE [store |-> mem[p], cut |-> TRUE]
          BY <3>3, <4>1 DEF Dump, TmpIsMine
        <5>2. PICK m \in Mixes(mem[p], content[fd[p]].store), c \in BOOLEAN :
                 /\ m = mem[p] /\ ~c
                 /\ content' = [content EXCEPT ![fd[p]] = [store |-> m, cut |-> c]]
          BY <3>3, <5>1 DEF Dump
        <5>3. c = FALSE
          BY <5>2
        <5>4. QED
          BY <4>1, <5>2, <5>3
      <4>3. content'[tmp] = [store |-> mem[p], cut |-> FALSE]
        BY <4>1, <4>2, <1>t DEF TypeInv, TypeOK
      <4>4. pc'[p] = "dumped" /\ tmp' = tmp /\ fd' = fd
        BY <3>3, <1>t DEF Dump, TypeInv, TypeOK
      <4>5. QED
        BY <2>1, <2>2, <4>1, <4>3, <4>4 DEF TmpIsMine
    <3>4. QED
      BY <1>3, <3>1, <3>2, <3>3
  <2>10. IdsFollowCalls'
    BY <2>1, <2>2, <2>3, <2>5 DEF IdsFollowCalls, Unsaved
  <2>11. QED
    BY <1>t, <2>4, <2>6, <2>7, <2>8, <2>9, <2>10
<1>4. ASSUME NEW p \in Procs, Replace(p) PROVE SerialInv'
  <2>1. /\ pc[p] = "dumped" /\ live' = tmp /\ tmp # NoFile /\ tmp' = NoFile
        /\ content' = content /\ entry' = entry /\ calls' = calls
        /\ pc' = [pc EXCEPT ![p] = "replaced"]
    BY <1>4 DEF Replace
  <2>2. \A q \in Procs \ {p} : pc'[q] = "idle"
    BY <1>alone, <2>1, <1>t DEF TypeInv, TypeOK
  <2>3. pc'[p] = "replaced"
    BY <2>1, <1>t DEF TypeInv, TypeOK
  <2>4. LiveBody' = [store |-> mem[p], cut |-> FALSE]
    BY <2>1 DEF LiveBody, TmpIsMine
  <2>5. LiveStore' = mem[p] /\ ~LiveBody'.cut
    BY <2>4 DEF LiveStore
  <2>6. PICK x \in SUBSET Extras :
           mem[p] = Advance(LiveStore, entry[p].item, entry[p].trans, x)
    BY <2>1 DEF MemIsNext, Unsaved
  <2>7. entry[p].item \in Items /\ entry[p].trans \in Transition
    BY <2>1, <1>t DEF TypeInv, BusyHasEntry, LogLine
  <2>8. ChainedStore(LiveStore')
    BY <1>s, <2>1, <2>5, <2>6, <2>7, AdvanceChained
       DEF MemIsNext, Unsaved, StateIsChained
  <2>9. UsedIds(LiveStore') = UsedIds(LiveStore) \cup {calls}
    BY <1>s, <2>1, <2>5, <2>6, <2>7, AdvanceIds DEF IdsFollowCalls
  <2>10. AtMostOneCall'
    BY <2>2 DEF AtMostOneCall
  <2>11. FilesApart' /\ Readable' /\ StateIsChained'
    BY <2>1, <2>5, <2>8 DEF FilesApart, Readable, StateIsChained
  <2>12. MemIsNext' /\ TmpIsMine'
    BY <2>2, <2>3 DEF MemIsNext, TmpIsMine, Unsaved
  <2>13. IdsFollowCalls'
    BY <1>c, <1>u, <2>1, <2>2, <2>3, <2>9 DEF IdsFollowCalls, Unsaved
  <2>14. QED
    BY <1>t, <2>10, <2>11, <2>12, <2>13
(* The end of a call, by any of its three ways.                            *)
<1>5. ASSUME NEW p \in Procs, ReplaceFails(p) \/ AppendHistory(p) \/ Crash(p)
      PROVE  SerialInv'
  <2>1. /\ pc[p] # "idle" /\ pc' = [pc EXCEPT ![p] = "idle"]
        /\ calls' = calls /\ tmp' = tmp
    BY <1>5 DEF ReplaceFails, AppendHistory, Crash, Leave, files
  <2>2. \A q \in Procs : pc'[q] = "idle"
    BY <1>alone, <2>1, <1>t DEF TypeInv, TypeOK
  <2>3. QED
    BY <1>5, <1>t, <1>live, <2>1, <2>2
       DEF AtMostOneCall, FilesApart, Readable, StateIsChained, MemIsNext,
           TmpIsMine, IdsFollowCalls, Unsaved
<1>6. CASE UNCHANGED vars
  BY <1>6, <1>t
     DEF vars, LiveBody, LiveStore, AtMostOneCall, FilesApart, Readable,
         StateIsChained, MemIsNext, TmpIsMine, IdsFollowCalls, Unsaved
<1>7. QED
  BY <1>1, <1>2, <1>3, <1>4, <1>5, <1>6 DEF SerialNext, Resume

(* The invariant of serial use.                                            *)
LEMMA SerialInvariant == SerialSpec => []SerialInv
BY SerialInit, SerialStep, PTL DEF SerialSpec

(* save_state writes to another file and renames it, so a kill at any      *)
(* point of a call leaves a state.yaml that load_state can parse.          *)
THEOREM NeverTorn == SerialSpec => []Readable
<1>1. SerialInv => Readable
  BY DEF SerialInv
<1>2. QED
  BY <1>1, SerialInvariant, PTL

(* apply_transition takes the start of a transition from the file it       *)
(* updates, so the transitions of an item chain up to its state.           *)
THEOREM ChainsAreKept == SerialSpec => []StateIsChained
<1>1. SerialInv => StateIsChained
  BY DEF SerialInv
<1>2. QED
  BY <1>1, SerialInvariant, PTL

(* What the rename does to state.yaml: one update of one item.             *)
LEMMA ReplaceAdvances ==
  ASSUME SerialInv, NEW p \in Procs, Replace(p)
  PROVE  /\ LiveStore \in Store
         /\ entry[p].item \in Items /\ entry[p].trans \in Transition
         /\ entry[p].trans.from = LiveStore[entry[p].item].state
         /\ \E x \in SUBSET Extras :
               LiveStore' = Advance(LiveStore, entry[p].item, entry[p].trans, x)
<1> USE DEF SerialInv
<1>1. pc[p] = "dumped" /\ live' = tmp /\ tmp # NoFile /\ content' = content
  BY DEF Replace
<1>a. LiveBody' = [store |-> mem[p], cut |-> FALSE]
  BY <1>1 DEF LiveBody, TmpIsMine
<1>2. LiveStore' = mem[p]
  BY <1>a DEF LiveStore
<1>3. LiveStore \in Store
  BY EmptyStoreType DEF TypeInv, TypeOK, LiveStore, LiveBody, Blank, Body
<1>4. QED
  BY <1>1, <1>2, <1>3
     DEF MemIsNext, Unsaved, TypeInv, BusyHasEntry, LogLine

(* No transition and no extra that state.yaml holds is ever taken away, by *)
(* a later call, a refused call or a kill.                                 *)
THEOREM NothingIsLost == SerialSpec => Durable
<1>1. SerialInv /\ [SerialNext]_vars => [Grows(LiveStore, LiveStore')]_vars
  <2> SUFFICES ASSUME SerialInv, SerialNext
               PROVE  Grows(LiveStore, LiveStore')
    OBVIOUS
  <2>1. LiveStore \in Store
    BY EmptyStoreType
       DEF SerialInv, TypeInv, TypeOK, LiveStore, LiveBody, Blank, Body
  <2>2. ASSUME LiveStore' = LiveStore
        PROVE  Grows(LiveStore, LiveStore')
    <3>1. \A i \in Items : LiveStore[i].transitions \in Seq(Transition)
      BY <2>1 DEF Store, Item
    <3>2. QED
      BY <2>2, <3>1 DEF Grows, IsPrefix
  <2>3. ASSUME NEW p \in Procs, Replace(p)
        PROVE  Grows(LiveStore, LiveStore')
    BY <2>3, ReplaceAdvances, AdvanceGrows
  <2>4. QED
    BY <2>2, <2>3, LiveKept DEF SerialNext, Resume
<1>2. QED
  BY <1>1, SerialInvariant, PTL DEF SerialSpec, Durable

-----------------------------------------------------------------------------
(* The log.  Its lines are of earlier calls, and a call that is about to   *)
(* append has its transition in state.yaml.                                *)
LogInv ==
    /\ LogFollowsState
    /\ \A k \in 1..Len(history) : history[k].trans.by <= calls
    /\ \A p \in Procs : pc[p] # "idle" =>
          \A k \in 1..Len(history) : history[k].trans.by < calls
    /\ \A p \in Procs : pc[p] = "replaced" =>
          entry[p].trans \in ToSet(LiveStore[entry[p].item].transitions)

(* A transition that a store holds stays in every store that grows from it.*)
LEMMA GrowsKeeps ==
  ASSUME NEW s \in Store, NEW u \in Store, Grows(s, u), NEW i \in Items,
         NEW t, t \in ToSet(s[i].transitions)
  PROVE  t \in ToSet(u[i].transitions)
<1>1. s[i].transitions \in Seq(Transition) /\ u[i].transitions \in Seq(Transition)
  BY DEF Store, Item
<1>2. PICK k \in 1..Len(s[i].transitions) : t = s[i].transitions[k]
  BY <1>1 DEF ToSet
<1>3. k \in 1..Len(u[i].transitions) /\ u[i].transitions[k] = s[i].transitions[k]
  <2> DEFINE a == s[i].transitions
             b == u[i].transitions
  <2>1. Len(a) <= Len(b) /\ SubSeq(a, 1, Len(a)) = SubSeq(b, 1, Len(a))
    BY DEF Grows, IsPrefix
  <2>2. a[k] = SubSeq(a, 1, Len(a))[k] /\ b[k] = SubSeq(b, 1, Len(a))[k]
    BY <1>1, <1>2, <2>1
  <2>3. QED
    BY <1>1, <1>2, <2>1, <2>2
<1>4. QED
  BY <1>1, <1>2, <1>3 DEF ToSet

(* The transition that an update adds is in the updated store.             *)
LEMMA AdvanceAdds ==
  ASSUME NEW s \in Store, NEW i \in Items, NEW t \in Transition,
         NEW x \in SUBSET Extras
  PROVE  t \in ToSet(Advance(s, i, t, x)[i].transitions)
<1> DEFINE ts == s[i].transitions
           us == Append(ts, t)
<1>1. ts \in Seq(Transition)
  BY DEF Store, Item
<1>2. Advance(s, i, t, x)[i].transitions = us
  BY DEF Advance, Store
<1>3. us \in Seq(Transition) /\ Len(us) = Len(ts) + 1 /\ us[Len(us)] = t
      /\ Len(ts) \in Nat
  BY <1>1
<1> HIDE DEF us, ts
<1>4. Len(us) \in DOMAIN us
  BY <1>3
<1>5. QED
  BY <1>2, <1>3, <1>4 DEF ToSet

(* Every serial step keeps the invariant of the log.                       *)
LEMMA LogStep ==
  SerialInv /\ SerialInv' /\ LogInv /\ [SerialNext]_vars => LogInv'
<1> SUFFICES ASSUME SerialInv, SerialInv', LogInv, [SerialNext]_vars
             PROVE  LogInv'
  OBVIOUS
<1>t. TypeInv /\ TypeInv'
  BY DEF SerialInv
<1>h. history \in Seq(LogLine)
  BY <1>t DEF TypeInv, TypeOK
<1>c. calls \in Nat
  BY <1>t, MaxCallsAssumption DEF TypeInv, TypeOK
<1>n. \A k \in 1..Len(history) :
        history[k].item \in Items /\ history[k].trans.by \in Nat
  <2>1. \A e \in LogLine : e.item \in Items /\ e.trans.by \in Nat
    BY MaxCallsAssumption DEF LogLine, Transition
  <2>2. \A k \in 1..Len(history) : history[k] \in LogLine
    BY <1>h
  <2>3. QED
    BY <2>1, <2>2
<1>alone. ASSUME NEW p \in Procs, pc[p] # "idle"
          PROVE  \A q \in Procs \ {p} : pc[q] = "idle"
  BY <1>alone DEF SerialInv, AtMostOneCall
<1>1. ASSUME NEW p \in Procs, Alone(p), Load(p) \/ Refuse(p) PROVE LogInv'
  <2>1. LiveStore' = LiveStore /\ history' = history /\ calls' = calls + 1
    BY <1>1, LiveKept DEF Load, Refuse, files
  <2>2. \A q \in Procs : pc'[q] \in {"idle", "loaded"}
    BY <1>1, <1>t DEF Load, Refuse, Alone, TypeInv, TypeOK
  <2>3. \A k \in 1..Len(history) : history[k].trans.by < calls'
    BY <1>c, <1>n, <2>1 DEF LogInv
  <2>4. \A k \in 1..Len(history) : history[k].trans.by <= calls'
    BY <1>c, <1>n, <2>1, <2>3
  <2>5. QED
    BY <2>1, <2>2, <2>3, <2>4 DEF LogInv, LogFollowsState
<1>2. ASSUME NEW p \in Procs,
             OpenTmp(p) \/ DumpPart(p) \/ Dump(p) \/ ReplaceFails(p) \/ Crash(p)
      PROVE  LogInv'
  <2>1. LiveStore' = LiveStore /\ history' = history /\ calls' = calls
    BY <1>2, LiveKept
       DEF OpenTmp, DumpPart, Dump, ReplaceFails, Crash, files
  <2>2. \A q \in Procs : /\ pc'[q] # "idle" => pc[q] # "idle"
                         /\ pc'[q] = "replaced" => pc[q] = "replaced" /\ entry'[q] = entry[q]
    BY <1>2, <1>t
       DEF OpenTmp, DumpPart, Dump, ReplaceFails, Crash, Leave, TypeInv, TypeOK
  <2>3. QED
    BY <2>1, <2>2 DEF LogInv, LogFollowsState
<1>3. ASSUME NEW p \in Procs, Replace(p) PROVE LogInv'
  <2>1. /\ history' = history /\ calls' = calls /\ entry' = entry
        /\ pc[p] # "idle" /\ pc' = [pc EXCEPT ![p] = "replaced"]
    BY <1>3 DEF Replace
  <2>2. \A q \in Procs \ {p} : pc'[q] = "idle"
    BY <1>alone, <2>1, <1>t DEF TypeInv, TypeOK
  <2>3. PICK x \in SUBSET Extras :
           LiveStore' = Advance(LiveStore, entry[p].item, entry[p].trans, x)
    BY <1>3, ReplaceAdvances
  <2>4. /\ LiveStore \in Store /\ LiveStore' \in Store
        /\ entry[p].item \in Items /\ entry[p].trans \in Transition
    BY <1>3, <2>3, ReplaceAdvances, AdvanceType
  <2>5. Grows(LiveStore, LiveStore')
    BY <2>3, <2>4, AdvanceGrows
  <2>6. \A k \in 1..Len(history) :
           history[k].trans \in ToSet(LiveStore'[history[k].item].transitions)
    <3> SUFFICES ASSUME NEW k \in 1..Len(history)
                 PROVE  history[k].trans \in ToSet(LiveStore'[history[k].item].transitions)
      OBVIOUS
    <3>1. history[k].trans \in ToSet(LiveStore[history[k].item].transitions)
      BY DEF LogInv, LogFollowsState
    <3>2. QED
      BY <1>n, <2>4, <2>5, <3>1, GrowsKeeps
  <2>7. entry[p].trans \in ToSet(LiveStore'[entry[p].item].transitions)
    BY <2>3, <2>4, AdvanceAdds
  <2>8. QED
    BY <2>1, <2>2, <2>6, <2>7 DEF LogInv, LogFollowsState
<1>4. ASSUME NEW p \in Procs, AppendHistory(p) PROVE LogInv'
  <2>1. /\ pc[p] = "replaced" /\ history' = Append(history, entry[p])
        /\ pc' = [pc EXCEPT ![p] = "idle"] /\ calls' = calls
        /\ entry[p] \in LogLine
    BY <1>4, <1>t DEF AppendHistory, Leave, TypeInv, BusyHasEntry
  <2>2. LiveStore' = LiveStore
    BY <1>4, LiveKept
  <2>3. \A q \in Procs : pc'[q] = "idle"
    BY <1>alone, <2>1, <1>t DEF TypeInv, TypeOK
  <2>4. /\ Len(history') = Len(history) + 1
        /\ \A k \in 1..Len(history) : history'[k] = history[k]
        /\ history'[Len(history) + 1] = entry[p]
        /\ Len(history) \in Nat
    BY <1>h, <2>1
  <2>5. entry[p].trans.by = calls
    BY <2>1 DEF SerialInv, IdsFollowCalls
  <2>6. \A k \in 1..Len(history') :
           history'[k].trans \in ToSet(LiveStore'[history'[k].item].transitions)
    <3>1. ASSUME NEW k \in 1..Len(history'), k # Len(history) + 1
          PROVE  k \in 1..Len(history)
      BY <2>4, <3>1
    <3>2. QED
      BY <2>1, <2>2, <2>4, <3>1 DEF LogInv, LogFollowsState
  <2>7. \A j, k \in 1..Len(history') : j < k => history'[j].trans.by < history'[k].trans.by
    <3> SUFFICES ASSUME NEW j \in 1..Len(history'), NEW k \in 1..Len(history'), j < k
                 PROVE  history'[j].trans.by < history'[k].trans.by
      OBVIOUS
    <3>1. j \in 1..Len(history) /\ history'[j] = history[j]
      BY <2>4
    <3>2. CASE k = Len(history) + 1
      BY <2>1, <2>4, <2>5, <3>1, <3>2 DEF LogInv
    <3>3. CASE k # Len(history) + 1
      <4>1. k \in 1..Len(history) /\ history'[k] = history[k]
        BY <2>4, <3>3
      <4>2. QED
        BY <3>1, <4>1 DEF LogInv, LogFollowsState
    <3>4. QED
      BY <3>2, <3>3
  <2>8. \A k \in 1..Len(history') : history'[k].trans.by <= calls'
    <3>1. ASSUME NEW k \in 1..Len(history'), k # Len(history) + 1
          PROVE  k \in 1..Len(history)
      BY <2>4, <3>1
    <3>2. QED
      BY <1>c, <2>1, <2>4, <2>5, <3>1 DEF LogInv
  <2>9. QED
    BY <2>3, <2>6, <2>7, <2>8 DEF LogInv, LogFollowsState
<1>5. CASE UNCHANGED vars
  BY <1>5 DEF vars, LogInv, LogFollowsState, LiveStore, LiveBody
<1>6. QED
  BY <1>1, <1>2, <1>3, <1>4, <1>5 DEF SerialNext, Resume

(* append_history follows save_state, so the log never runs ahead of       *)
(* state.yaml and lists the calls in their order.                          *)
THEOREM LogIsFaithful == SerialSpec => []LogFollowsState
<1>1. Init => LogInv
  BY DEF Init, LogInv, LogFollowsState
<1>2. LogInv => LogFollowsState
  BY DEF LogInv
<1>3. SerialSpec => []LogInv
  BY <1>1, LogStep, SerialInvariant, PTL DEF SerialSpec
<1>4. QED
  BY <1>2, <1>3, PTL

-----------------------------------------------------------------------------
(* Refinement.                                                             *)

(* What the abstract store sees of a process that has renamed its file.    *)
LEMMA PendingIs ==
  ASSUME SerialInv, NEW p \in Procs, pc[p] # "idle"
  PROVE  pendingBar = IF pc[p] = "replaced" THEN entry[p] ELSE None
<1>1. \A q \in Procs : pc[q] = "replaced" => q = p
  BY DEF SerialInv, AtMostOneCall
<1>2. QED
  BY <1>1 DEF pendingBar

(* The same after a step.                                                  *)
LEMMA PendingIsNext ==
  ASSUME SerialInv', NEW p \in Procs, pc'[p] # "idle"
  PROVE  pendingBar' = IF pc'[p] = "replaced" THEN entry'[p] ELSE None
<1>1. \A q \in Procs : pc'[q] = "replaced" => q = p
  BY DEF SerialInv, AtMostOneCall
<1>2. QED
  BY <1>1 DEF pendingBar

(* The rename is the atomic commit, the append is the write of the log     *)
(* line, a kill between them forgets the line, and nothing else is visible.*)
THEOREM StoreImplementsAtomicStore == SerialSpec => ImplementsAtomicStore
<1>1. Init => Atomic!Init
  BY DEF Init, Atomic!Init, LiveStore, LiveBody, Blank, pendingBar,
         EmptyStore, FreshItem, Atomic!EmptyStore, Atomic!FreshItem
<1>2. SerialInv /\ SerialInv' /\ [SerialNext]_vars => [Atomic!Next]_Atomic!absvars
  <2> SUFFICES ASSUME SerialInv, SerialInv', [SerialNext]_vars
               PROVE  Atomic!Next \/ UNCHANGED Atomic!absvars
    OBVIOUS
  <2>t. TypeInv /\ TypeInv'
    BY DEF SerialInv
  <2>n. None \notin LogLine
    BY NoneLineAssumption
  <2>1. ASSUME NEW p \in Procs, Alone(p), Load(p) \/ Refuse(p)
        PROVE  UNCHANGED Atomic!absvars
    <3>1. LiveStore' = LiveStore /\ history' = history
      BY <2>1, LiveKept DEF Load, Refuse, files
    <3>2. \A q \in Procs : pc[q] = "idle" /\ pc'[q] # "replaced"
      BY <2>1, <2>t DEF Load, Refuse, Alone, TypeInv, TypeOK
    <3>3. pendingBar = None /\ pendingBar' = None
      BY <3>2 DEF pendingBar
    <3>4. QED
      BY <3>1, <3>3 DEF Atomic!absvars
  <2>2. ASSUME NEW p \in Procs, OpenTmp(p) \/ DumpPart(p) \/ Dump(p)
        PROVE  UNCHANGED Atomic!absvars
    <3>1. LiveStore' = LiveStore /\ history' = history
      BY <2>2, LiveKept DEF OpenTmp, DumpPart, Dump
    <3>2. /\ pc[p] \notin {"idle", "replaced"}
          /\ pc'[p] \notin {"idle", "replaced"}
      BY <2>2, <2>t DEF OpenTmp, DumpPart, Dump, TypeInv, TypeOK
    <3>3. pendingBar = None /\ pendingBar' = None
      BY <3>2, PendingIs, PendingIsNext
    <3>4. QED
      BY <3>1, <3>3 DEF Atomic!absvars
  <2>3. ASSUME NEW p \in Procs, Replace(p)
        PROVE  Atomic!Commit
    <3>1. /\ pc[p] = "dumped" /\ pc'[p] = "replaced"
          /\ entry' = entry /\ history' = history
      BY <2>3, <2>t DEF Replace, TypeInv, TypeOK
    <3>2. pendingBar = None /\ pendingBar' = entry[p]
      BY <3>1, PendingIs, PendingIsNext
    <3> DEFINE i == entry[p].item
               t == entry[p].trans
    <3>3. PICK x \in SUBSET Extras : LiveStore' = Advance(LiveStore, i, t, x)
      BY <2>3, ReplaceAdvances
    <3>4. /\ i \in Items /\ t \in Transition
          /\ t.from = LiveStore[i].state
          /\ entry[p] \in LogLine
      BY <2>3, <2>t, <3>1, ReplaceAdvances DEF TypeInv, BusyHasEntry
    <3>5. t.to \in States /\ t.by \in 1..MaxCalls
          /\ t = [from |-> LiveStore[i].state, to |-> t.to, by |-> t.by]
      BY <3>4 DEF Transition
    <3>6. entry[p] = [item |-> i, trans |-> t]
      BY <3>4 DEF LogLine
    <3>7. \A m \in UsedIds(LiveStore) : m < t.by
      BY <3>1 DEF SerialInv, IdsFollowCalls, Unsaved
    <3> HIDE DEF i, t
    <3>8. Atomic!Advance(LiveStore, i, t, x) = Advance(LiveStore, i, t, x)
          /\ Atomic!UsedIds(LiveStore) = UsedIds(LiveStore)
      BY DEF Atomic!Advance, Advance, Atomic!UsedIds, UsedIds
    <3>9. QED
      BY <3>1, <3>2, <3>3, <3>4, <3>5, <3>6, <3>7, <3>8 DEF Atomic!Commit
  <2>4. ASSUME NEW p \in Procs, ReplaceFails(p) PROVE FALSE
    BY <2>4 DEF ReplaceFails, SerialInv, TmpIsMine
  <2>5. ASSUME NEW p \in Procs, AppendHistory(p)
        PROVE  Atomic!Write
    <3>1. /\ pc[p] = "replaced" /\ history' = Append(history, entry[p])
          /\ LiveStore' = LiveStore /\ entry[p] \in LogLine
      BY <2>5, <2>t, LiveKept DEF AppendHistory, TypeInv, BusyHasEntry
    <3>2. pendingBar = entry[p] /\ pendingBar # None
      BY <3>1, <2>n, PendingIs
    <3>3. \A q \in Procs : pc'[q] = "idle"
      BY <2>5, <2>t DEF AppendHistory, Leave, SerialInv, AtMostOneCall, TypeInv, TypeOK
    <3>4. pendingBar' = None
      BY <3>3 DEF pendingBar
    <3>5. QED
      BY <3>1, <3>2, <3>4 DEF Atomic!Write
  <2>6. ASSUME NEW p \in Procs, Crash(p)
        PROVE  Atomic!Forget \/ UNCHANGED Atomic!absvars
    <3>1. /\ pc[p] # "idle" /\ history' = history
          /\ LiveStore' = LiveStore /\ entry[p] \in LogLine
      BY <2>6, <2>t, LiveKept DEF Crash, TypeInv, BusyHasEntry, files
    <3>2. \A q \in Procs : pc'[q] = "idle"
      BY <2>6, <2>t DEF Crash, Leave, SerialInv, AtMostOneCall, TypeInv, TypeOK
    <3>3. pendingBar' = None
      BY <3>2 DEF pendingBar
    <3>4. CASE pc[p] = "replaced"
      BY <3>1, <3>3, <3>4, <2>n, PendingIs DEF Atomic!Forget
    <3>5. CASE pc[p] # "replaced"
      BY <3>1, <3>3, <3>5, PendingIs DEF Atomic!absvars
    <3>6. QED
      BY <3>4, <3>5
  <2>7. CASE UNCHANGED vars
    BY <2>7 DEF vars, Atomic!absvars, LiveStore, LiveBody, pendingBar
  <2>8. QED
    BY <2>1, <2>2, <2>3, <2>4, <2>5, <2>6, <2>7
       DEF SerialNext, Resume, Atomic!Next
<1>3. QED
  BY <1>1, <1>2, SerialInvariant, PTL DEF SerialSpec, ImplementsAtomicStore, Atomic!Spec
=============================================================================
