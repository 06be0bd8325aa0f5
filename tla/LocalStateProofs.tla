--------------------------- MODULE LocalStateProofs ---------------------------
(***************************************************************************)
(* Theorems about the FSM store, for every set of processes, items, states *)
(* and extras and every number of calls and kills.                         *)
(***************************************************************************)
EXTENDS LocalState, SequenceTheorems, TLAPS

-----------------------------------------------------------------------------
(* Stores and their updates.                                               *)

(* A store in which nothing is recorded is a store.                        *)
LEMMA EmptyStoreType == EmptyStore \in Store
<1>1. FreshItem \in Item
  BY EmptySeq DEF FreshItem, Item
<1>2. QED
  BY <1>1 DEF EmptyStore, Store

(* Dropping items from a store leaves a store.                             *)
LEMMA KeepType ==
  ASSUME NEW s \in Store, NEW D
  PROVE  Keep(s, D) \in Store
<1>1. FreshItem \in Item
  BY EmptySeq DEF FreshItem, Item
<1>2. QED
  BY <1>1 DEF Keep, Store

(* What two writers leave of their stores in one body is a store.          *)
LEMMA MixesType ==
  ASSUME NEW s \in Store, NEW u \in Store, NEW m \in Mixes(s, u)
  PROVE  m \in Store
BY DEF Mixes, Store

(* What load_state returns is a store.                                     *)
LEMMA LoadResultsType ==
  ASSUME NEW body \in Body, NEW s \in LoadResults(body)
  PROVE  s \in Store
BY KeepType DEF LoadResults, Body

(* The update that apply_transition makes turns a store into a store.      *)
LEMMA AdvanceType ==
  ASSUME NEW s \in Store, NEW i \in Items, NEW t \in Transition,
         NEW x \in SUBSET Extras
  PROVE  Advance(s, i, t, x) \in Store
<1>1. s[i].transitions \in Seq(Transition) /\ s[i].extras \in SUBSET Extras
  BY DEF Store, Item
<1>2. Append(s[i].transitions, t) \in Seq(Transition)
  BY <1>1
<1>3. t.to \in States
  BY DEF Transition
<1>4. [state |-> t.to, transitions |-> Append(s[i].transitions, t),
       extras |-> s[i].extras \cup x] \in Item
  BY <1>1, <1>2, <1>3 DEF Item
<1>5. QED
  BY <1>4 DEF Advance, Store

-----------------------------------------------------------------------------
(* A process in a call has the log line of that call.                      *)
BusyHasEntry == \A p \in Procs : pc[p] # "idle" => entry[p] \in LogLine

TypeInv == TypeOK /\ BusyHasEntry

(* The initial state is well typed.                                        *)
LEMMA TypeInit == Init => TypeInv
<1> SUFFICES ASSUME Init PROVE TypeInv
  OBVIOUS
<1>1. Blank \in Body
  BY EmptyStoreType DEF Blank, Body
<1>2. calls \in 0..MaxCalls /\ crashes \in 0..MaxCrashes
  BY MaxCallsAssumption, MaxCrashesAssumption DEF Init
<1>3. history \in Seq(LogLine)
  BY EmptySeq DEF Init
<1>4. QED
  BY <1>1, <1>2, <1>3, EmptyStoreType DEF Init, TypeOK, TypeInv, BusyHasEntry

(* Types are kept by every step, also of calls that race or are killed.    *)
LEMMA TypeStep == TypeInv /\ [Next]_vars => TypeInv'
<1> SUFFICES ASSUME TypeInv, [Next]_vars PROVE TypeInv'
  OBVIOUS
<1> USE MaxCallsAssumption, MaxCrashesAssumption DEF TypeInv
<1>b. Blank \in Body /\ LiveBody \in Body
  BY EmptyStoreType DEF Blank, Body, LiveBody, TypeOK
<1>1. ASSUME NEW p \in Procs, Load(p) PROVE TypeInv'
  <2>load. PICK s \in LoadResults(LiveBody), i \in Items, to \in States,
                from \in States \cup {None}, x \in SUBSET Extras :
              Update(p, s, i, from, to, x)
    BY <1>1 DEF Load
  <2>1. /\ mem' = [mem EXCEPT ![p] =
              Advance(s, i, [from |-> s[i].state, to |-> to, by |-> calls + 1], x)]
        /\ entry' = [entry EXCEPT ![p] = [item |-> i,
              trans |-> [from |-> s[i].state, to |-> to, by |-> calls + 1]]]
    BY <2>load DEF Update
  <2> DEFINE t == [from |-> s[i].state, to |-> to, by |-> calls + 1]
  <2>2. s \in Store
    BY <1>b, LoadResultsType
  <2>3. calls' \in 0..MaxCalls /\ calls + 1 \in 1..MaxCalls
    BY <1>1 DEF Load, TypeOK
  <2>4. t \in Transition
    BY <2>2, <2>3 DEF Store, Item, Transition
  <2>5. Advance(s, i, t, x) \in Store /\ [item |-> i, trans |-> t] \in LogLine
    BY <2>2, <2>4, AdvanceType DEF LogLine
  <2>6. mem' \in [Procs -> Store] /\ entry' \in [Procs -> LogLine \cup {None}]
    BY <2>1, <2>5 DEF TypeOK
  <2>7. QED
    BY <1>1, <2>1, <2>3, <2>5, <2>6 DEF Load, TypeOK, BusyHasEntry, files
<1>2. ASSUME NEW p \in Procs, Refuse(p) PROVE TypeInv'
  BY <1>2 DEF Refuse, TypeOK, BusyHasEntry, files
<1>3. ASSUME NEW p \in Procs, OpenTmp(p) PROVE TypeInv'
  BY <1>3, <1>b DEF OpenTmp, TypeOK, BusyHasEntry
<1>4. ASSUME NEW p \in Procs, DumpPart(p) PROVE TypeInv'
  <2>1. PICK m \in Mixes(mem[p], content[fd[p]].store) :
           content' = [content EXCEPT ![fd[p]] = [store |-> m, cut |-> TRUE]]
    BY <1>4 DEF DumpPart
  <2>2. fd[p] \in Inodes => [store |-> m, cut |-> TRUE] \in Body
    BY MixesType DEF TypeOK, Body
  <2>3. content' \in [Inodes -> Body]
    BY <2>1, <2>2 DEF TypeOK
  <2>4. QED
    BY <1>4, <2>3 DEF DumpPart, TypeOK, BusyHasEntry
<1>5. ASSUME NEW p \in Procs, Dump(p) PROVE TypeInv'
  <2>1. PICK m \in Mixes(mem[p], content[fd[p]].store), c \in BOOLEAN :
           content' = [content EXCEPT ![fd[p]] = [store |-> m, cut |-> c]]
    BY <1>5 DEF Dump
  <2>2. fd[p] \in Inodes => [store |-> m, cut |-> c] \in Body
    BY MixesType DEF TypeOK, Body
  <2>3. content' \in [Inodes -> Body]
    BY <2>1, <2>2 DEF TypeOK
  <2>4. QED
    BY <1>5, <2>3 DEF Dump, TypeOK, BusyHasEntry
<1>6. ASSUME NEW p \in Procs, Replace(p) PROVE TypeInv'
  BY <1>6 DEF Replace, TypeOK, BusyHasEntry
<1>7. ASSUME NEW p \in Procs, Leave(p), UNCHANGED <<live, tmp, content>>,
             history' \in Seq(LogLine), calls' = calls,
             crashes' \in 0..MaxCrashes
      PROVE  TypeInv'
  BY <1>7, EmptyStoreType DEF Leave, TypeOK, BusyHasEntry
<1>8. ASSUME NEW p \in Procs, ReplaceFails(p) PROVE TypeInv'
  BY <1>7, <1>8 DEF ReplaceFails, files, TypeOK
<1>9. ASSUME NEW p \in Procs, AppendHistory(p) PROVE TypeInv'
  <2>1. history' \in Seq(LogLine)
    BY <1>9 DEF AppendHistory, TypeOK, BusyHasEntry
  <2>2. QED
    BY <1>7, <1>9, <2>1 DEF AppendHistory, TypeOK
<1>10. ASSUME NEW p \in Procs, Crash(p) PROVE TypeInv'
  BY <1>7, <1>10 DEF Crash, files, TypeOK
<1>11. CASE UNCHANGED vars
  BY <1>11 DEF vars, TypeOK, BusyHasEntry
<1>12. QED
  BY <1>1, <1>2, <1>3, <1>4, <1>5, <1>6, <1>8, <1>9, <1>10, <1>11
     DEF Next, Resume

(* The two together.                                                       *)
LEMMA TypeInvariant == Spec => []TypeInv
BY TypeInit, TypeStep, PTL DEF Spec

(* Every variable keeps its type, however the calls of the processes       *)
(* interleave and whichever of them are killed.                            *)
THEOREM TypeCorrect == Spec => []TypeOK
<1>1. TypeInv => TypeOK
  BY DEF TypeInv
<1>2. QED
  BY <1>1, TypeInvariant, PTL

-----------------------------------------------------------------------------
(* The order of the transitions of an item, in every store that a process  *)
(* may load or save: strictly by call, and none of a call to come.         *)
Ordered(s, c) ==
    \A i \in Items :
        /\ \A k \in 1..Len(s[i].transitions) : s[i].transitions[k].by <= c
        /\ \A j, k \in 1..Len(s[i].transitions) :
              j < k => s[i].transitions[j].by < s[i].transitions[k].by

OrderInv ==
    /\ \A n \in Inodes : Ordered(content[n].store, calls)
    /\ \A p \in Procs : Ordered(mem[p], calls)

(* An empty store, and a store without some of its items, are in order.    *)
LEMMA OrderedKeep ==
  ASSUME NEW c, NEW s, Ordered(s, c), NEW D
  PROVE  Ordered(EmptyStore, c) /\ Ordered(Keep(s, D), c)
<1>1. 1..Len(<<>>) = {}
  OBVIOUS
<1>2. QED
  BY <1>1 DEF Ordered, EmptyStore, Keep, FreshItem

(* Two stores in order mix to a store in order.                            *)
LEMMA OrderedMix ==
  ASSUME NEW c, NEW s, NEW u, Ordered(s, c), Ordered(u, c), NEW m \in Mixes(s, u)
  PROVE  Ordered(m, c)
<1>1. PICK D \in SUBSET Items : m = [i \in Items |-> IF i \in D THEN s[i] ELSE u[i]]
  BY DEF Mixes
<1>2. \A i \in Items : m[i] = s[i] \/ m[i] = u[i]
  BY <1>1
<1>3. QED
  BY <1>2 DEF Ordered

(* Bounds on call numbers may be relaxed.                                  *)
LEMMA OrderedLater ==
  ASSUME NEW c \in Nat, NEW s \in Store, Ordered(s, c)
  PROVE  Ordered(s, c + 1)
<1>t. \A t \in Transition : t.by \in Nat
  BY MaxCallsAssumption DEF Transition
<1>1. ASSUME NEW i \in Items, NEW k \in 1..Len(s[i].transitions)
      PROVE  s[i].transitions[k].by <= c + 1
  <2>1. s[i].transitions \in Seq(Transition)
    BY DEF Store, Item
  <2>2. s[i].transitions[k] \in Transition
    BY <2>1
  <2>3. s[i].transitions[k].by <= c
    BY DEF Ordered
  <2>4. QED
    BY <1>t, <2>2, <2>3
<1>2. QED
  BY <1>1 DEF Ordered

(* A new call's transition goes behind those of earlier calls.             *)
LEMMA OrderedAdvance ==
  ASSUME NEW c \in Nat, NEW s \in Store, Ordered(s, c), NEW i \in Items,
         NEW t \in Transition, t.by = c + 1, NEW x \in SUBSET Extras
  PROVE  Ordered(Advance(s, i, t, x), c + 1)
<1> DEFINE u == Advance(s, i, t, x)
           ts == s[i].transitions
           us == u[i].transitions
<1>1. Ordered(s, c + 1)
  BY OrderedLater
<1>2. \A j \in Items \ {i} : u[j] = s[j]
  BY DEF Advance, Store
<1>3. us = Append(ts, t) /\ ts \in Seq(Transition)
  BY DEF Advance, Store, Item
<1>4. /\ Len(ts) \in Nat /\ Len(us) = Len(ts) + 1
      /\ \A k \in 1..Len(ts) : us[k] = ts[k] /\ ts[k] \in Transition
      /\ us[Len(ts) + 1] = t
  BY <1>3
<1>5. \A k \in 1..Len(ts) : ts[k].by <= c /\ ts[k].by \in Nat
  BY <1>4, MaxCallsAssumption DEF Ordered, Transition
<1>6. \A k \in 1..Len(us) : us[k].by <= c + 1
  <2> SUFFICES ASSUME NEW k \in 1..Len(us) PROVE us[k].by <= c + 1
    OBVIOUS
  <2> HIDE DEF us, ts
  <2>1. CASE k \in 1..Len(ts)
    BY <1>4, <1>5, <2>1
  <2>2. CASE k = Len(ts) + 1
    BY <1>4, <2>2
  <2>3. QED
    BY <1>4, <2>1, <2>2
<1>7. \A j, k \in 1..Len(us) : j < k => us[j].by < us[k].by
  <2> SUFFICES ASSUME NEW j \in 1..Len(us), NEW k \in 1..Len(us), j < k
               PROVE  us[j].by < us[k].by
    OBVIOUS
  <2>o. \A m, n \in 1..Len(ts) : m < n => ts[m].by < ts[n].by
    BY DEF Ordered
  <2> HIDE DEF us, ts
  <2>1. j \in 1..Len(ts)
    BY <1>4
  <2>2. CASE k \in 1..Len(ts)
    BY <1>4, <2>o, <2>1, <2>2
  <2>3. CASE k = Len(ts) + 1
    BY <1>4, <1>5, <2>1, <2>3
  <2>4. QED
    BY <1>4, <2>2, <2>3
<1>8. QED
  BY <1>1, <1>2, <1>6, <1>7 DEF Ordered

(* Every step keeps the order in every body and every process.             *)
LEMMA OrderStep == TypeInv /\ OrderInv /\ [Next]_vars => OrderInv'
<1> SUFFICES ASSUME TypeInv, OrderInv, [Next]_vars PROVE OrderInv'
  OBVIOUS
<1>t. TypeOK
  BY DEF TypeInv
<1>c. calls \in Nat
  BY <1>t, MaxCallsAssumption DEF TypeOK
<1>e. \A c : Ordered(EmptyStore, c)
  <2>1. 1..Len(<<>>) = {}
    OBVIOUS
  <2>2. QED
    BY <2>1 DEF Ordered, EmptyStore, FreshItem
<1>s. /\ \A n \in Inodes : content[n].store \in Store
      /\ \A p \in Procs : mem[p] \in Store
  BY <1>t DEF TypeOK, Body
<1>l. /\ LiveBody \in Body /\ Ordered(LiveBody.store, calls)
  BY <1>t, <1>e, EmptyStoreType
     DEF OrderInv, LiveBody, TypeOK, Blank, Body
<1>1. ASSUME NEW p \in Procs, Load(p) PROVE OrderInv'
  <2>load. PICK s \in LoadResults(LiveBody), i \in Items, to \in States,
                from \in States \cup {None}, x \in SUBSET Extras :
              Update(p, s, i, from, to, x)
    BY <1>1 DEF Load
  <2>1. /\ mem' = [mem EXCEPT ![p] =
              Advance(s, i, [from |-> s[i].state, to |-> to, by |-> calls + 1], x)]
        /\ entry' = [entry EXCEPT ![p] = [item |-> i,
              trans |-> [from |-> s[i].state, to |-> to, by |-> calls + 1]]]
    BY <2>load DEF Update
  <2> DEFINE t == [from |-> s[i].state, to |-> to, by |-> calls + 1]
  <2>2. s \in Store /\ Ordered(s, calls)
    <3>1. s \in Store
      BY <1>l, LoadResultsType
    <3>2. Ordered(s, calls)
      BY <1>l, OrderedKeep DEF LoadResults
    <3>3. QED
      BY <3>1, <3>2
  <2>3. calls' = calls + 1 /\ content' = content /\ calls + 1 \in 1..MaxCalls
    BY <1>1, <1>c, MaxCallsAssumption DEF Load, files
  <2>4. t \in Transition
    BY <2>2, <2>3 DEF Store, Item, Transition
  <2>5. Ordered(Advance(s, i, t, x), calls')
    BY <1>c, <2>2, <2>3, <2>4, OrderedAdvance
  <2>6. \A q \in Procs : Ordered(mem'[q], calls')
    BY <1>c, <1>s, <1>t, <2>1, <2>3, <2>5, OrderedLater DEF OrderInv, TypeOK
  <2>7. \A n \in Inodes : Ordered(content'[n].store, calls')
    BY <1>c, <1>s, <2>3, OrderedLater DEF OrderInv
  <2>8. QED
    BY <2>6, <2>7 DEF OrderInv
<1>2. ASSUME NEW p \in Procs, Refuse(p) PROVE OrderInv'
  BY <1>2, <1>c, <1>s, OrderedLater DEF Refuse, OrderInv, files
<1>3. ASSUME NEW p \in Procs, OpenTmp(p) \/ DumpPart(p) \/ Dump(p)
      PROVE  OrderInv'
  <2>1. PICK n, b : /\ content' = [content EXCEPT ![n] = b]
                    /\ n \in Inodes => Ordered(b.store, calls)
    <3>1. CASE OpenTmp(p)
      <4>1. PICK n \in Inodes : content' = [content EXCEPT ![n] = Blank]
        BY <3>1 DEF OpenTmp
      <4>2. Blank.store = EmptyStore
        BY DEF Blank
      <4>3. QED
        BY <1>e, <4>1, <4>2
    <3>2. CASE DumpPart(p) \/ Dump(p)
      <4>1. PICK m \in Mixes(mem[p], content[fd[p]].store), c \in BOOLEAN :
               content' = [content EXCEPT ![fd[p]] = [store |-> m, cut |-> c]]
        BY <3>2 DEF DumpPart, Dump
      <4>2. fd[p] \in Inodes => Ordered(m, calls)
        BY OrderedMix DEF OrderInv
      <4>3. [store |-> m, cut |-> c].store = m
        OBVIOUS
      <4>4. QED
        BY <4>1, <4>2, <4>3
    <3>3. QED
      BY <1>3, <3>1, <3>2
  <2>2. mem' = mem /\ calls' = calls
    BY <1>3 DEF OpenTmp, DumpPart, Dump
  <2>3. QED
    BY <1>e, <1>t, <2>1, <2>2 DEF OrderInv, TypeOK
<1>4. ASSUME NEW p \in Procs, Replace(p) PROVE OrderInv'
  BY <1>4 DEF Replace, OrderInv
<1>5. ASSUME NEW p \in Procs, ReplaceFails(p) \/ AppendHistory(p) \/ Crash(p)
      PROVE  OrderInv'
  BY <1>5, <1>e, <1>t
     DEF ReplaceFails, AppendHistory, Crash, Leave, OrderInv, TypeOK, files
<1>6. CASE UNCHANGED vars
  BY <1>6 DEF vars, OrderInv
<1>7. QED
  BY <1>1, <1>2, <1>3, <1>4, <1>5, <1>6 DEF Next, Resume

(* However calls race, are killed or tear the file, no item in state.yaml  *)
(* ever shows the transitions of calls twice or out of order.              *)
THEOREM OrderIsKept == Spec => []TransitionsInOrder
<1>1. Init => OrderInv
  <2>1. \A c : Ordered(EmptyStore, c)
    <3>1. 1..Len(<<>>) = {}
      OBVIOUS
    <3>2. QED
      BY <3>1 DEF Ordered, EmptyStore, FreshItem
  <2>2. QED
    BY <2>1 DEF Init, OrderInv, Blank
<1>2. TypeInv /\ OrderInv => TransitionsInOrder
  <2> SUFFICES ASSUME TypeInv, OrderInv PROVE TransitionsInOrder
    OBVIOUS
  <2>1. CASE live = NoFile
    BY <2>1 DEF TransitionsInOrder, LiveStore, LiveBody, Blank, EmptyStore, FreshItem
  <2>2. CASE live # NoFile
    BY <2>2 DEF TransitionsInOrder, LiveStore, LiveBody, OrderInv, Ordered, TypeInv, TypeOK
  <2>3. QED
    BY <2>1, <2>2
<1>3. Spec => []OrderInv
  BY <1>1, OrderStep, TypeInvariant, PTL DEF Spec
<1>4. QED
  BY <1>2, <1>3, TypeInvariant, PTL
=============================================================================
