------------------------------ MODULE LocalState ------------------------------
(***************************************************************************)
(* The FSM store of the audit pipeline: local-state/state.yaml, its shared *)
(* temporary file state.yaml.tmp and the log history.jsonl, as written by  *)
(* apply_transition in harness/local_state.py.                             *)
(*                                                                         *)
(* Every command line tool is a process that calls apply_transition.  No   *)
(* lock is taken anywhere, so the steps of one call are separate actions:  *)
(* load (with the from_state check and the in-memory update), open of the  *)
(* temporary file, writes, rename, and the append to the log.  A process   *)
(* may be killed between any two of them.                                  *)
(***************************************************************************)
EXTENDS ItemRecords, FiniteSets

CONSTANTS
    Procs,       \* operating-system processes that call apply_transition
    Inodes,      \* file bodies that the two names may point to
    NoFile,      \* a directory entry that is absent
    MaxCrashes   \* bound on the processes killed in a behaviour

ASSUME NoFileAssumption == NoFile \notin Inodes
ASSUME MaxCrashesAssumption == MaxCrashes \in Nat

VARIABLES
    live,      \* the file body that state.yaml names
    tmp,       \* the file body that state.yaml.tmp names
    content,   \* what each file body holds
    history,   \* the lines of history.jsonl
    pc,        \* where in apply_transition each process is
    mem,       \* the state dictionary each process is about to save
    entry,     \* the log line each process is about to append
    fd,        \* the file body each process has open for writing
    calls,     \* number of calls made so far
    crashes    \* number of processes killed so far

vars == <<live, tmp, content, history, pc, mem, entry, fd, calls, crashes>>
files == <<live, tmp, content, history>>

-----------------------------------------------------------------------------
(* A file body is a dump of a store, complete or cut short.  A file of no  *)
(* bytes loads as a store without items, so it is the dump of EmptyStore.  *)
Body == [store : Store, cut : BOOLEAN]

Blank == [store |-> EmptyStore, cut |-> FALSE]

Keep(s, D) == [i \in Items |-> IF i \in D THEN s[i] ELSE FreshItem]

(* What two writers of the same body leave in it: of every item the text   *)
(* of the one or of the other.                                             *)
Mixes(s, u) == {[i \in Items |-> IF i \in D THEN s[i] ELSE u[i]] : D \in SUBSET Items}

(* What load_state may return; {} when the parse fails.                    *)
LoadResults(body) ==
    IF body.cut THEN {Keep(body.store, D) : D \in SUBSET Items}
                ELSE {body.store}

(* The body that a process that calls load_state finds.                    *)
LiveBody == IF live = NoFile THEN Blank ELSE content[live]

LiveStore == LiveBody.store

-----------------------------------------------------------------------------
Init ==
    /\ live = NoFile
    /\ tmp = NoFile
    /\ content = [n \in Inodes |-> Blank]
    /\ history = <<>>
    /\ pc = [p \in Procs |-> "idle"]
    /\ mem = [p \in Procs |-> EmptyStore]
    /\ entry = [p \in Procs |-> None]
    /\ fd = [p \in Procs |-> NoFile]
    /\ calls = 0
    /\ crashes = 0

(* The end of a call, however it ends: the process keeps nothing.          *)
Leave(p) ==
    /\ pc' = [pc EXCEPT ![p] = "idle"]
    /\ mem' = [mem EXCEPT ![p] = EmptyStore]
    /\ entry' = [entry EXCEPT ![p] = None]
    /\ fd' = [fd EXCEPT ![p] = NoFile]

(* Variant of Update: the record trusts the caller's from_state.           *)
UpdateTrustsCaller(p, s, i, from, to, x) ==
    LET t == [from |-> from, to |-> to, by |-> calls + 1]
    IN  /\ mem' = [mem EXCEPT ![p] = Advance(s, i, t, x)]
        /\ entry' = [entry EXCEPT ![p] = [item |-> i, trans |-> t]]

(* The update in memory: the item must be in from_state, if one is given.  *)
Update(p, s, i, from, to, x) ==
    LET t == [from |-> s[i].state, to |-> to, by |-> calls + 1]
    IN  /\ from # None => from = s[i].state
        /\ mem' = [mem EXCEPT ![p] = Advance(s, i, t, x)]
        /\ entry' = [entry EXCEPT ![p] = [item |-> i, trans |-> t]]

(* apply_transition up to save_state: the file is loaded, from_state is    *)
(* compared with the state found and the item is updated in memory.        *)
Load(p) ==
    /\ pc[p] = "idle"
    /\ calls < MaxCalls
    /\ calls' = calls + 1
    /\ \E s \in LoadResults(LiveBody), i \in Items, to \in States,
          from \in States \cup {None}, x \in SUBSET Extras :
          Update(p, s, i, from, to, x)
    /\ pc' = [pc EXCEPT ![p] = "loaded"]
    /\ UNCHANGED <<files, fd, crashes>>

(* The call raises before it writes: the item is not in from_state, or the *)
(* YAML parser rejects a file that was cut short.                          *)
Refuse(p) ==
    /\ pc[p] = "idle"
    /\ calls < MaxCalls
    /\ calls' = calls + 1
    /\ \/ LiveBody.cut
       \/ \E s \in LoadResults(LiveBody), i \in Items, from \in States :
             from # s[i].state
    /\ UNCHANGED <<files, pc, mem, entry, fd, crashes>>

(* Variant of OpenTmp: an existing state.yaml is opened itself.            *)
OpenInPlace(p) ==
    /\ pc[p] = "loaded"
    /\ \E n \in Inodes :
          /\ live # NoFile => n = live
          /\ tmp' = n
          /\ content' = [content EXCEPT ![n] = Blank]
          /\ fd' = [fd EXCEPT ![p] = n]
    /\ pc' = [pc EXCEPT ![p] = "opened"]
    /\ UNCHANGED <<live, history, mem, entry, calls, crashes>>

(* tmp.open("w"): the body that the name has is truncated in place, or the *)
(* name is given a new body.                                               *)
OpenTmp(p) ==
    /\ pc[p] = "loaded"
    /\ \E n \in Inodes :
          /\ IF tmp # NoFile THEN n = tmp
             ELSE n # live /\ \A q \in Procs : n # fd[q]
          /\ tmp' = n
          /\ content' = [content EXCEPT ![n] = Blank]
          /\ fd' = [fd EXCEPT ![p] = n]
    /\ pc' = [pc EXCEPT ![p] = "opened"]
    /\ UNCHANGED <<live, history, mem, entry, calls, crashes>>

(* The writer's buffer is flushed although the dump goes on.  The flush    *)
(* goes to the writer's own offset, beside what somebody else may have     *)
(* written to the same body since this process opened it.                  *)
DumpPart(p) ==
    /\ pc[p] = "opened"
    /\ \E s \in Mixes(mem[p], content[fd[p]].store) :
          /\ content[fd[p]] = Blank => s = mem[p]
          /\ content' = [content EXCEPT ![fd[p]] = [store |-> s, cut |-> TRUE]]
    /\ pc' = [pc EXCEPT ![p] = "dumping"]
    /\ UNCHANGED <<live, tmp, history, mem, entry, fd, calls, crashes>>

(* The last flush and the close.  When somebody else wrote to the same     *)
(* body since this process opened it, the result may be damaged: parts of  *)
(* both dumps, which need not parse, or parse without some of the items.   *)
Dump(p) ==
    LET expected == IF pc[p] = "opened" THEN Blank
                    ELSE [store |-> mem[p], cut |-> TRUE]
        intact == content[fd[p]] = expected
    IN  /\ pc[p] \in {"opened", "dumping"}
        /\ \E s \in Mixes(mem[p], content[fd[p]].store), c \in BOOLEAN :
              /\ intact => s = mem[p] /\ ~c
              /\ ~intact => c \/ (s = mem[p] /\ pc[p] = "opened")
              /\ content' = [content EXCEPT ![fd[p]] = [store |-> s, cut |-> c]]
        /\ pc' = [pc EXCEPT ![p] = "dumped"]
        /\ UNCHANGED <<live, tmp, history, mem, entry, fd, calls, crashes>>

(* Variant of Replace: the rename does not wait for the close.             *)
ReplaceBeforeClose(p) ==
    /\ pc[p] \in {"dumping", "dumped"}
    /\ tmp # NoFile
    /\ live' = tmp
    /\ tmp' = NoFile
    /\ pc' = [pc EXCEPT ![p] = "replaced"]
    /\ fd' = [fd EXCEPT ![p] = NoFile]
    /\ UNCHANGED <<content, history, mem, entry, calls, crashes>>

(* tmp.replace(STATE_PATH): whatever body the name has becomes state.yaml. *)
Replace(p) ==
    /\ pc[p] = "dumped"
    /\ tmp # NoFile
    /\ live' = tmp
    /\ tmp' = NoFile
    /\ pc' = [pc EXCEPT ![p] = "replaced"]
    /\ fd' = [fd EXCEPT ![p] = NoFile]
    /\ UNCHANGED <<content, history, mem, entry, calls, crashes>>

(* Variant of ReplaceFails: the rename is retried until the file is there. *)
ReplaceRetries(p) ==
    /\ pc[p] = "dumped"
    /\ tmp = NoFile
    /\ UNCHANGED vars

(* Another process renamed the file away: FileNotFoundError ends the call. *)
ReplaceFails(p) ==
    /\ pc[p] = "dumped"
    /\ tmp = NoFile
    /\ Leave(p)
    /\ UNCHANGED <<files, calls, crashes>>

(* Variants of AppendHistory: without the item, for a change of state      *)
(* only, and before the file is saved.                                     *)
AppendBare(p) ==
    /\ pc[p] = "replaced"
    /\ history' = Append(history, entry[p].trans)
    /\ Leave(p)
    /\ UNCHANGED <<live, tmp, content, calls, crashes>>

AppendChangesOnly(p) ==
    /\ pc[p] = "replaced"
    /\ history' = IF entry[p].trans.from = entry[p].trans.to
                  THEN history ELSE Append(history, entry[p])
    /\ Leave(p)
    /\ UNCHANGED <<live, tmp, content, calls, crashes>>

AppendEarly(p) ==
    /\ pc[p] \in {"dumped", "replaced"}
    /\ history' = Append(history, entry[p])
    /\ Leave(p)
    /\ UNCHANGED <<live, tmp, content, calls, crashes>>

(* append_history: the call's line goes to the end of history.jsonl.       *)
AppendHistory(p) ==
    /\ pc[p] = "replaced"
    /\ history' = Append(history, entry[p])
    /\ Leave(p)
    /\ UNCHANGED <<live, tmp, content, calls, crashes>>

(* The process is killed in the middle of a call.                          *)
Crash(p) ==
    /\ pc[p] # "idle"
    /\ crashes < MaxCrashes
    /\ crashes' = crashes + 1
    /\ Leave(p)
    /\ UNCHANGED <<files, calls>>

Resume(p) ==
    OpenTmp(p) \/ DumpPart(p) \/ Dump(p) \/ Replace(p) \/ ReplaceFails(p)
        \/ AppendHistory(p)

Next == \E p \in Procs : Load(p) \/ Refuse(p) \/ Resume(p) \/ Crash(p)

Spec == Init /\ [][Next]_vars

FairSpec == Spec /\ \A p \in Procs : WF_vars(Resume(p))

-----------------------------------------------------------------------------
(* Calls one after another: how an operator who runs one command at a time *)
(* uses the store.  A call starts only when no other is in progress; a     *)
(* killed one leaves its files behind for the next.                        *)

Alone(p) == \A q \in Procs \ {p} : pc[q] = "idle"

SerialNext ==
    \E p \in Procs : (Alone(p) /\ (Load(p) \/ Refuse(p))) \/ Resume(p) \/ Crash(p)

SerialSpec == Init /\ [][SerialNext]_vars

FairSerialSpec == SerialSpec /\ \A p \in Procs : WF_vars(Resume(p))
-----------------------------------------------------------------------------
TypeOK ==
    /\ live \in Inodes \cup {NoFile}
    /\ tmp \in Inodes \cup {NoFile}
    /\ content \in [Inodes -> Body]
    /\ history \in Seq(LogLine)
    /\ pc \in [Procs -> {"idle", "loaded", "opened", "dumping", "dumped", "replaced"}]
    /\ mem \in [Procs -> Store]
    /\ entry \in [Procs -> LogLine \cup {None}]
    /\ fd \in [Procs -> Inodes \cup {NoFile}]
    /\ calls \in 0..MaxCalls
    /\ crashes \in 0..MaxCrashes

(* A file that state.yaml names is always a complete dump, whatever was    *)
(* killed before: save_state writes elsewhere and renames.                 *)
Readable == ~LiveBody.cut

(* The transitions of every item in state.yaml form a chain that ends in   *)
(* its state: the read-modify-write of apply_transition never records a    *)
(* transition from a state that the item was not in.                       *)
StateIsChained == ChainedStore(LiveStore)

(* Once state.yaml holds a transition or an extra, no later call, failed   *)
(* call or kill takes it away: save_state replaces the file by one that    *)
(* contains it.                                                            *)
Durable == [][Grows(LiveStore, LiveStore')]_vars

(* Every line of history.jsonl is a transition that state.yaml holds, and  *)
(* the lines are in the order of the calls: append_history follows         *)
(* save_state.                                                             *)
LogFollowsState ==
    /\ \A k \in 1..Len(history) :
          history[k].trans \in ToSet(LiveStore[history[k].item].transitions)
    /\ \A j, k \in 1..Len(history) :
          j < k => history[j].trans.by < history[k].trans.by

(* Even calls that race and lose each other's updates leave every item     *)
(* with transitions of distinct calls in the order in which the calls      *)
(* loaded the file: a transition is only ever appended to what was loaded. *)
TransitionsInOrder ==
    \A i \in Items :
        LET ts == LiveStore[i].transitions
        IN  \A j, k \in 1..Len(ts) : j < k => ts[j].by < ts[k].by

(* No call waits for another: however the calls interleave, and whatever   *)
(* they do to the shared temporary file, each of them ends.                *)
CallsEnd == \A p \in Procs : (pc[p] # "idle") ~> (pc[p] = "idle")

(* A transition that passed the from_state check gets to the log, unless   *)
(* some call was killed.                                                   *)
CallsLand ==
    \A n \in 1..MaxCalls :
        (\E p \in Procs : pc[p] = "loaded" /\ entry[p].trans.by = n)
            ~> \/ \E k \in 1..Len(history) : history[k].trans.by = n
               \/ crashes > 0

(* The store implements the atomic one: the rename commits a transition    *)
(* and the append writes its log line.                                     *)
pendingBar ==
    IF \E p \in Procs : pc[p] = "replaced"
    THEN entry[CHOOSE p \in Procs : pc[p] = "replaced"]
    ELSE None

Atomic == INSTANCE AtomicStore
            WITH store <- LiveStore, pending <- pendingBar, log <- history

ImplementsAtomicStore == Atomic!Spec

(* The docstring of local_state.py calls state.yaml the current state:     *)
(* every transition that the log records is in it once no call is in       *)
(* progress.                                                               *)
StateIsCurrent ==
    (\A p \in Procs : pc[p] = "idle") =>
        {history[k].trans.by : k \in 1..Len(history)} \subseteq UsedIds(LiveStore)
=============================================================================
