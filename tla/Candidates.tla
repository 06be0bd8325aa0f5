------------------------------ MODULE Candidates ------------------------------
(***************************************************************************)
(* The life of an issue candidate (CAND): gatekeep.py apply records the    *)
(* gatekeeper's verdict with a fingerprint of the evidence, gatekeep.py    *)
(* drafter-gate compares the fingerprint with the audited repository, a    *)
(* proof run records its result, and publish.py files the GitHub issue.    *)
(*                                                                         *)
(* Each command is a process; what it reads, what it asks of GitHub and    *)
(* what it writes are separate steps, and it may be killed between them.   *)
(* A transition loads the whole store of all candidates and then saves it, *)
(* without a lock.  The steps within a save are those of module            *)
(* LocalState; here two saves at the same time have one of the outcomes    *)
(* that they have there.                                                   *)
(***************************************************************************)
EXTENDS Integers, FiniteSets, Sequences

CONSTANTS
    Cands,        \* issue candidates
    Finds,        \* findings; also stands for the evidence lines of each
    FindsOf,      \* the finding_ids of each candidate
    Elsewhere,    \* a claim about lines outside every finding
    Verdicts,     \* verdict files that the gatekeeper agent may write
    Null,         \* JSON null, and an absent value in the store
    Contents,     \* what the evidence lines may read like
    Missing,      \* the fingerprint of lines that are not there
    Commands,     \* processes that run a command
    MaxCommands,  \* bound on the commands of a behaviour
    MaxDrifts,    \* bound on the changes of the audited repository
    MaxOutages,   \* bound on the failures of gh
    MaxCrashes    \* bound on the commands killed

Claims == Finds \cup {Elsewhere}

ASSUME FindsOfAssumption == FindsOf \in [Cands -> SUBSET Finds]
ASSUME ClaimsAssumption == Elsewhere \notin Finds
ASSUME BoundsAssumption ==
    /\ MaxCommands \in Nat /\ MaxDrifts \in Nat
    /\ MaxOutages \in Nat /\ MaxCrashes \in Nat

(* A verdict file: sound says that the fields other than those listed here *)
(* satisfy validate_verdict_schema.                                        *)
Verdict ==
    [verdict    : {"approve", "uncertain", "reject_suspected", "wontfix"},
     confidence : {"low", "medium", "high", "other"},
     sound      : BOOLEAN,
     paths      : {Null} \cup SUBSET Claims]

ASSUME VerdictsAssumption == Verdicts \subseteq Verdict
ASSUME NullAssumption ==
    \A x \in Verdicts \cup SUBSET Claims : x # Null

CandStates == {"absent", "pending", "gatekeeper-approved", "needs-human-review",
               "proof-pre", "published"}

Fingerprint == UNION {[S -> Contents \cup {Missing}] : S \in SUBSET Claims}

(* What the store has of a candidate: its state and, in its extras, the    *)
(* verdict, the evidence_fingerprint and whether there is an issue number. *)
Item ==
    [state : CandStates, gatekeeper : {Null} \cup Verdicts,
     stored : {Null} \cup Fingerprint, number : BOOLEAN]

Store == [Cands -> Item]
Blank == [state |-> "absent", gatekeeper |-> Null, stored |-> Null, number |-> FALSE]
Nothing == [c \in Cands |-> Blank]

VARIABLES
    code,        \* the audited repository: what the claimed lines read like,
    onDisk,      \* the findings whose card is in findings/ready/
    store,       \* local-state/state.yaml
    issues,      \* the issues on GitHub, oldest first
    pc,          \* where each command is
    cand,        \* the candidate it works on
    held,        \* the verdict file it has read
    print,       \* the fingerprint it has computed
    loaded,      \* the findings it publishes
    force,       \* whether it was given --force
    answer,      \* what gh issue create has told it
    mem,         \* the store that it is about to save
    search,      \* what its search of the issues could see
    clashed,     \* the commands that save at the same time as others
    raced,       \* commands have saved at the same time
    gate,        \* the last answer of drafter-gate for each candidate
    commands, drifts, outages, crashes

locals == <<held, print, loaded, force, answer, mem, search>>
running == <<pc, cand, locals, clashed, raced>>
counters == <<commands, drifts, outages, crashes>>
vars == <<code, onDisk, store, issues, running, gate, counters>>

(* gh issue create prints the URL of the issue, which ends with its number *)
(* or not; or nothing that reaches the command.                            *)
Answers == {"number", "url", "lost"}

(* How many issues there were when a command searched them, and the        *)
(* findings whose query failed or did not show them yet.                   *)
Search == [seen : Nat, blind : SUBSET Finds]
NoSearch == [seen |-> 0, blind |-> {}]

Issue ==
    [cand : Cands, finds : SUBSET Finds, open : BOOLEAN, forced : BOOLEAN,
     answer : Answers, search : Search]

-----------------------------------------------------------------------------
(* validate_verdict_schema                                                 *)
SchemaOK(v) ==
    /\ v.sound
    /\ v.verdict \in {"approve", "uncertain", "reject_suspected"}
    /\ v.confidence \in {"low", "medium", "high"}
    /\ v.paths # Null /\ v.paths # {}

(* The whitelist names the findings of the candidate that are on disk.     *)
Whitelist(c) == FindsOf[c] \cap onDisk

(* validate_grounding                                                      *)
Grounded(v, c) == v.paths \subseteq Whitelist(c)

(* The decision of cmd_apply: every other verdict is left to a human.      *)
Approves(v, c) ==
    /\ SchemaOK(v) /\ Grounded(v, c)
    /\ v.verdict = "approve" /\ v.confidence = "high"

(* compute_evidence_fingerprint                                            *)
FingerprintOf(paths) == [p \in paths |-> code[p]]

-----------------------------------------------------------------------------
Init ==
    /\ code \in [Claims -> Contents]
    /\ onDisk = Finds
    /\ store \in [Cands -> {Blank, [Blank EXCEPT !.state = "pending"]}]
    /\ issues = <<>>
    /\ pc = [p \in Commands |-> "idle"]
    /\ cand \in [Commands -> Cands]
    /\ held = [p \in Commands |-> Null]
    /\ print = [p \in Commands |-> Null]
    /\ loaded = [p \in Commands |-> {}]
    /\ force = [p \in Commands |-> FALSE]
    /\ answer = [p \in Commands |-> "lost"]
    /\ mem = [p \in Commands |-> Nothing]
    /\ search = [p \in Commands |-> NoSearch]
    /\ clashed = {} /\ raced = FALSE
    /\ gate = [c \in Cands |-> "none"]
    /\ commands = 0 /\ drifts = 0 /\ outages = 0 /\ crashes = 0

Begin(p, c, label) ==
    /\ pc[p] = "idle"
    /\ commands < MaxCommands
    /\ commands' = commands + 1
    /\ pc' = [pc EXCEPT ![p] = label]
    /\ cand' = [cand EXCEPT ![p] = c]
    /\ UNCHANGED <<drifts, outages, crashes>>

Goto(p, label) == pc' = [pc EXCEPT ![p] = label] /\ UNCHANGED cand

(* The command exits, and nothing that it held is left.                    *)
Exit(p) ==
    /\ Goto(p, "idle")
    /\ held' = [held EXCEPT ![p] = Null]
    /\ print' = [print EXCEPT ![p] = Null]
    /\ loaded' = [loaded EXCEPT ![p] = {}]
    /\ force' = [force EXCEPT ![p] = FALSE]
    /\ answer' = [answer EXCEPT ![p] = "lost"]
    /\ mem' = [mem EXCEPT ![p] = Nothing]
    /\ search' = [search EXCEPT ![p] = NoSearch]
    /\ clashed' = clashed \ {p}
    /\ UNCHANGED raced

-----------------------------------------------------------------------------
(* apply_transition without from_state: the store is loaded, the item of   *)
(* the candidate is changed,                                               *)
Savers(p) == {q \in Commands \ {p} : pc[q] = "saving"}

Load(p, c, item) ==
    /\ mem' = [mem EXCEPT ![p] = [store EXCEPT ![c] = item]]
    /\ clashed' = IF Savers(p) = {} THEN clashed ELSE clashed \cup Savers(p) \cup {p}
    /\ raced' = (raced \/ Savers(p) # {})
    /\ UNCHANGED <<held, print, loaded, force, answer, search>>

(* and the store is saved.                                                 *)
Save(p) ==
    /\ pc[p] = "saving"
    /\ store' = mem[p]
    /\ Exit(p)
    /\ UNCHANGED <<code, onDisk, issues, gate, counters>>

(* Commands that save at the same time write one temporary file.  Of each  *)
(* candidate, the store then has what it had, what one of them saves, or   *)
(* nothing, whether or not the command finds the file to replace it with.  *)
Found(p, c) == {Blank, store[c], mem[p][c]} \cup {mem[q][c] : q \in Savers(p)}

Mixtures(p) ==
    {s \in [Cands -> UNION {Found(p, c) : c \in Cands}] : \A c \in Cands : s[c] \in Found(p, c)}

SaveClashes(p) ==
    /\ pc[p] = "saving" /\ p \in clashed
    /\ store' \in Mixtures(p)
    /\ Exit(p)
    /\ UNCHANGED <<code, onDisk, issues, gate, counters>>

(* A store that two commands write to cannot be loaded.                    *)
Loading(p) ==
    \/ pc[p] \in {"approving", "deferring"} /\ print[p] # Null
    \/ pc[p] \in {"demoting", "recording"}

LoadFails(p) ==
    /\ Loading(p) /\ clashed # {}
    /\ Exit(p)
    /\ UNCHANGED <<code, onDisk, store, issues, gate, counters>>

-----------------------------------------------------------------------------
(* gatekeep.py apply: the verdict file, the candidate and its findings are *)
(* read and a decision is made.  The decision is kept as held and print.   *)
ReadVerdict(p, c, v) ==
    /\ Begin(p, c, IF Approves(v, c) THEN "approving" ELSE "deferring")
    /\ held' = [held EXCEPT ![p] = v]
    /\ UNCHANGED <<code, onDisk, store, issues, print, loaded, force, answer, mem, search,
                   clashed, raced, gate>>

(* The fingerprint of the claimed lines is computed.                       *)
TakeFingerprint(p) ==
    /\ pc[p] \in {"approving", "deferring"}
    /\ print[p] = Null
    /\ held[p].paths # Null
    /\ print' = [print EXCEPT ![p] = FingerprintOf(held[p].paths)]
    /\ UNCHANGED <<code, onDisk, store, issues, pc, cand, held, loaded, force, answer, mem,
                   search, clashed, raced, gate, counters>>

(* evidence_paths is null: the loop over it raises TypeError.              *)
NothingToFingerprint(p) ==
    /\ pc[p] \in {"approving", "deferring"}
    /\ print[p] = Null
    /\ held[p].paths = Null
    /\ Exit(p)
    /\ UNCHANGED <<code, onDisk, store, issues, gate, counters>>

Judged(p, st) ==
    [store[cand[p]] EXCEPT !.state = st, !.gatekeeper = held[p], !.stored = print[p]]

(* Variant of ApplyVerdict: the verdict of a deferred candidate is merged  *)
(* but its state is left.                                                  *)
ApplyApprovalsOnly(p) ==
    /\ pc[p] \in {"approving", "deferring"}
    /\ print[p] # Null
    /\ Load(p, cand[p], Judged(p, IF pc[p] = "deferring" THEN store[cand[p]].state
                                  ELSE "gatekeeper-approved"))
    /\ Goto(p, "saving")
    /\ UNCHANGED <<code, onDisk, store, issues, gate, counters>>

(* Variant of ApplyVerdict: the state is the agent's own word.             *)
ApplyVerdictAsSaid(p) ==
    /\ pc[p] \in {"approving", "deferring"}
    /\ print[p] # Null
    /\ Load(p, cand[p], Judged(p, held[p].verdict))
    /\ Goto(p, "saving")
    /\ UNCHANGED <<code, onDisk, store, issues, gate, counters>>

(* A transition to the decision, from whatever state, with the verdict and *)
(* the fingerprint as extras.                                              *)
ApplyVerdict(p) ==
    /\ pc[p] \in {"approving", "deferring"}
    /\ print[p] # Null
    /\ Load(p, cand[p], Judged(p, IF pc[p] = "approving" THEN "gatekeeper-approved"
                                  ELSE "needs-human-review"))
    /\ Goto(p, "saving")
    /\ UNCHANGED <<code, onDisk, store, issues, gate, counters>>

-----------------------------------------------------------------------------
(* What drafter-gate finds wrong with a candidate.                         *)
Drifted(c) ==
    /\ store[c].stored # Null
    /\ \E q \in DOMAIN store[c].stored : store[c].stored[q] # code[q]

GateFails(c) ==
    \/ store[c].state # "gatekeeper-approved"
    \/ store[c].stored = Null \/ store[c].gatekeeper = Null
    \/ store[c].gatekeeper.paths = {}
    \/ Drifted(c)

(* gatekeep.py drafter-gate, with or without --apply.  G-0 fails without a *)
(* transition on a candidate that the store does not have.                 *)
DrafterGate(p, c, apply) ==
    /\ Begin(p, c, IF GateFails(c) /\ apply /\ store[c].state # "absent"
                   THEN "demoting" ELSE "idle")
    /\ gate' = [gate EXCEPT ![c] = IF GateFails(c) THEN "fail" ELSE "pass"]
    /\ UNCHANGED <<code, onDisk, store, issues, locals, clashed, raced>>

Demote(p) ==
    /\ pc[p] = "demoting"
    /\ Load(p, cand[p], [store[cand[p]] EXCEPT !.state = "needs-human-review"])
    /\ Goto(p, "saving")
    /\ UNCHANGED <<code, onDisk, store, issues, gate, counters>>

(* record_transition at the end of a pre-sol proof of a candidate.         *)
RecordProof(p, c) ==
    /\ Begin(p, c, "saving")
    /\ Load(p, c, [store[c] EXCEPT !.state = "proof-pre"])
    /\ UNCHANGED <<code, onDisk, store, issues, gate>>

-----------------------------------------------------------------------------
(* publish.py --apply.  The gates on the number of open PRs, on CODEOWNERS *)
(* and on the hits of dedup.py depend on GitHub and on acknowledgements of *)
(* the operator: they stop the command or let it go on.                    *)
StartPublish(p, c, f) ==
    /\ Begin(p, c, "checking")
    /\ Whitelist(c) # {}
    /\ loaded' = [loaded EXCEPT ![p] = Whitelist(c)]
    /\ force' = [force EXCEPT ![p] = f]
    /\ UNCHANGED <<code, onDisk, store, issues, held, print, answer, mem, search, clashed,
                   raced, gate>>

StopPublish(p) ==
    /\ pc[p] = "checking"
    /\ Exit(p)
    /\ UNCHANGED <<code, onDisk, store, issues, gate, counters>>

CheckState(p) ==
    /\ pc[p] = "checking"
    /\ store[cand[p]].state = "gatekeeper-approved" \/ force[p]
    /\ Goto(p, "searching")
    /\ UNCHANGED <<code, onDisk, store, issues, locals, clashed, raced, gate, counters>>

(* search_existing runs one query for each finding.  A query that fails    *)
(* counts as one without hits, and so does one that GitHub's index does    *)
(* not answer yet.                                                         *)
Hits(F) == {i \in 1..Len(issues) : issues[i].finds \cap F # {}}

Searched(p, failed) ==
    /\ Goto(p, "creating")
    /\ search' = [search EXCEPT ![p] = [seen |-> Len(issues), blind |-> failed]]
    /\ UNCHANGED <<held, print, loaded, force, answer, mem, clashed, raced>>

(* Variant of SearchIssues: closed issues are not searched.                *)
SearchOpenIssues(p) ==
    /\ pc[p] = "searching"
    /\ \E failed \in SUBSET loaded[p] :
          /\ failed # {} => outages < MaxOutages
          /\ outages' = IF failed = {} THEN outages ELSE outages + 1
          /\ IF (\E i \in Hits(loaded[p] \ failed) : issues[i].open) /\ ~force[p]
             THEN Exit(p) ELSE Searched(p, failed)
    /\ UNCHANGED <<code, onDisk, store, issues, gate, commands, drifts, crashes>>

SearchIssues(p) ==
    /\ pc[p] = "searching"
    /\ \E failed \in SUBSET loaded[p] :
          /\ failed # {} => outages < MaxOutages
          /\ outages' = IF failed = {} THEN outages ELSE outages + 1
          /\ IF Hits(loaded[p] \ failed) # {} /\ ~force[p]
             THEN Exit(p) ELSE Searched(p, failed)
    /\ UNCHANGED <<code, onDisk, store, issues, gate, commands, drifts, crashes>>

NewIssue(p, a) ==
    [cand |-> cand[p], finds |-> loaded[p], open |-> TRUE, forced |-> force[p],
     answer |-> a, search |-> search[p]]

(* gh issue create succeeds, and prints the URL of the issue, of which the *)
(* number is taken if it ends with one,                                    *)
CreateIssue(p, a) ==
    /\ pc[p] = "creating"
    /\ a = "url" => outages < MaxOutages
    /\ outages' = IF a = "url" THEN outages + 1 ELSE outages
    /\ issues' = Append(issues, NewIssue(p, a))
    /\ answer' = [answer EXCEPT ![p] = a]
    /\ Goto(p, "recording")
    /\ UNCHANGED <<code, onDisk, store, held, print, loaded, force, mem, search, clashed,
                   raced, gate, commands, drifts, crashes>>

(* Variant of CreateFails: nobody looks at the error.                      *)
CreateFailsUnseen(p) ==
    /\ pc[p] = "creating"
    /\ outages < MaxOutages
    /\ outages' = outages + 1
    /\ Goto(p, "recording")
    /\ UNCHANGED <<code, onDisk, store, issues, locals, clashed, raced, gate, commands,
                   drifts, crashes>>

(* or reports an error or prints nothing, with or without an issue on the  *)
(* server.                                                                 *)
CreateFails(p) ==
    /\ pc[p] = "creating"
    /\ outages < MaxOutages
    /\ outages' = outages + 1
    /\ issues' \in {issues, Append(issues, NewIssue(p, "lost"))}
    /\ Exit(p)
    /\ UNCHANGED <<code, onDisk, store, gate, commands, drifts, crashes>>

Published(p) ==
    [store[cand[p]] EXCEPT !.state = "published", !.number = (answer[p] = "number")]

(* Variant of RecordIssue: a candidate that has left gatekeeper-approved   *)
(* is not touched.                                                         *)
RecordFromApproved(p) ==
    /\ pc[p] = "recording"
    /\ IF store[cand[p]].state = "gatekeeper-approved"
       THEN Load(p, cand[p], Published(p)) /\ Goto(p, "saving")
       ELSE Exit(p)
    /\ UNCHANGED <<code, onDisk, store, issues, gate, counters>>

(* A transition to published, from whatever state.                         *)
RecordIssue(p) ==
    /\ pc[p] = "recording"
    /\ Load(p, cand[p], Published(p))
    /\ Goto(p, "saving")
    /\ UNCHANGED <<code, onDisk, store, issues, gate, counters>>

-----------------------------------------------------------------------------
(* The command is killed.                                                  *)
Crash(p) ==
    /\ pc[p] # "idle"
    /\ crashes < MaxCrashes
    /\ crashes' = crashes + 1
    /\ store' \in IF p \in clashed THEN Mixtures(p) ELSE {store}
    /\ Exit(p)
    /\ UNCHANGED <<code, onDisk, issues, gate, commands, drifts, outages>>

(* The audited repository is updated: lines change, appear or disappear.   *)
Drift(q) ==
    /\ drifts < MaxDrifts
    /\ drifts' = drifts + 1
    /\ \E x \in Contents \cup {Missing} : code' = [code EXCEPT ![q] = x]
    /\ UNCHANGED <<onDisk, store, issues, running, gate, commands, outages, crashes>>

(* A finding is retracted from findings/ready/.                            *)
Retract(f) ==
    /\ drifts < MaxDrifts
    /\ drifts' = drifts + 1
    /\ onDisk' = onDisk \ {f}
    /\ UNCHANGED <<code, store, issues, running, gate, commands, outages, crashes>>

(* The maintainers close an issue.                                         *)
CloseIssue(i) ==
    /\ issues[i].open
    /\ issues' = [issues EXCEPT ![i].open = FALSE]
    /\ UNCHANGED <<code, onDisk, store, running, gate, counters>>

Start(p) ==
    \E c \in Cands :
        \/ \E v \in Verdicts : ReadVerdict(p, c, v)
        \/ \E b \in BOOLEAN : DrafterGate(p, c, b) \/ StartPublish(p, c, b)
        \/ RecordProof(p, c)

Step(p) ==
    \/ TakeFingerprint(p) \/ NothingToFingerprint(p) \/ ApplyVerdict(p)
    \/ Demote(p) \/ StopPublish(p) \/ CheckState(p) \/ SearchIssues(p)
    \/ (\E a \in {"number", "url"} : CreateIssue(p, a))
    \/ CreateFails(p) \/ RecordIssue(p)
    \/ Save(p) \/ SaveClashes(p) \/ LoadFails(p)

World ==
    \/ \E q \in Claims : Drift(q)
    \/ \E f \in Finds : Retract(f)
    \/ \E i \in 1..Len(issues) : CloseIssue(i)

Next == World \/ \E p \in Commands : Start(p) \/ Step(p) \/ Crash(p)

Spec == Init /\ [][Next]_vars

FairSpec == Spec /\ \A p \in Commands : WF_vars(Step(p))

(* One command at a time.                                                  *)
Alone(p) == \A q \in Commands \ {p} : pc[q] = "idle"

SerialNext ==
    World \/ \E p \in Commands : (Alone(p) /\ Start(p)) \/ Step(p) \/ Crash(p)

SerialSpec == Init /\ [][SerialNext]_vars

-----------------------------------------------------------------------------
(* A command that applies a verdict holds one.                             *)
Applying(p) == pc[p] \in {"approving", "deferring"}

TypeOK ==
    /\ code \in [Claims -> Contents \cup {Missing}]
    /\ onDisk \subseteq Finds
    /\ store \in Store
    /\ issues \in Seq(Issue)
    /\ pc \in [Commands -> {"idle", "approving", "deferring", "demoting", "checking",
                            "searching", "creating", "recording", "saving"}]
    /\ cand \in [Commands -> Cands]
    /\ held \in [Commands -> {Null} \cup Verdicts]
    /\ \A p \in Commands : Applying(p) => held[p] \in Verdicts
    /\ print \in [Commands -> {Null} \cup Fingerprint]
    /\ loaded \in [Commands -> SUBSET Finds]
    /\ force \in [Commands -> BOOLEAN]
    /\ answer \in [Commands -> Answers]
    /\ mem \in [Commands -> Store]
    /\ search \in [Commands -> Search]
    /\ clashed \subseteq Commands /\ raced \in BOOLEAN
    /\ gate \in [Cands -> {"none", "pass", "fail"}]
    /\ commands \in 0..MaxCommands
    /\ drifts \in 0..MaxDrifts
    /\ outages \in 0..MaxOutages
    /\ crashes \in 0..MaxCrashes

(* A candidate is approved only with an approving verdict in its extras    *)
(* whose every claim is about its findings, and with a fingerprint of just *)
(* these claims, whatever is re-applied, demoted, proved or killed, and    *)
(* whatever commands that save at the same time make of the store.         *)
ApprovalIsGrounded ==
    \A c \in Cands :
        LET item == store[c]
        IN  item.state = "gatekeeper-approved" =>
                /\ item.gatekeeper # Null /\ item.stored # Null
                /\ item.gatekeeper.verdict = "approve" /\ item.gatekeeper.confidence = "high"
                /\ SchemaOK(item.gatekeeper)
                /\ item.gatekeeper.paths \subseteq FindsOf[c]
                /\ DOMAIN item.stored = item.gatekeeper.paths

(* Two issues never share a finding unless the later one was forced: the   *)
(* search finds what killed commands and other candidates have filed, even *)
(* when it was closed since.  A failed query may hide it.                  *)
OneIssuePerFind ==
    outages = 0 =>
        \A i, j \in 1..Len(issues) :
            i < j /\ ~issues[j].forced => issues[i].finds \cap issues[j].finds = {}

(* However many commands file issues at the same time, an issue that was   *)
(* not forced shares a finding only with issues that were filed after its  *)
(* search, and with those that the query for this finding did not show:    *)
(* no issue is overlooked because its command was killed, its answer was   *)
(* lost, its transition was lost in the store or it was closed.            *)
NoIssueOverlooked ==
    \A i, j \in 1..Len(issues) :
        i <= issues[j].search.seen /\ ~issues[j].forced =>
            issues[i].finds \cap (issues[j].finds \ issues[j].search.blind) = {}

(* A candidate that is published, and one that has an issue number, has an *)
(* issue on GitHub.                                                        *)
PublishedHasIssue ==
    \A c \in Cands : store[c].state = "published" \/ store[c].number =>
        \E i \in 1..Len(issues) : issues[i].cand = c

(* An issue whose number GitHub has told gets it into the store, unless a  *)
(* command was killed, commands saved at the same time, or another issue   *)
(* of the candidate came without one: demotions, verdicts and proofs       *)
(* between its creation and its record do not prevent it.                  *)
IssueIsRecorded ==
    \A c \in Cands :
        (\E i \in 1..Len(issues) : issues[i].cand = c /\ issues[i].answer = "number")
            ~> \/ store[c].number
               \/ crashes > 0 \/ raced
               \/ \E j \in 1..Len(issues) : issues[j].cand = c /\ issues[j].answer = "url"

(* OPERATIONS.md, Step 8: when the gate fails, a file has changed.  It     *)
(* speaks of candidates that were approved and, in Step 6.5, proved.       *)
GateFailsOnDriftOnly ==
    [][\A c \in Cands :
          /\ gate'[c] = "fail" /\ gate[c] # "fail"
          /\ store[c].state \in {"gatekeeper-approved", "proof-pre"}
          /\ store[c].gatekeeper # Null /\ Approves(store[c].gatekeeper, c)
          => Drifted(c)]_vars
=============================================================================
