------------------------------- MODULE ProofRuns -------------------------------
(***************************************************************************)
(* real-behavior-proof/harness: runs of run.py, each of which builds the   *)
(* audited program in worktrees of its own, runs a scenario on each build  *)
(* in an isolated home, and persists the result in a record, on the card   *)
(* of the target and in the FSM store.  Runs at the same time share the    *)
(* ports, the cards, the names of records and the store.  What happens     *)
(* inside a scenario is the subject of module Scenarios; here it starts    *)
(* its gateways, one per trial, and ends somehow.                          *)
(***************************************************************************)
EXTENDS Integers, FiniteSets

CONSTANTS
    Runs,       \* invocations of run.py
    Ports,      \* PORT_RANGE of env_isolate.py
    Targets,    \* CAND and SOL identifiers
    Solutions,  \* the targets that are solutions
    Malformed,  \* the targets whose card has no frontmatter that parses
    Absent,     \* the targets without a card
    Jobs,       \* the command lines that the runs may get
    Outcomes,   \* the statuses that the scenarios return
    MaxClock,   \* bound on the clock, which counts seconds
    MaxFaults,  \* bound on the failures of a behaviour that the runs do not
                \* cause: of builds and removals, and gateways left behind
    MaxKills,   \* bound on the kills of a behaviour
    None        \* no port, no run, no proof

Phases == {"pre", "post"}
Builds == {"base", "head"}
Blocked == {"blocked-env", "blocked-external-dep"}
Statuses == Blocked \cup {"collected", "unreproducible"}

(* The last transition of a target: the short status, the phase, the run.  *)
Transition == {"blocked", "collected", "unreproducible"} \X Phases \X Runs

(* Target, phase, --keep-worktrees, and how many trials the scenario makes *)
(* with a gateway of their own: it starts none if there are 0.             *)
Line == [target : Targets, phase : Phases, keep : BOOLEAN, trials : Nat]

ASSUME JobsAssumption == Jobs \subseteq [Runs -> Line]
ASSUME OutcomesAssumption == Outcomes \subseteq Statuses /\ "blocked-env" \in Outcomes
ASSUME ClockAssumption == MaxClock \in Nat
ASSUME FaultsAssumption == MaxFaults \in Nat
ASSUME KillsAssumption == MaxKills \in Nat
ASSUME NoneAssumption ==
    /\ None \notin Runs \cup Ports \cup Transition
    /\ None \notin Statuses \X (0..MaxClock) \X Runs

VARIABLES
    pc,         \* where a run is
    job,        \* its command line
    build,      \* the build whose turn it is
    port,       \* the port that isolated_home gave it
    trial,      \* the trial of its scenario
    ready,      \* the builds in a trial of which its own gateway was ready
    stolen,     \* the trials that found the port taken
    result,     \* the status of its proof
    entry,      \* what it has recorded
    text,       \* the card as it has read it
    mem,        \* the store that it is about to save
    worktrees,  \* the worktrees on disk
    homes,      \* the isolated homes on disk
    listening,  \* the run whose gateway listens on a port
    clock,
    proofs,     \* the record files: what the last run to write one wrote
    cards,      \* pre_sol_proof and post_sol_proof of each card
    states,     \* the last transition of a target
    faults,     \* what went wrong in a run
    disturbed,  \* the targets that two runs persisted at the same time, or
                \* that a run was persisting when it ended early
    raced       \* the targets of runs that were in the store at the same time

trials == <<trial, ready, stolen>>
progress == <<pc, job, build, port, trials, result, entry, text, mem, faults>>
disk == <<worktrees, homes, listening>>
ledger == <<proofs, cards, states>>
marks == <<disturbed, raced>>
vars == <<progress, disk, ledger, clock, marks>>

(* What one run has to say of a target: its status, the second of its      *)
(* record's name, and which run it is.                                     *)
Entry == Statuses \X (0..MaxClock) \X Runs
Card == [Phases -> Entry \cup {None}]
BlankCard == [ph \in Phases |-> None]
Name == Targets \X Phases \X (0..MaxClock)

(* local-state/state.yaml: the last transition of each target.             *)
Store == [Targets -> Transition \cup {None}]
Nothing == [t \in Targets |-> None]

Labels ==
    {"start", "home", "worktree", "build", "scenario", "measure", "judge",
     "cleanup", "close", "record", "read", "write", "transition", "save",
     "ended", "died", "killed"}
Over(r) == pc[r] \in {"ended", "died", "killed"}
Persisting(r) == pc[r] \in {"read", "write", "transition", "save"}

Init ==
    /\ pc = [r \in Runs |-> "start"]
    /\ job \in Jobs
    /\ build = [r \in Runs |-> "base"]
    /\ port = [r \in Runs |-> None]
    /\ trial = [r \in Runs |-> 1]
    /\ ready = [r \in Runs |-> {}]
    /\ stolen = [r \in Runs |-> {}]
    /\ result = [r \in Runs |-> "pending"]
    /\ entry = [r \in Runs |-> None]
    /\ text = [r \in Runs |-> BlankCard]
    /\ mem = [r \in Runs |-> Nothing]
    /\ worktrees = {} /\ homes = {}
    /\ listening = [p \in Ports |-> None]
    /\ clock = 0
    /\ proofs = [n \in Name |-> None]
    /\ cards = [t \in Targets |-> BlankCard]
    /\ states = Nothing
    /\ faults = [r \in Runs |-> {}]
    /\ disturbed = {}
    /\ raced = {}

Pre(r) == job[r].phase = "pre"
Goto(r, label) == pc' = [pc EXCEPT ![r] = label]
Fault(r, kind) == faults' = [faults EXCEPT ![r] = @ \cup {kind}]
Failures == UNION {{q} \X (faults[q] \ {"port"}) : q \in Runs}
Fails(r, kind) == Cardinality(Failures) < MaxFaults /\ Fault(r, kind)

-----------------------------------------------------------------------------
(* A pre-sol run builds inside its isolated home; a post-sol run builds    *)
(* both builds first, and has one home after the other.                    *)
Start(r) ==
    /\ pc[r] = "start"
    /\ Goto(r, IF Pre(r) THEN "home" ELSE "worktree")
    /\ UNCHANGED <<job, build, port, trials, result, entry, text, mem, faults, disk, ledger, clock,
                   marks>>

(* An unknown mode or scenario, no --head-sha, or a dry run, which prints  *)
(* a summary and persists nothing.                                         *)
Refuse(r) ==
    /\ pc[r] = "start"
    /\ Goto(r, "died")
    /\ UNCHANGED <<job, build, port, trials, result, entry, text, mem, faults, disk, ledger, clock,
                   marks>>

CreateWorktree(r) ==
    /\ pc[r] = "worktree"
    /\ worktrees' = worktrees \cup {<<r, build[r]>>}
    /\ Goto(r, "build")
    /\ UNCHANGED <<job, build, port, trials, result, entry, text, mem, faults, homes, listening,
                   ledger, clock, marks>>

(* pnpm install and pnpm build.                                            *)
BuildOne(r) ==
    /\ pc[r] = "build"
    /\ IF Pre(r) THEN Goto(r, "scenario") /\ UNCHANGED build
       ELSE IF build[r] = "base"
       THEN Goto(r, "worktree") /\ build' = [build EXCEPT ![r] = "head"]
       ELSE Goto(r, "home") /\ build' = [build EXCEPT ![r] = "base"]
    /\ UNCHANGED <<job, port, trials, result, entry, text, mem, faults, disk, ledger, clock, marks>>

(* Variant of BuildFails: a pre-sol run skips the end of its home.         *)
BuildFailsEarly(r) ==
    /\ pc[r] \in {"worktree", "build"}
    /\ result' = [result EXCEPT ![r] = "blocked-env"]
    /\ Fails(r, "build")
    /\ Goto(r, "record")
    /\ UNCHANGED <<job, build, port, trials, entry, text, mem, disk, ledger, clock, marks>>

(* One of the commands fails or times out.  Nobody has a BuildResult yet,  *)
(* so nobody removes what was made.                                        *)
BuildFails(r) ==
    /\ pc[r] \in {"worktree", "build"}
    /\ result' = [result EXCEPT ![r] = "blocked-env"]
    /\ Fails(r, "build")
    /\ Goto(r, IF Pre(r) THEN "close" ELSE "record")
    /\ UNCHANGED <<job, build, port, trials, entry, text, mem, disk, ledger, clock, marks>>

(* isolated_home: the directory, and a port that can be bound now.         *)
OpenHome(r) ==
    /\ pc[r] = "home"
    /\ homes' = homes \cup {<<r, build[r]>>}
    /\ \E p \in Ports :
          /\ listening[p] = None
          /\ port' = [port EXCEPT ![r] = p]
    /\ Goto(r, IF Pre(r) THEN "worktree" ELSE "scenario")
    /\ UNCHANGED <<job, build, trials, result, entry, text, mem, faults, worktrees, listening, ledger,
                   clock, marks>>

(* There is none: it raises before its try, with the directory made.  A    *)
(* pre-sol run does not catch it.                                          *)
NoFreePort(r) ==
    /\ pc[r] = "home"
    /\ \A p \in Ports : listening[p] # None
    /\ homes' = homes \cup {<<r, build[r]>>}
    /\ Fault(r, "port")
    /\ IF Pre(r) THEN Goto(r, "died") /\ UNCHANGED result
       ELSE Goto(r, "cleanup") /\ result' = [result EXCEPT ![r] = "blocked-env"]
    /\ UNCHANGED <<job, build, port, trials, entry, text, mem, worktrees, listening, ledger, clock,
                   marks>>

-----------------------------------------------------------------------------
Mine(r) == {p \in Ports : listening[p] = r}
Released(r) == [p \in Ports |-> IF p \in Mine(r) THEN None ELSE listening[p]]
Measured(r) == IF Pre(r) THEN {"base"} ELSE Builds

(* Variant of StartTrial: ready is when somebody listens on the port.      *)
StartTrialByPort(r) ==
    /\ pc[r] = "scenario"
    /\ Goto(r, "measure")
    /\ IF job[r].trials = 0 THEN UNCHANGED <<listening, ready, stolen>>
       ELSE /\ ready' = [ready EXCEPT ![r] = @ \cup {build[r]}]
            /\ IF listening[port[r]] = None
               THEN listening' = [listening EXCEPT ![port[r]] = r] /\ UNCHANGED stolen
               ELSE stolen' = [stolen EXCEPT ![r] = @ \cup {<<build[r], trial[r]>>}]
                    /\ UNCHANGED listening
    /\ UNCHANGED <<job, build, port, trial, result, entry, text, mem, faults, worktrees, homes,
                   ledger, clock, marks>>

(* A trial starts a gateway on the port of the run, where another gateway  *)
(* may listen by now, and waits for the ready line in the log of its own.  *)
StartTrial(r) ==
    /\ pc[r] = "scenario"
    /\ Goto(r, "measure")
    /\ \/ /\ job[r].trials = 0
          /\ UNCHANGED <<listening, ready, stolen>>
       \/ /\ job[r].trials > 0 /\ listening[port[r]] = None
          /\ listening' = [listening EXCEPT ![port[r]] = r]
          /\ ready' = [ready EXCEPT ![r] = @ \cup {build[r]}]
          /\ UNCHANGED stolen
       \/ /\ job[r].trials > 0 /\ listening[port[r]] # None
          /\ stolen' = [stolen EXCEPT ![r] = @ \cup {<<build[r], trial[r]>>}]
          /\ UNCHANGED <<listening, ready>>
    /\ UNCHANGED <<job, build, port, trial, result, entry, text, mem, faults, worktrees, homes,
                   ledger, clock, marks>>

LastTrial(r) == trial[r] >= job[r].trials

(* The trial ends its gateway; until the next trial starts one, the port   *)
(* is free for others.                                                     *)
EndTrial(r) ==
    /\ pc[r] = "measure"
    /\ ~LastTrial(r)
    /\ listening' = Released(r)
    /\ trial' = [trial EXCEPT ![r] = @ + 1]
    /\ Goto(r, "scenario")
    /\ UNCHANGED <<job, build, port, ready, stolen, result, entry, text, mem, faults,
                   worktrees, homes, ledger, clock, marks>>

(* A trial whose gateway was not ready is dropped.  A build of which every *)
(* trial was dropped blocks the verdict; any other trial may carry it.     *)
Judgements(r) ==
    IF job[r].trials > 0 /\ ~(Measured(r) \subseteq ready[r]) THEN Outcomes \cap Blocked ELSE Outcomes

(* The scenario returns its measurements; a pre-sol run evaluates them.    *)
Measure(r) ==
    /\ pc[r] = "measure"
    /\ LastTrial(r)
    /\ listening' = Released(r)
    /\ trial' = [trial EXCEPT ![r] = 1]
    /\ IF Pre(r)
       THEN Goto(r, "cleanup") /\ \E s \in Judgements(r) : result' = [result EXCEPT ![r] = s]
       ELSE Goto(r, "close") /\ UNCHANGED result
    /\ UNCHANGED <<job, build, port, ready, stolen, entry, text, mem, faults, worktrees, homes,
                   ledger, clock, marks>>

(* The scenario raises, and may leave its gateway running.                 *)
ScenarioRaises(r) ==
    /\ pc[r] = "measure"
    /\ result' = [result EXCEPT ![r] = "blocked-env"]
    /\ \/ listening' = Released(r) /\ UNCHANGED faults
       \/ Mine(r) # {} /\ Fails(r, "gateway") /\ UNCHANGED listening
    /\ Goto(r, IF Pre(r) THEN "cleanup" ELSE "close")
    /\ UNCHANGED <<job, build, port, trials, entry, text, mem, worktrees, homes, ledger, clock,
                   marks>>

(* The end of isolated_home.  A removal that fails, for instance because a *)
(* gateway still writes there, is a warning.                               *)
CloseHome(r) ==
    /\ pc[r] = "close"
    /\ \/ homes' = homes \ {<<r, build[r]>>} /\ UNCHANGED faults
       \/ Fails(r, "home") /\ UNCHANGED homes
    /\ IF Pre(r) THEN Goto(r, "record") /\ UNCHANGED build
       ELSE IF result[r] # "pending" THEN Goto(r, "cleanup") /\ UNCHANGED build
       ELSE IF build[r] = "base"
       THEN Goto(r, "home") /\ build' = [build EXCEPT ![r] = "head"]
       ELSE Goto(r, "judge") /\ UNCHANGED build
    /\ UNCHANGED <<job, port, trials, result, entry, text, mem, worktrees, listening, ledger,
                   clock, marks>>

(* A post-sol run evaluates; the evidence for the pull request is rendered *)
(* then, and when that raises, the result is blocked.                      *)
Judge(r) ==
    /\ pc[r] = "judge"
    /\ \E s \in Judgements(r) \cup {"blocked-env"} : result' = [result EXCEPT ![r] = s]
    /\ Goto(r, "cleanup")
    /\ UNCHANGED <<job, build, port, trials, entry, text, mem, faults, disk, ledger, clock, marks>>

(* Variant of Cleanup: only the build whose turn it is.                    *)
CleanupOne(r) ==
    /\ pc[r] = "cleanup"
    /\ worktrees' = IF job[r].keep THEN worktrees ELSE worktrees \ {<<r, build[r]>>}
    /\ Goto(r, IF Pre(r) THEN "close" ELSE "record")
    /\ UNCHANGED <<job, build, port, trials, result, entry, text, mem, faults, homes, listening,
                   ledger, clock, marks>>

(* BuildResult.cleanup, or BuildPair.cleanup.  The removal by git may      *)
(* fail, which nobody looks at.                                            *)
Cleanup(r) ==
    /\ pc[r] = "cleanup"
    /\ \/ /\ worktrees' = IF job[r].keep THEN worktrees ELSE worktrees \ ({r} \X Builds)
          /\ UNCHANGED faults
       \/ /\ ~job[r].keep
          /\ \E left \in SUBSET (worktrees \cap ({r} \X Builds)) \ {{}} :
                worktrees' = (worktrees \ ({r} \X Builds)) \cup left
          /\ Fails(r, "remove")
    /\ Goto(r, IF Pre(r) THEN "close" ELSE "record")
    /\ UNCHANGED <<job, build, port, trials, result, entry, text, mem, homes, listening, ledger,
                   clock, marks>>

-----------------------------------------------------------------------------
(* _persist.                                                               *)
Target(r) == job[r].target
Phase(r) == job[r].phase
Others(r) == {q \in Runs \ {r} : Target(q) = Target(r) /\ Persisting(q)}

(* The record is named after its target, its phase and the second.  Two    *)
(* runs that persist one target at the same time disturb it.               *)
WriteRecord(r) ==
    /\ pc[r] = "record"
    /\ LET e == <<result[r], clock, r>>
       IN  /\ entry' = [entry EXCEPT ![r] = e]
           /\ proofs' = [proofs EXCEPT ![<<Target(r), Phase(r), clock>>] = e]
    /\ disturbed' = IF Others(r) = {} THEN disturbed ELSE disturbed \cup {Target(r)}
    /\ Goto(r, "read")
    /\ UNCHANGED <<job, build, port, trials, result, text, mem, faults, disk, cards, states, clock,
                   raced>>

(* The card of a solution gets both proofs, that of a candidate only the   *)
(* pre-sol proof.                                                          *)
HasCard(r) ==
    /\ Target(r) \in Solutions \/ Pre(r)
    /\ Target(r) \notin Absent

ReadCard(r) ==
    /\ pc[r] = "read"
    /\ IF HasCard(r)
       THEN Target(r) \notin Malformed /\ Goto(r, "write")
            /\ text' = [text EXCEPT ![r] = cards[Target(r)]]
       ELSE Goto(r, "transition") /\ UNCHANGED text
    /\ UNCHANGED <<job, build, port, trials, result, entry, mem, faults, disk, ledger, clock, marks>>

(* Variant of CardMalformed: the error is ignored.                         *)
CardIgnored(r) ==
    /\ pc[r] = "read" /\ HasCard(r) /\ Target(r) \in Malformed
    /\ Goto(r, "transition")
    /\ UNCHANGED <<job, build, port, trials, result, entry, text, mem, faults, disk, ledger, clock,
                   marks>>

(* It raises, after the record is written and before the transition.       *)
CardMalformed(r) ==
    /\ pc[r] = "read" /\ HasCard(r) /\ Target(r) \in Malformed
    /\ Goto(r, "died")
    /\ disturbed' = disturbed \cup {Target(r)}
    /\ UNCHANGED <<job, build, port, trials, result, entry, text, mem, faults, disk, ledger, clock,
                   raced>>

(* Variant of WriteCard: the card is built anew.                           *)
WriteNewCard(r) ==
    /\ pc[r] = "write"
    /\ cards' = [cards EXCEPT ![Target(r)] = [BlankCard EXCEPT ![Phase(r)] = entry[r]]]
    /\ text' = [text EXCEPT ![r] = BlankCard]
    /\ Goto(r, "transition")
    /\ UNCHANGED <<job, build, port, trials, result, entry, mem, faults, disk, proofs, states, clock,
                   marks>>

(* The whole card is written back, with this proof in it.                  *)
WriteCard(r) ==
    /\ pc[r] = "write"
    /\ cards' = [cards EXCEPT ![Target(r)] = [text[r] EXCEPT ![Phase(r)] = entry[r]]]
    /\ text' = [text EXCEPT ![r] = BlankCard]
    /\ Goto(r, "transition")
    /\ UNCHANGED <<job, build, port, trials, result, entry, mem, faults, disk, proofs, states, clock,
                   marks>>

(* Variant of Short: the status as it is.                                  *)
Verbatim(status) == status

(* proof_status_to_transition.                                             *)
Short(status) == IF status \in Blocked THEN "blocked" ELSE status

InStore(r) == {q \in Runs \ {r} : pc[q] = "save"}

(* record_transition is an apply_transition without from_state: the store  *)
(* is loaded and the target's transition set,                              *)
LoadStore(r) ==
    /\ pc[r] = "transition"
    /\ mem' = [mem EXCEPT ![r] =
                 [states EXCEPT ![Target(r)] = <<Short(result[r]), Phase(r), r>>]]
    /\ raced' = IF InStore(r) = {} THEN raced
                ELSE raced \cup {Target(q) : q \in InStore(r) \cup {r}}
    /\ Goto(r, "save")
    /\ UNCHANGED <<job, build, port, trials, result, entry, text, faults, disk, ledger, clock,
                   disturbed>>

(* and the store is saved.  What others have recorded meanwhile is lost;   *)
(* two that save at once may leave, of each target, what the one or the    *)
(* other had of it, or nothing (see LocalState).                           *)
SaveStore(r) ==
    /\ pc[r] = "save"
    /\ \/ states' = mem[r]
       \/ /\ InStore(r) # {}
          /\ states' \in Store
          /\ \A t \in Targets :
                states'[t] \in {None, mem[r][t]} \cup {mem[q][t] : q \in InStore(r)}
    /\ mem' = [mem EXCEPT ![r] = Nothing]
    /\ Goto(r, "ended")
    /\ UNCHANGED <<job, build, port, trials, result, entry, text, faults, disk, proofs, cards,
                   clock, marks>>

(* The store cannot be read, or the temporary file has gone, since another *)
(* run or tool saves at the same time: it raises, with the card written.   *)
StoreFails(r) ==
    /\ pc[r] \in {"transition", "save"}
    /\ mem' = [mem EXCEPT ![r] = Nothing]
    /\ disturbed' = disturbed \cup {Target(r)}
    /\ Goto(r, "died")
    /\ UNCHANGED <<job, build, port, trials, result, entry, text, faults, disk, ledger, clock,
                   raced>>

(* A run is killed; its gateway may go on.                                 *)
Kill(r) ==
    /\ pc[r] # "start" /\ ~Over(r)
    /\ Cardinality({q \in Runs : pc[q] = "killed"}) < MaxKills
    /\ Goto(r, "killed")
    /\ listening' \in {listening, Released(r)}
    /\ disturbed' = IF Persisting(r) THEN disturbed \cup {Target(r)} ELSE disturbed
    /\ mem' = [mem EXCEPT ![r] = Nothing]
    /\ UNCHANGED <<job, build, port, trials, result, entry, text, faults, worktrees, homes, ledger,
                   clock, raced>>

(* The clock is read only where a record gets its name, and so it matters  *)
(* only there that it goes on.                                             *)
Tick ==
    /\ clock < MaxClock
    /\ \E r \in Runs : pc[r] = "record"
    /\ clock' = clock + 1
    /\ UNCHANGED <<progress, disk, ledger, marks>>

Work(r) ==
    \/ CreateWorktree(r) \/ BuildOne(r) \/ BuildFails(r)
    \/ OpenHome(r) \/ NoFreePort(r) \/ CloseHome(r)
    \/ StartTrial(r) \/ EndTrial(r) \/ Measure(r) \/ ScenarioRaises(r) \/ Judge(r) \/ Cleanup(r)

Persist(r) ==
    \/ WriteRecord(r) \/ ReadCard(r) \/ CardMalformed(r)
    \/ WriteCard(r) \/ LoadStore(r) \/ SaveStore(r) \/ StoreFails(r)

Next ==
    \/ \E r \in Runs : Start(r) \/ Refuse(r) \/ Work(r) \/ Persist(r) \/ Kill(r)
    \/ Tick

Spec == Init /\ [][Next]_vars

-----------------------------------------------------------------------------
(* The variables have the values they are meant to have.                   *)
TypeOK ==
    /\ pc \in [Runs -> Labels] /\ job \in [Runs -> Line]
    /\ build \in [Runs -> Builds] /\ port \in [Runs -> Ports \cup {None}]
    /\ trial \in [Runs -> Nat] /\ ready \in [Runs -> SUBSET Builds]
    /\ stolen \in [Runs -> SUBSET (Builds \X Nat)]
    /\ result \in [Runs -> Statuses \cup {"pending"}]
    /\ entry \in [Runs -> Entry \cup {None}] /\ text \in [Runs -> Card]
    /\ mem \in [Runs -> Store]
    /\ worktrees \subseteq Runs \X Builds /\ homes \subseteq Runs \X Builds
    /\ listening \in [Ports -> Runs \cup {None}]
    /\ clock \in 0..MaxClock
    /\ proofs \in [Name -> Entry \cup {None}]
    /\ cards \in [Targets -> Card]
    /\ states \in Store
    /\ faults \in [Runs -> SUBSET {"build", "port", "gateway", "home", "remove"}]
    /\ disturbed \subseteq Targets /\ raced \subseteq Targets

(* A run that is over has removed its worktrees, unless it was killed, was *)
(* told to keep them, one of its builds failed, or git could not remove    *)
(* them.                                                                   *)
WorktreesAreRemoved ==
    \A w \in worktrees :
        Over(w[1]) => \/ pc[w[1]] = "killed" \/ job[w[1]].keep
                      \/ faults[w[1]] \cap {"build", "remove"} # {}

(* A run that is over has removed its isolated homes and ended its         *)
(* gateways, unless it was killed, found no port, its scenario left a      *)
(* gateway running, or a home could not be removed.                        *)
HomesAreRemoved ==
    /\ \A h \in homes :
          Over(h[1]) => pc[h[1]] = "killed" \/ faults[h[1]] \cap {"port", "home"} # {}
    /\ \A r \in Runs :
          Over(r) /\ Mine(r) # {} => pc[r] = "killed" \/ "gateway" \in faults[r]

(* A run that has a verdict on the code, in its record, on its card or as  *)
(* its transition, had the port it was given before its build in at least  *)
(* one trial on every build that it measured: another run's gateway never  *)
(* speaks for the code.                                                    *)
StolenPortBlocks ==
    \A r \in Runs :
        job[r].trials > 0 /\ entry[r] # None /\ entry[r][1] \notin Blocked =>
            \A b \in Measured(r) : \E i \in 1..job[r].trials : <<b, i>> \notin stolen[r]

Settled(t) == t \notin disturbed /\ \A r \in Runs : Target(r) = t => ~Persisting(r)

(* The three places of a result, whatever ended when, and however the runs *)
(* that save the store spoil it: the record that a card points to exists;  *)
(* a transition is that of a run on this target, with its phase and its    *)
(* status, whose record exists.  Once the runs on a target have persisted  *)
(* one after another, and none of them raced another in the store, the     *)
(* last transition is that of the run whose record the card has.  Without  *)
(* any race in the store, no run ends without a transition of its target.  *)
Recorded(t, ph, e) == proofs[<<t, ph, e[2]>>] # None
PlacesAgree ==
    /\ \A t \in Targets :
          /\ \A ph \in Phases : cards[t][ph] # None => Recorded(t, ph, cards[t][ph])
          /\ states[t] # None =>
                LET r == states[t][3]
                IN  /\ entry[r] # None /\ Target(r) = t
                    /\ states[t] = <<Short(entry[r][1]), Phase(r), r>>
                    /\ Recorded(t, Phase(r), entry[r])
                    /\ Settled(t) /\ t \notin raced =>
                          /\ proofs[<<t, Phase(r), entry[r][2]>>] = entry[r]
                          /\ HasCard(r) => cards[t][Phase(r)] = entry[r]
    /\ raced = {} => \A r \in Runs : pc[r] = "ended" => states[Target(r)] # None

(* A card loses no proof, and a proof is replaced by one of its phase      *)
(* only, as long as runs persist their results one after another.          *)
ProofsAreKept ==
    [][\A t \in Targets \ disturbed', ph \in Phases :
          cards[t][ph] # None /\ cards'[t][ph] # cards[t][ph] =>
             /\ cards'[t][ph] # None
             /\ Phase(cards'[t][ph][3]) = ph]_vars
=============================================================================
