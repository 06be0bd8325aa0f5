------------------------------- MODULE Scenarios -------------------------------
(***************************************************************************)
(* All proof scenarios, one at a time: run.py loads one and runs it on the *)
(* base build and, in a post-sol proof, on the head build.                 *)
(***************************************************************************)
EXTENDS SignalScenarios, StoreScenarios, AuthScenarios, QueueScenarios,
        GatewayScenarios, E2eScenarios

InProbe ==
    {"026", "030", "031", "032", "033", "037", "038", "039", "040", "045", "047",
     "048", "049", "050", "053", "056", "mcp-pending-ttl", "gateway-map-size"}
AllScenarios ==
    InProbe \cup {V1, V2, "026-e2e", "038-e2e", "039-e2e", "040-e2e", "cron-manual-run"}

ASSUME LoadedAssumption == Loaded \subseteq AllScenarios

Writers ==
    StartWriter(V1) \/ WriterV1 \/ StartWriter(V2) \/ WriterV2

(* What ends a run early, from outside, and what a writer does that was to *)
(* be killed.                                                              *)
Faults ==
    OrphanWrites \/ ProbeFails \/ PrerequisiteMissing(InProbe \cup {V1, V2, "026-e2e"}) \/ Interrupt

Run ==
    \/ SignalScenarios \/ StoreScenarios \/ QueueScenarios \/ GatewayScenarios
    \/ E2eScenarios \/ Scenario045
    \/ RunV1 \/ SeedV1 \/ KillAttemptV1 \/ TrialV1 \/ Judge(V1, PreV1(Before), PostV1(Before, After))
    \/ RunV2 \/ SeedV2 \/ KillAttemptV2 \/ TrialV2 \/ Judge(V2, PreV2(Before), PostV2(Before, After))

Next == Run \/ Writers \/ OrphansExit \/ Faults

(* The writer and the writers that were not killed are processes of their  *)
(* own, and each goes on as long as it can.  Nothing makes a fault happen, *)
(* and nothing said here needs the run to go on: it may be killed.         *)
Spec == Init /\ [][Next]_vars /\ WF_vars(Writers) /\ WF_vars(OrphansExit)

-----------------------------------------------------------------------------
Items == {"script", "scripts", "writer", "gateway", "mock", "probe", "logs", "orphans"}

(* The variables have the values they are meant to have; a run is done     *)
(* exactly when its proof has a status.                                    *)
TypeOK ==
    /\ scenario \in AllScenarios /\ mode \in Modes
    /\ truth \in [Builds -> Truths] /\ build \in Builds
    /\ left \subseteq Items
    /\ DOMAIN measured = Builds
    /\ status \in Statuses \cup {"pending"}
    /\ (pc = "done") <=> (status # "pending")

Collected == status = "collected"

(* Scenarios that may collect a base build without the defect: the probe   *)
(* makes the defect itself (045, 039), calls with ids that the gateway     *)
(* does not know (038), counts what did not happen (037, 040, and 026 and  *)
(* 030 whose post-sol evaluation drops a condition of the pre-sol one),    *)
(* gives up too early (mcp-pending-ttl, 040-e2e), reads a log too early    *)
(* (026-e2e) or an event that comes before the stop (039-e2e).             *)
CollectWithoutDefect(kind) ==
    {"039", "040", "026-e2e", "039-e2e", "040-e2e"} \cup
    IF kind = "pre-sol" THEN {"037", "038", "045", "mcp-pending-ttl"}
    ELSE {"026", "030"}

(* A collected proof means that the base build has the defect, unless its  *)
(* scenario is one of the above: no failure of a probe, no write that is   *)
(* late or lost and no prerequisite that is missing is taken for a defect. *)
CollectedShowsDefect ==
    Collected /\ scenario \notin CollectWithoutDefect(mode) => truth["base"] = "defect"

(* Scenarios that depend on the clock, on the luck of a kill or on how     *)
(* fast another process is.                                                *)
DependOnTiming ==
    {"031", "033", V1, V2, "038-e2e", "039-e2e", "040-e2e", "cron-manual-run"}

(* A collected post-sol proof excludes that the head build has the defect, *)
(* unless its scenario takes a build that was slow or lucky for a fix.     *)
CollectedExcludesDefect ==
    Collected /\ mode = "post-sol" /\ scenario \notin DependOnTiming
        => truth["head"] # "defect"

(* Scenarios whose evaluation does not ask whether the head build has done *)
(* the work in question at all.                                            *)
CollectInertHead ==
    {"030", "032", "039", "047", "048", "049", "050", "053", "056"}

(* A collected post-sol proof means that the head build is fixed: it does  *)
(* the work and no longer has the defect.                                  *)
CollectedShowsFix ==
    Collected /\ mode = "post-sol" /\ scenario \notin DependOnTiming \cup CollectInertHead
        => truth["head"] = "fixed"

HasPayload(b) == measured[b] # NotRun /\ ~Bad(measured[b])

(* Scenarios that never confirm a fix: their probe stops short of what the *)
(* fix changes (037, 038, 039, 045) or may do so (mcp-pending-ttl and      *)
(* 026-e2e, by the clock).                                                 *)
BlindToFixes == {"037", "038", "039", "045", "mcp-pending-ttl", "026-e2e"}

(* A defect is confirmed whenever the base build could be measured, and a  *)
(* fix of it whenever both builds could, unless the scenario depends on    *)
(* timing or is blind to fixes: the order in which a probe counts, resets  *)
(* and reloads loses neither.                                              *)
BuildsAreConfirmed ==
    /\ pc = "done" /\ scenario \notin DependOnTiming
    /\ truth["base"] = "defect" /\ HasPayload("base")
    /\ mode = "post-sol" => /\ scenario \notin BlindToFixes
                            /\ truth["head"] = "fixed" /\ HasPayload("head")
    => Collected

(* Scenarios that go on after a trial that failed, and drop it.            *)
DropFailures == {"039-e2e", "040-e2e", V1, V2}

(* A verdict on the code is reached only when every build has a payload: a *)
(* probe that was skipped, that crashed or timed out blocks it.  Where     *)
(* trials that failed are dropped, one at least of each build has not.     *)
(* Three scenarios do judge trials that failed, which this does not deny:  *)
(* 026-e2e takes a file that was read half written for one that denies the *)
(* signal, 038-e2e a probe that ended early for one that closed its        *)
(* connection, and cron-manual-run a job that never ran for one that was   *)
(* not lost.                                                               *)
FailuresAreNotVerdicts ==
    status \in {"collected", "unreproducible"} =>
        \A b \in IF mode = "post-sol" THEN Builds ELSE {"base"} :
            /\ HasPayload(b)
            /\ scenario \in DropFailures => measured[b].failed < measured[b].trials

(* Scenarios that keep their logs, or that a timeout ends without their    *)
(* finally clause reaching every process.                                  *)
LeaveBehind == {"038-e2e", "040-e2e"}

(* A run that is done leaves no file outside the isolated home and no      *)
(* process that it knows of, whichever way it ended; where it does, the    *)
(* gateway or the mock is left running only by a proof that is blocked.    *)
(* What outlives its launcher is left by a blocked proof too, or by the    *)
(* scenarios that kill a writer.                                           *)
NothingLeftBehind ==
    pc = "done" =>
        /\ scenario \notin LeaveBehind => left \subseteq {"orphans"}
        /\ left \cap {"gateway", "mock", "probe", "writer"} # {} => status = "blocked-env"
        /\ "orphans" \in left => status = "blocked-env" \/ scenario \in {V1, V2}

(* The writers of the second version of the scenario end by themselves,    *)
(* when the run is killed and when the kill reaches only their launcher.   *)
OrphansEnd ==
    (pc \in {"killed", "done"} /\ scenario = V2) ~> (left \cap {"writer", "orphans"} = {})
=============================================================================
