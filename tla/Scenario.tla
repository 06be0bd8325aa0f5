------------------------------- MODULE Scenario -------------------------------
(***************************************************************************)
(* What the proof scenarios have in common.  A scenario proves one defect  *)
(* of the audited program: its probe drives the code of a build, what the  *)
(* probe reports is parsed into measurements, and evaluate_pre (the base   *)
(* build alone) or evaluate_post (base and head) turns the measurements    *)
(* into the status of the proof.                                           *)
(*                                                                         *)
(* truth is what a scenario is to find out and cannot see: whether the     *)
(* code of a build has the defect, has it fixed, or never does what the    *)
(* probe asks of it (it throws, drops the request, changed its shape).     *)
(* The modules that extend this one add the probes.                        *)
(***************************************************************************)
EXTENDS Integers, FiniteSets

CONSTANTS
    Loaded,   \* the scenarios of this instance
    Trials    \* the trials of a run (--trials)

ASSUME TrialsAssumption == Trials \in Nat \ {0}

Builds == {"base", "head"}
Modes == {"pre-sol", "post-sol"}
Truths == {"defect", "fixed", "inert"}
Statuses == {"blocked-env", "blocked-external-dep", "collected", "unreproducible"}

VARIABLES
    scenario,  \* the scenario that run.py has loaded,
    mode,      \* the kind of proof,
    truth,     \* and the truth about the code of each build
    build,     \* the build whose turn it is
    pc,        \* where the run is
    sut,       \* what the probe keeps and what it did to the build's code
    out,       \* how the probe ended, and what it printed
    left,      \* the processes and files outside the isolated home
    measured,  \* what run_scenario returned for each build
    status     \* the status of the proof

given == <<scenario, mode, truth>>
vars == <<given, build, pc, sut, out, left, measured, status>>

Here == truth[build]

(* Labels of the frame; every other label is inside a probe.               *)
FrameLabels == {"launch", "collect", "judge", "done", "killed"}
Probing == pc \notin FrameLabels

Ended(end) == [end |-> end]
Printed(payload) == [end |-> "payload", says |-> payload]
NotRun == [trials |-> -1]
Idle == [idle |-> TRUE]

-----------------------------------------------------------------------------
(* A pre-sol proof has no head build.                                      *)
Init ==
    /\ scenario \in Loaded
    /\ mode \in Modes
    /\ truth \in [Builds -> Truths]
    /\ mode = "pre-sol" => truth["head"] = "fixed"
    /\ build = "base"
    /\ pc = "launch"
    /\ sut = Idle
    /\ out = Ended("running")
    /\ left = {}
    /\ measured = [b \in Builds |-> NotRun]
    /\ status = "pending"

At(s, label) == scenario = s /\ pc = label

(* A step of the run that changes what it keeps and what it leaves.        *)
Act(s, from, to, next, items) ==
    /\ At(s, from)
    /\ pc' = to
    /\ sut' = next
    /\ left' = items
    /\ UNCHANGED <<given, build, out, measured, status>>

Step(s, from, to, next) == Act(s, from, to, next, left)

(* The scenario starts its probe, a temporary script in the worktree.      *)
Launch(s, first, fresh) == Act(s, "launch", first, fresh, left \cup {"script"})

(* tsx, a source file or the anchor of a patch is not in the worktree.     *)
PrerequisiteMissing(scenarios) ==
    /\ scenario \in scenarios
    /\ pc = "launch"
    /\ pc' = "collect"
    /\ out' = Ended("prerequisite")
    /\ UNCHANGED <<given, build, sut, left, measured, status>>

(* The probe prints its payload and exits, or prints why it skipped.       *)
Exit(s, from, how) ==
    /\ At(s, from)
    /\ pc' = "collect"
    /\ out' = how
    /\ UNCHANGED <<given, build, sut, left, measured, status>>

Report(s, from, payload) == Exit(s, from, Printed(payload))
Skip(s, from) == Exit(s, from, Ended("skipped"))

(* A scenario starts its processes by a launcher, tsx, and it kills the    *)
(* launcher alone: the process that this has started may live on.          *)
Survivors == {{}, {"orphans"}}

(* The probe's process ends with an error, prints something else than its  *)
(* payload, or is killed by the timeout of subprocess.run.                 *)
ProbeFails ==
    /\ Probing /\ "script" \in left
    /\ pc' = "collect"
    /\ \/ \E end \in {"crashed", "garbled"} : out' = Ended(end) /\ UNCHANGED left
       \/ /\ out' = Ended("timeout")
          /\ \E survivors \in Survivors : left' = left \cup survivors
    /\ UNCHANGED <<given, build, sut, measured, status>>

-----------------------------------------------------------------------------
NoTrials == [trials |-> 0]
Failed == [trials |-> Trials, error |-> TRUE]

(* How both families of run_scenario read the output of a probe.           *)
Reading(o) ==
    CASE o.end \in {"prerequisite", "skipped"} -> NoTrials
      [] o.end = "payload" -> o.says
      [] OTHER -> Failed

(* run_scenario returns m for the build; in a post-sol proof the head      *)
(* build is next.  Its finally clause removes what cleaned names.          *)
Return(s, m, cleaned) ==
    /\ At(s, "collect")
    /\ measured' = [measured EXCEPT ![build] = m]
    /\ left' = left \ cleaned
    /\ IF mode = "post-sol" /\ build = "base"
       THEN build' = "head" /\ pc' = "launch"
       ELSE build' = build /\ pc' = "judge"
    /\ out' = Ended("running")
    /\ sut' = Idle
    /\ UNCHANGED <<given, status>>

(* Variant of Raise: the result has no status.                             *)
RaiseSilently(s, cleaned) ==
    /\ At(s, "collect")
    /\ status' = "pending"
    /\ pc' = "done"
    /\ left' = left \ cleaned
    /\ UNCHANGED <<given, build, sut, out, measured>>

(* run_scenario raises, and run.py makes that a blocked-env result.        *)
Raise(s, cleaned) ==
    /\ At(s, "collect")
    /\ status' = "blocked-env"
    /\ pc' = "done"
    /\ left' = left \ cleaned
    /\ UNCHANGED <<given, build, sut, out, measured>>

(* The family that parses the last line and lets TimeoutExpired through.   *)
LastLine(s) ==
    IF out.end = "timeout" THEN Raise(s, {"script"})
    ELSE Return(s, Reading(out), {"script"})

(* Variant of MarkedLine: the script is removed only after a payload.      *)
MarkedLineNoFinally(s) ==
    Return(s, Reading(out), IF out.end = "payload" THEN {"script"} ELSE {})

(* The family that looks for a PROOF_RESULT line and catches the timeout.  *)
MarkedLine(s) == Return(s, Reading(out), {"script"})

-----------------------------------------------------------------------------
(* The condition that blocks the evaluation in almost every scenario.      *)
Bad(m) == m.trials = 0 \/ "error" \in DOMAIN m

Verdict(blocked, shown) ==
    IF blocked THEN "blocked-env"
    ELSE IF shown THEN "collected" ELSE "unreproducible"

(* What the runs on the two builds have measured.                          *)
Before == measured["base"]
After == measured["head"]

(* run.py evaluates what has been measured.                                *)
Judge(s, preStatus, postStatus) ==
    /\ At(s, "judge")
    /\ status' = IF mode = "pre-sol" THEN preStatus ELSE postStatus
    /\ pc' = "done"
    /\ UNCHANGED <<given, build, sut, out, left, measured>>
=============================================================================
