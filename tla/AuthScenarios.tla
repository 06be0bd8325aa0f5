---------------------------- MODULE AuthScenarios ----------------------------
(***************************************************************************)
(* Scenarios about the credential file auth.json, which a crash during a   *)
(* write may leave cut.  The first one cuts the file itself; the other two *)
(* kill a real writer process, and try until the file is cut or the        *)
(* attempts of the trial are used up.                                      *)
(***************************************************************************)
EXTENDS Scenario

CONSTANT Attempts    \* attempts per trial

(* proof-CAND-045.  The control trial is a complete write.                 *)
Control045 == Step("045", "control", "crash", [controlOk |-> Here # "inert"])

(* The probe cuts the file, whichever code wrote it; a file that does not  *)
(* parse blocks the set that would repair it.                              *)
Crash045 ==
    Report("045", "crash",
           [trials |-> 2, controlOk |-> sut.controlOk, lockout |-> Here # "inert"])

Pre045(m) == Verdict(Bad(m), m.lockout /\ m.controlOk)
Post045(wo, wf) ==
    Verdict(Bad(wo) \/ Bad(wf),
            wo.lockout /\ ~wf.lockout /\ wo.controlOk /\ wf.controlOk)

Run045 == Launch("045", "control", Idle) \/ LastLine("045")
Scenario045 ==
    Run045 \/ Control045 \/ Crash045
    \/ Judge("045", Pre045(Before), Post045(Before, After))

-----------------------------------------------------------------------------
(* The two scenarios with a real writer.                                   *)
V1 == "045-realproc"
V2 == "045-realproc-v2"

(* Before an attempt: no file, no temporary file and no writer.  orphan:   *)
(* a writer of an earlier attempt of the trial was not killed.             *)
FreshTrials ==
    [file |-> "absent", temp |-> FALSE, writer |-> "none",
     seen |-> FALSE, killed |-> FALSE, orphan |-> FALSE,
     trial |-> 1, attempt |-> 1, fired |-> FALSE,
     valid |-> 0, firedTrials |-> 0, lockouts |-> 0]
Clean == [sut EXCEPT !.file = "absent", !.temp = FALSE, !.writer = "none",
                     !.seen = FALSE, !.killed = FALSE]

One(condition) == IF condition THEN 1 ELSE 0

(* A trial is over: with an error, or with the file cut or not.            *)
EndTrial(valid, fired, lockout) ==
    [Clean EXCEPT !.trial = @ + 1, !.attempt = 1, !.fired = FALSE, !.orphan = FALSE,
                  !.valid = @ + One(valid),
                  !.firedTrials = @ + One(valid /\ fired),
                  !.lockouts = @ + One(lockout)]

Corrupt == sut.file \in {"partial", "absent"}

(* The file is read after the writer has ended.                            *)
DiskIntegrity(s, fired) ==
    Step(s, "integrity", "seed",
         IF Corrupt \/ sut.attempt = Attempts
         THEN EndTrial(TRUE, sut.fired \/ fired, Corrupt)
         ELSE [Clean EXCEPT !.attempt = @ + 1, !.fired = @ \/ fired])

Measured(s) ==
    Return(s, [trials |-> Trials, measured |-> sut.valid,
               fired |-> sut.firedTrials, lockouts |-> sut.lockouts,
               failed |-> Trials - sut.valid],
           {"scripts"})

(* A valid file is seeded and the writer started, unless the seed fails or *)
(* times out, which ends the trial with an error.                          *)
SeedAndSpawn(s) ==
    /\ At(s, "seed") /\ sut.trial <= Trials
    /\ \/ Act(s, "seed", "watch",
              [sut EXCEPT !.file = "seed", !.writer = "starting"],
              left \cup {"writer"})
       \/ \E survivors \in Survivors :
             Act(s, "seed", "seed", EndTrial(FALSE, FALSE, FALSE), left \cup survivors)

(* The writer, as long as it lives; pc is where its parent is.             *)
Writes(s, next) ==
    /\ scenario = s /\ "writer" \in left
    /\ Act(s, pc, pc, next, left)
WriterExits(s) ==
    /\ scenario = s /\ "writer" \in left
    /\ Act(s, pc, pc, [sut EXCEPT !.writer = "exited"], left \ {"writer"})

(* set writes the file in place, or a temporary file that it renames.      *)
Begun ==
    IF Here = "defect" THEN [sut EXCEPT !.file = "partial"]
    ELSE [sut EXCEPT !.temp = Here = "fixed"]
Written ==
    [sut EXCEPT !.file = IF Here = "inert" THEN @ ELSE "big", !.temp = FALSE]
BeginSet == [Begun EXCEPT !.writer = "setting"]
EndSet(next) == [Written EXCEPT !.writer = next]

(* Its first line and the end of the file read alike: as a line.           *)
StartWriter(s) ==
    /\ scenario = s /\ "writer" \in left /\ sut.writer = "starting"
    /\ Writes(s, [sut EXCEPT !.writer = "ready", !.seen = TRUE]) \/ WriterExits(s)

(* The writer of v1 never stops by itself.                                 *)
WriterV1 ==
    /\ scenario = V1 /\ "writer" \in left
    /\ \/ sut.writer = "ready" /\ Writes(V1, BeginSet)
       \/ sut.writer = "setting" /\ Writes(V1, EndSet("ready"))

(* Variant of WriterV2: the loop of v1.                                    *)
WriterLoops ==
    /\ scenario = V2 /\ "writer" \in left
    /\ \/ sut.writer = "ready" /\ Writes(V2, BeginSet)
       \/ sut.writer = "setting" /\ Writes(V2, EndSet("ready"))

(* The writer of v2 calls set once and exits.                              *)
WriterV2 ==
    /\ scenario = V2 /\ "writer" \in left
    /\ \/ sut.writer = "ready" /\ Writes(V2, BeginSet)
       \/ sut.writer = "setting" /\ Writes(V2, EndSet("leaving"))
       \/ sut.writer = "leaving" /\ WriterExits(V2)

(* A writer that outlives its launcher goes on with what it does, in the   *)
(* directory of its trial, which matters while the parent looks there; in  *)
(* v2 it comes to its end.                                                 *)
OrphanWrites ==
    /\ scenario \in {V1, V2} /\ pc \in {"watch", "integrity"}
    /\ "orphans" \in left /\ sut.orphan
    /\ \E next \in {Begun, Written} : Act(scenario, pc, pc, next, left)

OrphansExit ==
    /\ scenario = V2 /\ "orphans" \in left
    /\ Act(V2, pc, pc, sut, left \ {"orphans"})

(* The writer's launcher is killed; killed: this is what the trial counts. *)
Kill(s, from, killed) ==
    \E survivors \in Survivors :
        Act(s, from, "integrity",
            [sut EXCEPT !.killed = killed, !.orphan = @ \/ survivors # {}],
            (left \ {"writer"}) \cup survivors)

(* v1 kills the writer some time after its first line.                     *)
KillAttemptV1 ==
    /\ At(V1, "watch")
    /\ \/ sut.seen /\ "writer" \in left /\ Kill(V1, "watch", TRUE)
       \/ /\ sut.writer = "exited"
          /\ Step(V1, "watch", "integrity", sut)

(* v2 waits until the file is not the seed or a temporary file is there;   *)
(* a writer that outlasts the wait is killed too, which does not count.    *)
WriteSeen == sut.file # "seed" \/ sut.temp

KillAttemptV2 ==
    \/ /\ At(V2, "watch") /\ sut.seen /\ WriteSeen
       /\ "writer" \in left
       /\ Step(V2, "watch", "kill", sut)
    \/ Kill(V2, "kill", TRUE)
    \/ At(V2, "watch") /\ sut.seen /\ "writer" \in left /\ Kill(V2, "watch", FALSE)
    \/ /\ At(V2, "watch") /\ sut.writer = "exited"
       /\ Step(V2, "watch", "integrity", sut)

(* The parent is killed; a live writer is left to itself.                  *)
Interrupt ==
    /\ scenario \in {V1, V2} /\ Probing
    /\ Act(scenario, pc, "killed", sut, left)

(* _is_usable                                                              *)
Usable(m) == ~Bad(m) /\ m.measured > 0 /\ m.fired > 0
Unusable(m) == ~Usable(m)

PreV1(m) == Verdict(Unusable(m), m.lockouts > 0)
PostV1(wo, wf) ==
    Verdict(Unusable(wo) \/ Unusable(wf), wo.lockouts > 0 /\ wf.lockouts = 0)

PreV2(m) == Verdict(Unusable(m), m.lockouts > 0)
PostV2(wo, wf) ==
    Verdict(Unusable(wo) \/ Unusable(wf), wo.lockouts > 0 /\ wf.lockouts = 0)

SeedV1 == SeedAndSpawn(V1)
SeedV2 == SeedAndSpawn(V2)
TrialV1 == DiskIntegrity(V1, sut.killed)
TrialV2 == DiskIntegrity(V2, sut.killed)

RunV1 ==
    \/ Act(V1, "launch", "seed", FreshTrials, left \cup {"scripts"})
    \/ At(V1, "seed") /\ sut.trial > Trials /\ Step(V1, "seed", "collect", sut)
    \/ At(V1, "collect") /\ out.end # "prerequisite" /\ Measured(V1)
    \/ At(V1, "collect") /\ out.end = "prerequisite" /\ LastLine(V1)

RunV2 ==
    \/ Act(V2, "launch", "seed", FreshTrials, left \cup {"scripts"})
    \/ At(V2, "seed") /\ sut.trial > Trials /\ Step(V2, "seed", "collect", sut)
    \/ At(V2, "collect") /\ out.end # "prerequisite" /\ Measured(V2)
    \/ At(V2, "collect") /\ out.end = "prerequisite" /\ LastLine(V2)
=============================================================================
