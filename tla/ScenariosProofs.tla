---------------------------- MODULE ScenariosProofs ----------------------------
(***************************************************************************)
(* What a finished proof says about the builds it was made on, for every   *)
(* number of trials and attempts, and what a run leaves behind.            *)
(*                                                                         *)
(* The invariant has three parts.  RunInv is about the frame: measurements *)
(* are made in the order of the builds, a measurement that is not bad      *)
(* means what its scenario's measurements mean (Means), and a status that  *)
(* was given is sound.  KeepsInv has, for each scenario, what its probe    *)
(* keeps so that the measurement will have its meaning.  LeftInv has what  *)
(* is outside the isolated home at each place of a run.                    *)
(***************************************************************************)
EXTENDS Scenarios, FiniteSetTheorems, TLAPS

(* What the measurement m of a build of which t is true says, when the     *)
(* probe got as far as measuring.                                          *)
Means026(m, t) ==
    /\ m.invoked = IF t = "inert" THEN 0 ELSE 1
    /\ (m.received <=> t = "fixed") /\ (m.same <=> t = "fixed")

Means030(m, t) ==
    /\ m.before = IF t = "inert" THEN 0 ELSE 1
    /\ m.after = IF t = "defect" THEN 1 ELSE 0

Means032(m, t) == m.unhandled = IF t = "defect" THEN Trials ELSE 0

Means037(m, t) == m.branches = IF t = "fixed" THEN 1 ELSE 0

Means038(m, t) == ~m.a /\ ~m.b

MeansTtl(m, t) ==
    /\ m.set = IF t = "inert" THEN 0 ELSE Trials
    /\ m.after = IF t = "fixed" /\ m.sleep = "long" THEN 0 ELSE m.set
    /\ "sleep" \in DOMAIN m

Means047(m, t) ==
    /\ m.diverged = IF t = "defect" THEN 2 ELSE 0
    /\ m.resurrected = 1

Means048(m, t) ==
    /\ ~m.control
    /\ m.diverged <=> (t = "defect")
    /\ t = "defect" => m.threw

Means049(m, t) ==
    /\ m.sentinel
    /\ m.overwritten <=> t = "defect"
    /\ m.survived <=> t # "defect"
    /\ m.warned <=> t = "fixed"

Means045(m, t) == (m.lockout <=> t # "inert") /\ (m.controlOk <=> t # "inert")

(* A trial that was not measured has failed.                               *)
MeansV(m, t) ==
    /\ t # "defect" => m.lockouts = 0
    /\ m.trials = Trials /\ m.measured \in Int /\ m.failed = Trials - m.measured

Means031(m, t) ==
    /\ m.calls \in Nat
    /\ t = "fixed" => m.calls <= MaxAttempts031
    /\ t = "inert" => m.calls = 0

Means033(m, t) == m.trials = Trials /\ (t # "defect" => m.leaks = 0)

MeansReplay(m, t) ==
    /\ m.pendingAfterCrash
    /\ m.delivered = IF t = "defect" THEN 2 ELSE 1
    /\ m.marker = "none" <=> t # "fixed"

Duplicates(t) == IF t = "inert" THEN 0 ELSE IF t = "fixed" THEN 1 ELSE 2
Means053(m, t) == m.dup = Duplicates(t) /\ (m.asymmetry <=> t = "defect")

Means039(m, t) == m.trials = Trials /\ (t = "defect" => m.fired >= Trials)

Means040(m, t) ==
    /\ m.trials = Trials
    /\ t = "defect" => m.leaks = Trials
    /\ t = "fixed" => m.leaks = 0
    /\ m.unbound = IF t = "fixed" THEN Trials ELSE 0

Means026E2e(m, t) == m.invoked = 1 /\ (m.signal => t = "fixed")

Means039E2e(m) ==
    m.trials = Trials /\ m.notReady \in 0..Trials /\ m.failed = m.notReady

(* A trial that failed has not come as far as the delivery.                *)
Means040E2e(m) ==
    m.trials = Trials /\ (m.chains # 0 \/ m.reaches # 0 => m.failed < Trials)

Means038E2e(m, t) ==
    /\ t = "fixed" => m.aborts = m.chains
    /\ t = "inert" => m.chains = 0

MeansCron(m, t) ==
    /\ "error" \notin DOMAIN m /\ m.trials = Trials
    /\ t # "defect" => m.lost = 0

Means(s, m, t) ==
    /\ s # "gateway-map-size"
    /\ s = "026" => Means026(m, t)
    /\ s = "030" => Means030(m, t)
    /\ s = "031" => Means031(m, t)
    /\ s = "032" => Means032(m, t)
    /\ s = "033" => Means033(m, t)
    /\ s = "037" => Means037(m, t)
    /\ s = "038" => Means038(m, t)
    /\ s = "039" => Means039(m, t)
    /\ s = "040" => Means040(m, t)
    /\ s = "045" => Means045(m, t)
    /\ s = "047" => Means047(m, t)
    /\ s = "048" => Means048(m, t)
    /\ s = "049" => Means049(m, t)
    /\ s \in {"050", "056"} => MeansReplay(m, t)
    /\ s = "053" => Means053(m, t)
    /\ s = "mcp-pending-ttl" => MeansTtl(m, t)
    /\ s \in {V1, V2} => MeansV(m, t)
    /\ s = "026-e2e" => Means026E2e(m, t)
    /\ s = "038-e2e" => Means038E2e(m, t)
    /\ s = "039-e2e" => Means039E2e(m)
    /\ s = "040-e2e" => Means040E2e(m)
    /\ s = "cron-manual-run" => MeansCron(m, t)

(* What run_scenario returns for a build of which t is true.               *)
Tells(s, m, t) ==
    /\ m # NotRun
    /\ (s # "cron-manual-run" /\ Bad(m)) \/ Means(s, m, t)

-----------------------------------------------------------------------------
(* A measurement that is bad blocks the proof.                             *)
BadBlocks ==
    pc = "done" /\ (\E b \in Builds : Bad(measured[b])) => status = "blocked-env"

(* A status that was given is sound.                                       *)
Sound ==
    /\ CollectedShowsDefect
    /\ CollectedExcludesDefect
    /\ CollectedShowsFix
    /\ BuildsAreConfirmed
    /\ FailuresAreNotVerdicts
    /\ BadBlocks

Types ==
    /\ scenario \in AllScenarios /\ mode \in Modes
    /\ truth \in [Builds -> Truths] /\ build \in Builds
    /\ DOMAIN measured = Builds
    /\ status \in Statuses \cup {"pending"}
    /\ (pc = "done") <=> (status # "pending")

(* The base build is measured first, and a build only once.                *)
MeasuredInOrder ==
    /\ build = "head" => mode = "post-sol" /\ measured["base"] # NotRun
    /\ build = "base" => measured["head"] = NotRun
    /\ pc \notin {"judge", "done"} => measured[build] = NotRun
    /\ pc = "judge" => /\ measured[build] # NotRun
                       /\ mode = "post-sol" => build = "head"

MeasuredTells ==
    /\ out.end = "payload" => Tells(scenario, out.says, Here)
    /\ scenario = "cron-manual-run" /\ pc = "collect"
           => out.end \in {"timeout", "payload"}
    /\ \A b \in Builds : measured[b] # NotRun => Tells(scenario, measured[b], truth[b])

RunInv == Types /\ MeasuredInOrder /\ MeasuredTells /\ Sound

-----------------------------------------------------------------------------
(* What the probes keep.                                                   *)
Keeps030 == pc = "terminate" => sut.before = IF Here = "inert" THEN 0 ELSE 1

Keeps031 ==
    pc = "observe" =>
        /\ sut.calls \in Nat
        /\ Here = "fixed" => sut.calls <= MaxAttempts031
        /\ Here = "inert" => sut.calls = 0

Keeps032 ==
    pc = "queue" =>
        /\ sut.trial \in Nat
        /\ sut.rejected = IF Here = "defect" THEN sut.trial ELSE 0

Keeps033 ==
    pc \in {"trial", "parked"} =>
        /\ DOMAIN sut = {"trial", "leaks"} /\ sut.leaks \in Nat
        /\ Here # "defect" => sut.leaks = 0

Keeps037 ==
    /\ pc = "contract-error" => sut.disposed = {}
    /\ pc = "count" =>
           sut.disposed = IF Here = "fixed" THEN {"contract-error"} ELSE {}

Keeps038 ==
    pc \in {"connect", "close"} =>
        /\ DOMAIN sut = {"owner", "conn"}
        /\ sut.owner["a"] = "conn-A" /\ sut.owner["b"] = "conn-B"
        /\ pc = "close" => sut.conn = "generated"

Keeps039 ==
    pc \in {"activate", "wait"} =>
        /\ DOMAIN sut = {"trial", "fired", "closing"}
        /\ sut.trial \in Nat /\ sut.fired \in Nat
        /\ Here = "defect" =>
               sut.fired >= sut.trial + IF pc = "wait" THEN 1 ELSE 0

Keeps040 ==
    pc \in {"trial", "parked"} =>
        /\ DOMAIN sut = {"trial", "unbound", "leaks"}
        /\ sut.trial \in Nat
        /\ Here = "defect" => sut.leaks = sut.trial
        /\ Here = "fixed" => sut.leaks = 0
        /\ sut.unbound = IF Here = "fixed" THEN sut.trial ELSE 0

Keeps045 == pc = "crash" => (sut.controlOk <=> Here # "inert")

Keeps047 ==
    pc \in {"delete", "reload", "update", "count"} =>
        /\ DOMAIN sut = {"mem", "row", "diverged", "resurrected"}
        /\ sut.row = "old"
        /\ sut.mem = IF Here # "defect" THEN "old"
                     ELSE IF pc = "reload" THEN "gone"
                     ELSE IF pc = "count" THEN "new" ELSE "old"
        /\ sut.diverged = IF pc \in {"update", "count"} /\ Here = "defect" THEN 1 ELSE 0
        /\ pc \in {"update", "count"} => sut.resurrected = 1

Stores048(a, b) == sut.store["a"] = a /\ sut.store["b"] = b

(* In the pass with the fault, only the defect leaves the stores apart.    *)
Keeps048 ==
    pc \in {"first", "second", "rollback", "commit", "classify"} =>
        /\ DOMAIN sut = {"fault", "store", "writes", "threw", "control"}
        /\ DOMAIN sut.store = Dirs048 /\ DOMAIN sut.writes = Dirs048
        /\ sut.fault \in BOOLEAN /\ sut.threw \in BOOLEAN
        /\ ~Diverges048(sut.control)
        /\ pc = "first" =>
              /\ Stores048("plaintext", "plaintext")
              /\ sut.writes["a"] = 0 /\ sut.writes["b"] = 0
        /\ pc = "second" =>
              /\ Stores048(IF Here = "defect" THEN "ref" ELSE "plaintext", "plaintext")
              /\ sut.writes["a"] = 1 /\ sut.writes["b"] = 0
        /\ pc = "rollback" =>
              /\ Here = "defect" /\ sut.fault /\ sut.threw
              /\ Stores048("ref", "plaintext") /\ sut.writes["a"] = 1
        /\ pc = "commit" =>
              /\ ~sut.fault
              /\ IF Here = "defect" THEN Stores048("ref", "ref")
                 ELSE Stores048("plaintext", "plaintext")
        /\ pc = "classify" =>
              IF ~sut.fault THEN Stores048("ref", "ref") \/ Stores048("plaintext", "plaintext")
              ELSE IF Here = "defect" THEN sut.threw /\ Stores048("ref", "plaintext")
              ELSE Stores048("plaintext", "plaintext")

Keeps049 ==
    pc = "observe" =>
        /\ sut.target = IF Here = "defect" THEN "legacy-only" ELSE "corrupt"
        /\ sut.warned <=> Here = "fixed"

KeepsReplay ==
    /\ pc \in {"attempt", "deliver", "recover"} =>
          /\ DOMAIN sut = {"pending", "marker", "delivered"}
          /\ sut.pending
          /\ sut.delivered = IF pc = "recover" THEN 1 ELSE 0
    /\ pc = "attempt" => sut.marker = "none"
    /\ pc \in {"deliver", "recover"} => (sut.marker = "none" <=> Here # "fixed")

Keeps053 ==
    /\ pc = "coordinator" =>
          /\ DOMAIN sut = {"bump", "inflight", "requests", "events", "dup"}
          /\ sut.requests \in 0..2 /\ sut.bump \in BOOLEAN
          /\ sut.requests = 0 => sut.inflight = {} /\ sut.events = 0
          /\ sut.requests = 1 =>
                /\ sut.inflight = {Key053(0)}
                /\ sut.events = IF Here = "inert" THEN 0 ELSE 1
          /\ sut.requests = 2 =>
                sut.events = IF sut.bump THEN Duplicates(Here)
                             ELSE IF Here = "inert" THEN 0 ELSE 1
          /\ ~sut.bump => sut.dup = Duplicates(Here)
    /\ pc = "runtime" =>
          /\ DOMAIN sut = {"dup", "noBump", "inflight", "absorbed", "requests"}
          /\ sut.dup = Duplicates(Here)
          /\ sut.noBump = IF Here = "inert" THEN 0 ELSE 1
          /\ sut.requests \in 0..2
          /\ sut.inflight = IF Here = "inert" \/ sut.requests = 0 THEN {} ELSE {"S"}
          /\ sut.requests = 2 => (sut.absorbed <=> Here # "inert")

(* Both builds are measured with the same option.                          *)
KeepsTtl ==
    /\ pc = "set" => DOMAIN sut = {"sleep", "set"} /\ sut.set = 0
    /\ pc = "sleep" => sut.set = IF Here = "inert" THEN 0 ELSE Trials
    /\ build = "head" /\ "sleep" \in DOMAIN measured["base"] =>
          /\ pc \in {"set", "sleep"} => sut.sleep = measured["base"].sleep
          /\ out.end = "payload" /\ "sleep" \in DOMAIN out.says
                => out.says.sleep = measured["base"].sleep
          /\ measured["head"] # NotRun /\ "sleep" \in DOMAIN measured["head"]
                => measured["head"].sleep = measured["base"].sleep

FieldsV ==
    {"file", "temp", "writer", "seen", "killed", "orphan", "trial", "attempt", "fired",
     "valid", "firedTrials", "lockouts"}

(* Only the code with the defect leaves the file cut.                      *)
KeepsV ==
    LET labels == {"seed", "watch", "kill", "integrity"}
    IN  pc \in labels \/ (pc = "collect" /\ out.end # "prerequisite") =>
            /\ DOMAIN sut = FieldsV /\ sut.valid \in Int
            /\ Here # "defect" =>
                  /\ sut.lockouts = 0
                  /\ pc \in {"watch", "kill", "integrity"} => sut.file \in {"seed", "big"}

Keeps026E2e ==
    pc \in {"connect", "call", "settle", "close"} =>
        /\ DOMAIN sut = {"tool", "aborted", "signal", "observed", "log"}
        /\ sut.signal \in BOOLEAN
        /\ sut.signal => Here = "fixed"

(* The fixed code has aborted every request it had sent.                   *)
Keeps038E2e ==
    Probing =>
        /\ DOMAIN sut = {"trial", "acks", "chains", "aborts", "preSend",
                         "ack", "open", "cancelled", "request"}
        /\ Here = "fixed" => sut.aborts = sut.chains
        /\ Here = "inert" => sut.chains = 0 /\ sut.request = "none"
        /\ pc \in {"trial", "mock", "gateway", "connect"} => ~sut.ack /\ sut.request = "none"
        /\ pc = "chat" /\ Here = "fixed" =>
              sut.request = "none" \/ (sut.request = "held" /\ sut.ack)
        /\ pc \in {"wait", "shutdown"} /\ Here = "fixed" =>
              sut.request \in {"none", "cut"} /\ (sut.ack => sut.cancelled)

(* A trial that is over has failed at most once.                           *)
Keeps039E2e ==
    pc \in {"seed", "boot", "ready", "closing"} =>
        /\ DOMAIN sut = {"trial", "fire", "skip", "notReady", "log"}
        /\ sut.trial \in Nat /\ sut.notReady \in 0..sut.trial
        /\ sut.trial <= Trials
        /\ pc # "seed" => sut.trial < Trials

(* A trial that failed has nothing delivered: the stub still has it.       *)
Fields040E2e ==
    {"trial", "chains", "reaches", "leaks", "fixes", "preRace", "failed", "delivery",
     "lease", "bound", "unbound"}

Keeps040E2e ==
    Probing =>
        /\ DOMAIN sut = Fields040E2e
        /\ sut.trial \in Nat /\ sut.failed \in Nat
        /\ sut.reaches \in Nat /\ sut.chains \in Nat
        /\ sut.chains # 0 => sut.reaches # 0
        /\ sut.trial <= Trials /\ (pc # "trial" => sut.trial < Trials)
        /\ sut.bound => sut.delivery = "returned"
        /\ pc # "observe" /\ pc # "shutdown" => sut.delivery \in {"none", "parked"}
        /\ \/ sut.failed + sut.reaches <= sut.trial
           \/ /\ pc = "shutdown" /\ sut.delivery \in {"none", "parked"}
              /\ sut.failed + sut.reaches <= sut.trial + 1

KeepsCron ==
    pc \in {"add", "poll"} =>
        /\ DOMAIN sut = {"trial", "row", "lost"}
        /\ Here # "defect" => sut.row # "lost" /\ sut.lost = 0

KeepsInv ==
    /\ scenario = "030" => Keeps030
    /\ scenario = "031" => Keeps031
    /\ scenario = "032" => Keeps032
    /\ scenario = "033" => Keeps033
    /\ scenario = "037" => Keeps037
    /\ scenario = "038" => Keeps038
    /\ scenario = "039" => Keeps039
    /\ scenario = "040" => Keeps040
    /\ scenario = "045" => Keeps045
    /\ scenario = "047" => Keeps047
    /\ scenario = "048" => Keeps048
    /\ scenario = "049" => Keeps049
    /\ scenario \in {"050", "056"} => KeepsReplay
    /\ scenario = "053" => Keeps053
    /\ scenario = "mcp-pending-ttl" => KeepsTtl
    /\ scenario \in {V1, V2} => KeepsV
    /\ scenario = "026-e2e" => Keeps026E2e
    /\ scenario = "038-e2e" => Keeps038E2e
    /\ scenario = "039-e2e" => Keeps039E2e
    /\ scenario = "040-e2e" => Keeps040E2e
    /\ scenario = "cron-manual-run" => KeepsCron

-----------------------------------------------------------------------------
(* The scenarios whose probe is a temporary script.                        *)
ScriptScenarios == (InProbe \ {"gateway-map-size"}) \cup {"026-e2e"}

(* Only a probe that timed out leaves a process, and its proof is blocked. *)
LeftScript ==
    /\ left \subseteq {"script", "orphans"}
    /\ "script" \in left => Probing \/ pc = "collect"
    /\ "orphans" \in left => \/ pc = "collect" /\ out.end = "timeout"
                            \/ status = "blocked-env"
                            \/ \E b \in Builds : Bad(measured[b])

LeftV ==
    /\ left \subseteq {"scripts", "writer", "orphans"}
    /\ pc \in {"launch", "judge", "done"} => left \subseteq {"orphans"}
    /\ pc \in {"seed", "integrity", "collect"} => "writer" \notin left
    /\ pc = "collect" /\ out.end = "prerequisite" => left \subseteq {"orphans"}
    /\ pc # "collect" => out.end # "prerequisite"
    /\ pc = "watch" /\ sut.writer = "exited" => "writer" \notin left

Left039E2e ==
    /\ left \subseteq {"gateway", "logs"}
    /\ pc \notin {"boot", "ready", "closing"} => left = {}

Left038E2e ==
    /\ left \subseteq {"mock", "gateway", "probe", "logs", "orphans"}
    /\ pc \notin {"collect", "done"} => "orphans" \notin left
    /\ pc \in {"launch", "trial", "judge"} => left \subseteq {"logs"}
    /\ pc \in {"mock", "gateway", "shutdown"} => "probe" \notin left
    /\ pc = "collect" /\ out.end # "timeout" => left \subseteq {"logs"}
    /\ pc = "done" => left \subseteq {"logs"} \/ status = "blocked-env"

Left040E2e ==
    /\ left \subseteq {"gateway", "probe", "logs", "orphans"}
    /\ pc \notin {"collect", "done"} => "orphans" \notin left
    /\ pc \in {"launch", "trial", "judge"} => left \subseteq {"logs"}
    /\ pc \in {"boot", "shutdown"} => "probe" \notin left
    /\ pc = "collect" /\ out.end # "timeout" => left \subseteq {"logs"}
    /\ pc = "done" => left \subseteq {"logs"} \/ status = "blocked-env"

LeftInv ==
    /\ scenario \in ScriptScenarios => LeftScript
    /\ scenario \in {"gateway-map-size", "cron-manual-run"} => left = {}
    /\ scenario \in {V1, V2} => LeftV
    /\ scenario = "039-e2e" => Left039E2e
    /\ scenario = "038-e2e" => Left038E2e
    /\ scenario = "040-e2e" => Left040E2e

ScenarioInv == RunInv /\ KeepsInv /\ LeftInv

-----------------------------------------------------------------------------
(* The steps of the frame.  Every step of every scenario is one of them.   *)
Frame == <<given, build, out, measured, status>>
Running == pc \notin {"collect", "judge", "done", "killed"}

Moves ==
    /\ pc' = pc \/ (Running /\ pc' \notin {"launch", "collect", "judge", "done"})
    /\ UNCHANGED Frame

Ends ==
    /\ Running /\ pc' = "collect"
    /\ out'.end = "payload" => Tells(scenario, out'.says, Here)
    /\ scenario = "cron-manual-run" => out'.end \in {"timeout", "payload"}
    /\ UNCHANGED <<given, build, measured, status>>

Returns ==
    /\ pc = "collect"
    /\ Tells(scenario, measured'[build], Here)
    /\ measured' = [measured EXCEPT ![build] = measured'[build]]
    /\ IF mode = "post-sol" /\ build = "base"
       THEN build' = "head" /\ pc' = "launch"
       ELSE build' = build /\ pc' = "judge"
    /\ out' = Ended("running")
    /\ UNCHANGED <<given, status>>

Raises ==
    /\ pc = "collect" /\ pc' = "done"
    /\ status' = "blocked-env"
    /\ UNCHANGED <<given, build, out, measured>>

Judges ==
    /\ pc = "judge" /\ pc' = "done"
    /\ status' \in Statuses /\ Sound'
    /\ UNCHANGED <<given, build, out, left, measured>>

FrameStep == Moves \/ Ends \/ Returns \/ Raises \/ Judges

(* A status is given once, and what it rests on does not change.           *)
LEMMA SoundStays ==
  ASSUME Sound, UNCHANGED <<given, measured, status>>,
         pc' = "done" => pc = "done"
  PROVE  Sound'
BY DEF Sound, given, CollectedShowsDefect, CollectedExcludesDefect, CollectedShowsFix,
       BuildsAreConfirmed, FailuresAreNotVerdicts, Collected, HasPayload, BadBlocks

(* A run without a status has claimed nothing.                             *)
LEMMA PendingSound ==
  ASSUME status' = "pending", pc' # "done"
  PROVE  Sound'
BY DEF Sound, CollectedShowsDefect, CollectedExcludesDefect, CollectedShowsFix,
       BuildsAreConfirmed, FailuresAreNotVerdicts, Collected, BadBlocks

(* What the frame has to do with the verdicts, each of its steps           *)
(* preserves.                                                              *)
LEMMA FrameKept ==
  ASSUME RunInv, FrameStep
  PROVE  RunInv'
<1> USE DEF RunInv
<1>1. CASE Moves
  <2>1. UNCHANGED Frame
    BY <1>1 DEF Moves
  <2>2. UNCHANGED <<scenario, mode, truth, build, out, measured, status>>
    BY <2>1 DEF Frame, given
  <2>3. (pc' = "done") <=> (pc = "done")
    BY <1>1 DEF Moves, Running
  <2>4. Types' /\ Sound'
    BY <2>2, <2>3, SoundStays DEF Types, given
  <2>5. MeasuredInOrder'
    BY <1>1, <2>2 DEF MeasuredInOrder, Moves, Running
  <2>6. MeasuredTells'
    <3>1. pc' = "collect" => pc = "collect"
      BY <1>1 DEF Moves
    <3>2. QED
      BY <2>2, <3>1 DEF MeasuredTells, Here
  <2>7. QED
    BY <2>4, <2>5, <2>6
<1>2. CASE Ends
  <2>1. UNCHANGED <<scenario, mode, truth, build, measured, status>>
    BY <1>2 DEF Ends, given
  <2>2. Running /\ pc' = "collect" /\ pc # "done" /\ pc # "judge"
    BY <1>2 DEF Ends, Running
  <2>3. Types' /\ Sound'
    BY <2>1, <2>2, SoundStays DEF Types, given
  <2>4. MeasuredInOrder'
    BY <2>1, <2>2 DEF MeasuredInOrder
  <2>5. MeasuredTells'
    BY <1>2, <2>1, <2>2 DEF MeasuredTells, Ends, Here
  <2>6. QED
    BY <2>3, <2>4, <2>5
<1>3. CASE Returns
  <2>1. UNCHANGED <<scenario, mode, truth, status>> /\ pc = "collect"
    BY <1>3 DEF Returns, given
  <2>2. build \in Builds /\ DOMAIN measured = Builds
    BY DEF Types
  <2>3. /\ DOMAIN measured' = Builds
        /\ \A b \in Builds \ {build} : measured'[b] = measured[b]
    BY <1>3, <2>2 DEF Returns
  <2>4. measured'[build] # NotRun /\ Tells(scenario, measured'[build], Here)
    BY <1>3 DEF Returns, Tells
  <2>5. \/ build = "base" /\ mode = "post-sol" /\ build' = "head" /\ pc' = "launch"
        \/ ~(build = "base" /\ mode = "post-sol") /\ build' = build /\ pc' = "judge"
    BY <1>3 DEF Returns
  <2>6. Types'
    BY <2>1, <2>2, <2>3, <2>5 DEF Types, Builds
  <2>7. Sound'
    BY <2>1, <2>5, PendingSound DEF Types
  <2>8. MeasuredInOrder'
    BY <2>1, <2>2, <2>3, <2>4, <2>5 DEF MeasuredInOrder, Builds
  <2>9. MeasuredTells'
    <3>1. out'.end = "running" /\ pc' # "collect"
      BY <1>3, <2>5 DEF Returns, Ended
    <3>2. \A b \in Builds : measured'[b] # NotRun => Tells(scenario, measured'[b], truth[b])
      BY <2>3, <2>4 DEF MeasuredTells, Here
    <3>3. QED
      BY <2>1, <3>1, <3>2 DEF MeasuredTells, Here
  <2>10. QED
    BY <2>6, <2>7, <2>8, <2>9
<1>4. CASE Raises
  <2>1. UNCHANGED <<scenario, mode, truth, build, out, measured>>
    BY <1>4 DEF Raises, given
  <2>2. pc = "collect" /\ pc' = "done" /\ status' = "blocked-env"
    BY <1>4 DEF Raises
  <2>3. Types'
    BY <2>1, <2>2 DEF Types, Statuses
  <2>4. MeasuredInOrder' /\ MeasuredTells'
    BY <2>1, <2>2 DEF MeasuredInOrder, MeasuredTells, Here
  <2>5. measured[build] = NotRun /\ (build = "head" => mode = "post-sol")
    BY <2>2 DEF MeasuredInOrder
  <2>6. BuildsAreConfirmed'
    BY <2>1, <2>5 DEF BuildsAreConfirmed, HasPayload, Types, Builds
  <2>7. Sound'
    BY <2>2, <2>6 DEF Sound, CollectedShowsDefect, CollectedExcludesDefect,
          CollectedShowsFix, FailuresAreNotVerdicts, Collected, BadBlocks
  <2>8. QED
    BY <2>3, <2>4, <2>7
<1>5. CASE Judges
  <2>1. UNCHANGED <<scenario, mode, truth, build, out, measured>>
    BY <1>5 DEF Judges, given
  <2>2. pc = "judge" /\ pc' = "done" /\ status' \in Statuses /\ Sound'
    BY <1>5 DEF Judges
  <2>3. Types'
    BY <2>1, <2>2 DEF Types, Statuses
  <2>4. MeasuredInOrder' /\ MeasuredTells'
    BY <2>1, <2>2 DEF MeasuredInOrder, MeasuredTells, Here
  <2>5. QED
    BY <2>2, <2>3, <2>4
<1>6. QED
  BY <1>1, <1>2, <1>3, <1>4, <1>5 DEF FrameStep

-----------------------------------------------------------------------------
(* Scenarios with a script take these steps.                               *)
Stays == pc' \notin FrameLabels /\ UNCHANGED <<scenario, truth, build>>
Leaves == pc' \in FrameLabels /\ UNCHANGED <<scenario, truth, build>>

ScriptStep ==
    \/ /\ Moves /\ Probing'
       /\ left' = left \/ (pc = "launch" /\ left' = left \cup {"script"})
    \/ Ends /\ UNCHANGED left
    \/ Ends /\ out'.end = "timeout" /\ left' = left \cup {"orphans"}
    \/ LastLine(scenario) \/ MarkedLine(scenario)
    \/ Judges

(* The steps the scenarios with a script are made of.                      *)
LEMMA LaunchIsStep ==
  ASSUME NEW s, NEW first, NEW fresh, first \notin FrameLabels,
         Launch(s, first, fresh)
  PROVE  scenario = s /\ pc = "launch" /\ pc' = first /\ sut' = fresh /\ Stays /\ ScriptStep
BY DEF Launch, Act, At, Stays, ScriptStep, Moves, Running, Frame, given, Probing, FrameLabels

(* A step inside the probe.                                                *)
LEMMA StepIsStep ==
  ASSUME NEW s, NEW from, NEW to, NEW next, from \notin FrameLabels, to \notin FrameLabels,
         Step(s, from, to, next)
  PROVE  scenario = s /\ pc = from /\ pc' = to /\ sut' = next /\ Stays /\ ScriptStep
BY DEF Step, Act, At, Stays, ScriptStep, Moves, Running, Frame, given, Probing, FrameLabels

(* The end of a probe.                                                     *)
LEMMA ExitIsStep ==
  ASSUME NEW s, NEW from, NEW how, from \notin FrameLabels, s # "cron-manual-run",
         how.end = "payload" => Tells(s, how.says, Here),
         Exit(s, from, how)
  PROVE  scenario = s /\ pc = from /\ pc' = "collect" /\ out' = how /\ Leaves /\ ScriptStep
BY DEF Exit, At, Leaves, ScriptStep, Ends, Running, Frame, given, Probing, FrameLabels

(* A report is such a step when what it tells has its meaning.             *)
LEMMA ReportIsStep ==
  ASSUME NEW s, NEW from, NEW payload, from \notin FrameLabels, s # "cron-manual-run",
         Report(s, from, payload)
  PROVE  /\ scenario = s /\ pc = from /\ pc' = "collect" /\ Leaves
         /\ out'.says = payload
         /\ Tells(s, out'.says, Here) => ScriptStep
<1>1. Exit(s, from, Printed(payload))
  BY DEF Report
<1>2. Printed(payload).says = payload /\ out' = Printed(payload)
  BY <1>1 DEF Printed, Exit
<1>3. scenario = s /\ pc = from /\ pc' = "collect" /\ Leaves
  BY <1>1 DEF Exit, At, Leaves, given, FrameLabels
<1>4. Tells(s, out'.says, Here) => ScriptStep
  BY <1>1, <1>2, ExitIsStep
<1>5. QED
  BY <1>2, <1>3, <1>4

(* A probe that skips tells nothing.                                       *)
LEMMA SkipIsStep ==
  ASSUME NEW s, NEW from, from \notin FrameLabels, s # "cron-manual-run", Skip(s, from)
  PROVE  scenario = s /\ pc = from /\ pc' = "collect" /\ Leaves /\ ScriptStep
<1>1. Exit(s, from, Ended("skipped")) /\ Ended("skipped").end # "payload"
  BY DEF Skip, Ended
<1>2. QED
  BY <1>1, ExitIsStep

(* There is a truth about the code of the build.                           *)
LEMMA HereIsTruth ==
  ASSUME RunInv
  PROVE  Here \in Truths
BY DEF RunInv, Types, Here

(* A probe that failed or did not run tells nothing, in any scenario.      *)
LEMMA FailedTells ==
  ASSUME NEW s, NEW t, s # "cron-manual-run"
  PROVE  Tells(s, Failed, t) /\ Tells(s, NoTrials, t)
BY TrialsAssumption DEF Tells, Failed, NoTrials, NotRun, Bad

(* The return of run_scenario, in both families.                           *)
LEMMA ReturnIsStep ==
  ASSUME NEW s, LastLine(s) \/ MarkedLine(s)
  PROVE  scenario = s /\ pc = "collect" /\ pc' \in FrameLabels /\ ScriptStep
BY DEF LastLine, MarkedLine, Return, Raise, At, ScriptStep, FrameLabels

Verdicts == {"collected", "unreproducible"}

(* What makes a verdict on one build, or on two, sound.                    *)
SoundPre(s, verdict) ==
    /\ verdict \in Statuses
    /\ Bad(Before) => verdict = "blocked-env"
    /\ verdict \in Verdicts /\ s \in DropFailures => Before.failed < Before.trials
    /\ verdict = "collected" /\ s \notin CollectWithoutDefect("pre-sol")
           => truth["base"] = "defect"
    /\ s \notin DependOnTiming /\ truth["base"] = "defect" /\ ~Bad(Before)
           => verdict = "collected"

SoundPost(s, verdict) ==
    /\ verdict \in Statuses
    /\ Bad(Before) \/ Bad(After) => verdict = "blocked-env"
    /\ verdict \in Verdicts /\ s \in DropFailures =>
          Before.failed < Before.trials /\ After.failed < After.trials
    /\ verdict = "collected" =>
          /\ s \notin CollectWithoutDefect("post-sol") => truth["base"] = "defect"
          /\ s \notin DependOnTiming => truth["head"] # "defect"
          /\ s \notin DependOnTiming \cup CollectInertHead => truth["head"] = "fixed"
    /\ /\ s \notin DependOnTiming /\ s \notin BlindToFixes
       /\ truth["base"] = "defect" /\ truth["head"] = "fixed"
       /\ ~Bad(Before) /\ ~Bad(After)
       => verdict = "collected"

TellBefore(s) == truth["base"] \in Truths /\ Tells(s, Before, truth["base"])
TellBoth(s) ==
    TellBefore(s) /\ truth["head"] \in Truths /\ Tells(s, After, truth["head"])

(* A build that was not run is not one that failed.                        *)
LEMMA NotRunIsNotBad == ~Bad(NotRun)
BY DEF Bad, NotRun

(* A verdict that is sound whatever was measured gives a sound status.     *)
LEMMA JudgeIsStep ==
  ASSUME RunInv, NEW s, NEW pre, NEW post, Judge(s, pre, post),
         scenario = s /\ TellBefore(s) => SoundPre(s, pre),
         scenario = s /\ TellBoth(s) => SoundPost(s, post)
  PROVE  scenario = s /\ pc = "judge" /\ Leaves /\ Judges
<1>1. /\ scenario = s /\ pc = "judge" /\ pc' = "done"
      /\ status' = IF mode = "pre-sol" THEN pre ELSE post
      /\ UNCHANGED <<scenario, mode, truth, build, out, left, measured>>
  BY DEF Judge, At, given
<1>2. mode \in Modes /\ measured[build] # NotRun /\ build \in Builds
  BY <1>1 DEF RunInv, Types, MeasuredInOrder
<1>3. measured["base"] # NotRun /\ TellBefore(s)
  BY <1>1, <1>2 DEF RunInv, Types, MeasuredInOrder, MeasuredTells, TellBefore, Before, Builds
<1>4. mode = "post-sol" => measured["head"] # NotRun /\ TellBoth(s)
  BY <1>1, <1>2, <1>3 DEF RunInv, Types, MeasuredInOrder, MeasuredTells, TellBoth, After, Builds
<1>5. status' \in Statuses /\ Sound'
  <2>1. CASE mode = "pre-sol"
    <3>1. status' = pre /\ SoundPre(s, pre) /\ mode' # "post-sol"
      BY <1>1, <1>3, <2>1
    <3>2. CollectedShowsDefect' /\ BuildsAreConfirmed'
      BY <1>1, <2>1, <3>1 DEF SoundPre, CollectedShowsDefect, BuildsAreConfirmed,
            Collected, HasPayload, CollectWithoutDefect, Before
    <3>3. CollectedExcludesDefect' /\ CollectedShowsFix'
      BY <3>1 DEF CollectedExcludesDefect, CollectedShowsFix
    <3>4. FailuresAreNotVerdicts'
      BY <1>1, <1>3, <2>1, <3>1
         DEF SoundPre, FailuresAreNotVerdicts, HasPayload, Before, Verdicts
    <3>5. measured["head"] = NotRun
      BY <1>1, <1>2, <2>1 DEF RunInv, MeasuredInOrder, Builds
    <3>6. BadBlocks'
      BY <1>1, <3>1, <3>5, NotRunIsNotBad DEF SoundPre, BadBlocks, Before, Builds
    <3>7. QED
      BY <3>1, <3>2, <3>3, <3>4, <3>6 DEF SoundPre, Sound
  <2>2. CASE mode = "post-sol"
    <3>1. status' = post /\ SoundPost(s, post)
      BY <1>1, <1>4, <2>2
    <3>2. CollectedShowsDefect' /\ BuildsAreConfirmed'
      BY <1>1, <2>2, <3>1 DEF SoundPost, CollectedShowsDefect, BuildsAreConfirmed,
            Collected, HasPayload, CollectWithoutDefect, Before, After
    <3>3. CollectedExcludesDefect' /\ CollectedShowsFix'
      BY <1>1, <2>2, <3>1 DEF SoundPost, CollectedExcludesDefect, CollectedShowsFix, Collected
    <3>4. FailuresAreNotVerdicts'
      BY <1>1, <1>3, <1>4, <2>2, <3>1
         DEF SoundPost, FailuresAreNotVerdicts, HasPayload, Before, After, Builds, Verdicts
    <3>5. BadBlocks'
      BY <1>1, <3>1 DEF SoundPost, BadBlocks, Before, After, Builds
    <3>6. QED
      BY <3>1, <3>2, <3>3, <3>4, <3>5 DEF SoundPost, Sound
  <2>3. QED
    BY <1>2, <2>1, <2>2 DEF Modes
<1>6. QED
  BY <1>1, <1>5 DEF Judges, Leaves, FrameLabels, given

-----------------------------------------------------------------------------
(* The memory of the code with the defect runs ahead of its row in both    *)
(* mutations; that of other code in none.                                  *)
LEMMA Steps047 ==
  ASSUME RunInv, KeepsInv, Scenario047
  PROVE  scenario = "047" /\ ScriptStep /\ Keeps047'
<1> USE DEF Stays, Leaves, FrameLabels
<1>1. CASE Launch("047", "delete", Fresh047)
  BY <1>1, LaunchIsStep DEF Keeps047, Fresh047
<1>2. CASE LastLine("047")
  BY <1>2, ReturnIsStep DEF Keeps047
<1>3. CASE Delete047
  <2>1. /\ scenario = "047" /\ pc = "delete" /\ pc' = "reload" /\ sut' = Mutate047("gone")
        /\ Stays /\ ScriptStep
    BY <1>3, StepIsStep DEF Delete047
  <2>2. QED
    BY <2>1 DEF KeepsInv, Keeps047, Mutate047, ThrowingStore047, Here
<1>4. CASE Reload047
  <2>1. /\ scenario = "047" /\ pc = "reload" /\ pc' = "update" /\ Stays /\ ScriptStep
        /\ sut' = [Fresh047 EXCEPT
                     !.diverged = sut.diverged +
                                  IF sut.mem = "gone" /\ sut.row = "old" THEN 1 ELSE 0,
                     !.resurrected = IF sut.row = "old" THEN 1 ELSE 0]
    BY <1>4, StepIsStep DEF Reload047
  <2>2. QED
    BY <2>1 DEF KeepsInv, Keeps047, Fresh047, Here
<1>5. CASE Update047
  <2>1. /\ scenario = "047" /\ pc = "update" /\ pc' = "count" /\ sut' = Mutate047("new")
        /\ Stays /\ ScriptStep
    BY <1>5, StepIsStep DEF Update047
  <2>2. QED
    BY <2>1 DEF KeepsInv, Keeps047, Mutate047, ThrowingStore047, Here
<1>6. CASE Count047
  <2>1. scenario = "047" /\ pc = "count"
    BY <1>6 DEF Count047, Report, Exit, At
  <2>2. Tells("047", [trials |-> 2, resurrected |-> sut.resurrected,
                      diverged |-> sut.diverged +
                         IF sut.mem = "new" /\ sut.row = "old" THEN 1 ELSE 0], Here)
    BY <2>1 DEF KeepsInv, Keeps047, Tells, NotRun, Means, Means047, V1, V2, Here
  <2>3. QED
    BY <1>6, <2>2, ReportIsStep DEF Count047, Keeps047
<1>7. CASE Judge("047", Pre047(Before), Post047(Before, After))
  <2>1. TellBefore("047") => SoundPre("047", Pre047(Before))
    BY DEF TellBefore, Tells, Means, Means047, Pre047, Verdict, SoundPre, Verdicts,
           DropFailures, Statuses,
           CollectWithoutDefect, DependOnTiming, V1, V2
  <2>2. TellBoth("047") => SoundPost("047", Post047(Before, After))
    BY DEF TellBoth, TellBefore, Tells, Means, Means047, Post047, Verdict, SoundPost, Verdicts,
           DropFailures, Statuses,
           CollectWithoutDefect, DependOnTiming, CollectInertHead, BlindToFixes, V1, V2
  <2>3. QED
    BY <1>7, <2>1, <2>2, JudgeIsStep DEF ScriptStep, Keeps047
<1>8. QED
  BY <1>1, <1>2, <1>3, <1>4, <1>5, <1>6, <1>7 DEF Scenario047, Run047

(* The handler gets the signal exactly from the fixed code, and is not     *)
(* called by code that is inert.                                           *)
LEMMA Steps026 ==
  ASSUME RunInv, KeepsInv, Scenario026
  PROVE  scenario = "026" /\ ScriptStep
<1> USE DEF Stays, Leaves, FrameLabels
<1>1. CASE Launch("026", "handlers", Idle)
  BY <1>1, LaunchIsStep
<1>2. CASE LastLine("026")
  BY <1>2, ReturnIsStep
<1>3. CASE Skip("026", "handlers")
  BY <1>3, SkipIsStep
<1>4. CASE Step("026", "handlers", "call", sut)
  <2>1. /\ scenario = "026" /\ pc = "handlers" /\ pc' = "call"
        /\ Stays /\ ScriptStep
    BY <1>4, StepIsStep
  <2>2. QED
    BY <2>1
<1>5. CASE Report("026", "call", Failed)
  BY <1>5, ReportIsStep, FailedTells
<1>6. CASE Report("026", "call",
              [trials |-> Trials, invoked |-> IF Here = "inert" THEN 0 ELSE 1,
               received |-> Here = "fixed", same |-> Here = "fixed"])
  <2>1. scenario = "026" /\ pc = "call" /\ pc' = "collect" /\ Leaves
    BY <1>6, ReportIsStep
  <2>2. Tells("026", out'.says, Here)
    BY <1>6, <2>1, TrialsAssumption, HereIsTruth
       DEF Report, Exit, Printed, KeepsInv, Here, Truths, Tells, NotRun,
           Means, Means026, V1, V2
  <2>3. QED
    BY <1>6, <2>1, <2>2, ReportIsStep
<1>7. CASE Judge("026", Pre026(Before), Post026(Before, After))
  <2>1. TellBefore("026") => SoundPre("026", Pre026(Before))
    BY TrialsAssumption
       DEF TellBefore, Tells, Means, Means026, Pre026, Verdict, SoundPre, Verdicts, DropFailures,
           Statuses, CollectWithoutDefect, DependOnTiming, V1, V2, Truths
  <2>2. TellBoth("026") => SoundPost("026", Post026(Before, After))
    BY TrialsAssumption
       DEF TellBoth, TellBefore, Tells, Means, Means026, Post026, Verdict,
           SoundPost, Verdicts, DropFailures, Statuses, CollectWithoutDefect, DependOnTiming,
           CollectInertHead, BlindToFixes, V1, V2, Truths
  <2>3. QED
    BY <1>7, <2>1, <2>2, JudgeIsStep DEF ScriptStep
<1>8. QED
  BY <1>1, <1>2, <1>3, <1>4, <1>5, <1>6, <1>7
     DEF Scenario026, Run026, Handlers026, CallTool026

(* Only the code with the defect leaves the marker of the run behind.      *)
LEMMA Steps030 ==
  ASSUME RunInv, KeepsInv, Scenario030
  PROVE  scenario = "030" /\ ScriptStep /\ Keeps030'
<1> USE DEF Stays, Leaves, FrameLabels
<1>1. CASE Instrument030
  BY <1>1, LaunchIsStep DEF Instrument030, Keeps030
<1>2. CASE Install030
  <2>1. /\ scenario = "030" /\ pc = "install" /\ pc' = "terminate"
        /\ Stays /\ ScriptStep
    BY <1>2, StepIsStep DEF Install030
  <2>2. QED
    BY <1>2, <2>1 DEF Install030, Step, Act, KeepsInv, Keeps030, Here
<1>3. CASE Terminate030
  <2>1. scenario = "030" /\ pc = "terminate" /\ pc' = "collect" /\ Leaves
    BY <1>3, ReportIsStep DEF Terminate030
  <2>2. Tells("030", out'.says, Here)
    BY <1>3, <2>1, TrialsAssumption, HereIsTruth
       DEF Terminate030, Report, Exit, Printed, KeepsInv, Keeps030, Here,
           Truths, Tells, NotRun, Means, Means030, V1, V2
  <2>3. QED
    BY <1>3, <2>1, <2>2, ReportIsStep DEF Terminate030, Keeps030
<1>4. CASE Run030
  BY <1>4, ReturnIsStep DEF Run030, Keeps030
<1>5. CASE Judge("030", Pre030(Before), Post030(Before, After))
  <2>1. TellBefore("030") => SoundPre("030", Pre030(Before))
    BY TrialsAssumption
       DEF TellBefore, Tells, Means, Means030, Pre030, Verdict, SoundPre, Verdicts, DropFailures,
           Statuses, CollectWithoutDefect, DependOnTiming, V1, V2, Truths
  <2>2. TellBoth("030") => SoundPost("030", Post030(Before, After))
    BY TrialsAssumption
       DEF TellBoth, TellBefore, Tells, Means, Means030, Post030, Verdict,
           SoundPost, Verdicts, DropFailures, Statuses, CollectWithoutDefect, DependOnTiming,
           CollectInertHead, BlindToFixes, V1, V2, Truths
  <2>3. QED
    BY <1>5, <2>1, <2>2, JudgeIsStep DEF ScriptStep, Keeps030
<1>6. QED
  BY <1>1, <1>2, <1>3, <1>4, <1>5 DEF Scenario030

(* Every trial on the code with the defect ends in a rejection that nobody *)
(* handles, and no other does.                                             *)
LEMMA Steps032 ==
  ASSUME RunInv, KeepsInv, Scenario032
  PROVE  scenario = "032" /\ ScriptStep /\ Keeps032'
<1> USE DEF Stays, Leaves, FrameLabels
<1>1. CASE Instrument032
  BY <1>1, LaunchIsStep DEF Instrument032, Keeps032
<1>2. CASE Queue032
  <2>1. /\ scenario = "032" /\ pc = "queue" /\ pc' = "queue"
        /\ Stays /\ ScriptStep
    BY <1>2, StepIsStep DEF Queue032
  <2>2. QED
    BY <1>2, <2>1 DEF Queue032, Step, Act, KeepsInv, Keeps032, Here
<1>3. CASE Grace032
  <2>1. scenario = "032" /\ pc = "queue" /\ pc' = "collect" /\ Leaves
    BY <1>3, ReportIsStep DEF Grace032
  <2>2. Tells("032", out'.says, Here)
    BY <1>3, <2>1, TrialsAssumption, HereIsTruth
       DEF Grace032, Report, Exit, Printed, KeepsInv, Keeps032, Here, Truths,
           Tells, NotRun, Means, Means032, V1, V2
  <2>3. QED
    BY <1>3, <2>1, <2>2, ReportIsStep DEF Grace032, Keeps032
<1>4. CASE Run032
  BY <1>4, ReturnIsStep DEF Run032, Keeps032
<1>5. CASE Judge("032", Pre032(Before), Post032(Before, After))
  <2>1. TellBefore("032") => SoundPre("032", Pre032(Before))
    BY TrialsAssumption
       DEF TellBefore, Tells, Means, Means032, Pre032, Verdict, SoundPre, Verdicts, DropFailures,
           Statuses, CollectWithoutDefect, DependOnTiming, V1, V2, Truths
  <2>2. TellBoth("032") => SoundPost("032", Post032(Before, After))
    BY TrialsAssumption
       DEF TellBoth, TellBefore, Tells, Means, Means032, Post032, Verdict,
           SoundPost, Verdicts, DropFailures, Statuses, CollectWithoutDefect, DependOnTiming,
           CollectInertHead, BlindToFixes, V1, V2, Truths
  <2>3. QED
    BY <1>5, <2>1, <2>2, JudgeIsStep DEF ScriptStep, Keeps032
<1>6. QED
  BY <1>1, <1>2, <1>3, <1>4, <1>5 DEF Scenario032

(* The control trial and the lockout only show whether the code writes at  *)
(* all.                                                                    *)
LEMMA Steps045 ==
  ASSUME RunInv, KeepsInv, Scenario045
  PROVE  scenario = "045" /\ ScriptStep /\ Keeps045'
<1> USE DEF Stays, Leaves, FrameLabels
<1>1. CASE Launch("045", "control", Idle)
  BY <1>1, LaunchIsStep DEF Keeps045
<1>2. CASE LastLine("045")
  BY <1>2, ReturnIsStep DEF Keeps045
<1>3. CASE Control045
  <2>1. /\ scenario = "045" /\ pc = "control" /\ pc' = "crash"
        /\ Stays /\ ScriptStep
    BY <1>3, StepIsStep DEF Control045
  <2>2. QED
    BY <1>3, <2>1 DEF Control045, Step, Act, KeepsInv, Keeps045, Here
<1>4. CASE Crash045
  <2>1. scenario = "045" /\ pc = "crash" /\ pc' = "collect" /\ Leaves
    BY <1>4, ReportIsStep DEF Crash045
  <2>2. Tells("045", out'.says, Here)
    BY <1>4, <2>1, TrialsAssumption, HereIsTruth
       DEF Crash045, Report, Exit, Printed, KeepsInv, Keeps045, Here, Truths,
           Tells, NotRun, Means, Means045, V1, V2
  <2>3. QED
    BY <1>4, <2>1, <2>2, ReportIsStep DEF Crash045, Keeps045
<1>5. CASE Judge("045", Pre045(Before), Post045(Before, After))
  <2>1. TellBefore("045") => SoundPre("045", Pre045(Before))
    BY TrialsAssumption
       DEF TellBefore, Tells, Means, Means045, Pre045, Verdict, SoundPre, Verdicts, DropFailures,
           Statuses, CollectWithoutDefect, DependOnTiming, V1, V2, Truths
  <2>2. TellBoth("045") => SoundPost("045", Post045(Before, After))
    BY TrialsAssumption
       DEF TellBoth, TellBefore, Tells, Means, Means045, Post045, Verdict,
           SoundPost, Verdicts, DropFailures, Statuses, CollectWithoutDefect, DependOnTiming,
           CollectInertHead, BlindToFixes, V1, V2, Truths
  <2>3. QED
    BY <1>5, <2>1, <2>2, JudgeIsStep DEF ScriptStep, Keeps045
<1>6. QED
  BY <1>1, <1>2, <1>3, <1>4, <1>5 DEF Scenario045, Run045

(* Only the code with the defect replaces the target, and only the fixed   *)
(* code warns.                                                             *)
LEMMA Steps049 ==
  ASSUME RunInv, KeepsInv, Scenario049
  PROVE  scenario = "049" /\ ScriptStep /\ Keeps049'
<1> USE DEF Stays, Leaves, FrameLabels
<1>1. CASE Launch("049", "layout", Idle)
  BY <1>1, LaunchIsStep DEF Keeps049
<1>2. CASE LastLine("049")
  BY <1>2, ReturnIsStep DEF Keeps049
<1>3. CASE Layout049
  <2>1. /\ scenario = "049" /\ pc = "layout" /\ pc' = "migrate"
        /\ Stays /\ ScriptStep
    BY <1>3, StepIsStep DEF Layout049
  <2>2. QED
    BY <1>3, <2>1 DEF Layout049, Step, Act, KeepsInv, Keeps049, Here
<1>4. CASE Migrate049
  <2>1. /\ scenario = "049" /\ pc = "migrate" /\ pc' = "observe"
        /\ Stays /\ ScriptStep
    BY <1>4, StepIsStep DEF Migrate049
  <2>2. QED
    BY <1>4, <2>1 DEF Migrate049, Step, Act, KeepsInv, Keeps049, Here
<1>5. CASE Observe049
  <2>1. scenario = "049" /\ pc = "observe" /\ pc' = "collect" /\ Leaves
    BY <1>5, ReportIsStep DEF Observe049
  <2>2. Tells("049", out'.says, Here)
    BY <1>5, <2>1, TrialsAssumption, HereIsTruth
       DEF Observe049, Report, Exit, Printed, KeepsInv, Keeps049, Here,
           Truths, Tells, NotRun, Means, Means049, V1, V2
  <2>3. QED
    BY <1>5, <2>1, <2>2, ReportIsStep DEF Observe049, Keeps049
<1>6. CASE Judge("049", Pre049(Before), Post049(Before, After))
  <2>1. TellBefore("049") => SoundPre("049", Pre049(Before))
    BY TrialsAssumption
       DEF TellBefore, Tells, Means, Means049, Pre049, Verdict, SoundPre, Verdicts, DropFailures,
           Statuses, CollectWithoutDefect, DependOnTiming, V1, V2, Truths,
           Bad049
  <2>2. TellBoth("049") => SoundPost("049", Post049(Before, After))
    BY TrialsAssumption
       DEF TellBoth, TellBefore, Tells, Means, Means049, Post049, Verdict,
           SoundPost, Verdicts, DropFailures, Statuses, CollectWithoutDefect, DependOnTiming,
           CollectInertHead, BlindToFixes, V1, V2, Truths, Bad049
  <2>3. QED
    BY <1>6, <2>1, <2>2, JudgeIsStep DEF ScriptStep, Keeps049
<1>7. QED
  BY <1>1, <1>2, <1>3, <1>4, <1>5, <1>6 DEF Scenario049, Run049

(* The fixed code stays within its attempts and inert code makes no call,  *)
(* whenever the window closes.                                             *)
LEMMA Steps031 ==
  ASSUME RunInv, KeepsInv, Scenario031
  PROVE  scenario = "031" /\ ScriptStep /\ Keeps031'
<1> USE DEF Stays, Leaves, FrameLabels
<1>1. CASE Launch("031", "observe", [calls |-> 0])
  BY <1>1, LaunchIsStep DEF Keeps031, MaxAttempts031
<1>2. CASE LastLine("031")
  BY <1>2, ReturnIsStep DEF Keeps031
<1>3. CASE Drain031
  <2>1. /\ scenario = "031" /\ pc = "observe" /\ pc' = "observe"
        /\ Stays /\ ScriptStep
    BY <1>3, StepIsStep DEF Drain031
  <2>2. QED
    BY <1>3, <2>1
       DEF Drain031, Step, Act, KeepsInv, Keeps031, Here, MaxAttempts031
<1>4. CASE Window031
  <2>1. scenario = "031" /\ pc = "observe" /\ pc' = "collect" /\ Leaves
    BY <1>4, ReportIsStep DEF Window031
  <2>2. Tells("031", out'.says, Here)
    BY <1>4, <2>1, TrialsAssumption, HereIsTruth
       DEF Window031, Report, Exit, Printed, KeepsInv, Keeps031, Here, Truths,
           Tells, NotRun, Means, Means031, V1, V2
  <2>3. QED
    BY <1>4, <2>1, <2>2, ReportIsStep DEF Window031, Keeps031
<1>5. CASE Judge("031", Pre031(Before), Post031(Before, After))
  <2>1. TellBefore("031") => SoundPre("031", Pre031(Before))
    BY TrialsAssumption
       DEF TellBefore, Tells, Means, Means031, Pre031, Verdict, SoundPre, Verdicts, DropFailures,
           Statuses, CollectWithoutDefect, DependOnTiming, V1, V2, Truths,
           MaxAttempts031
  <2>2. TellBoth("031") => SoundPost("031", Post031(Before, After))
    BY TrialsAssumption
       DEF TellBoth, TellBefore, Tells, Means, Means031, Post031, Verdict,
           SoundPost, Verdicts, DropFailures, Statuses, CollectWithoutDefect, DependOnTiming,
           CollectInertHead, BlindToFixes, V1, V2, Truths, MaxAttempts031
  <2>3. QED
    BY <1>5, <2>1, <2>2, JudgeIsStep DEF ScriptStep, Keeps031
<1>6. QED
  BY <1>1, <1>2, <1>3, <1>4, <1>5 DEF Scenario031, Run031

(* Only the code with the defect drains the queue of sender Y after the    *)
(* clear.                                                                  *)
LEMMA Steps033 ==
  ASSUME RunInv, KeepsInv, Scenario033
  PROVE  scenario = "033" /\ ScriptStep /\ Keeps033'
<1> USE DEF Stays, Leaves, FrameLabels
<1>1. CASE Launch("033", "trial", [trial |-> 0, leaks |-> 0])
  BY <1>1, LaunchIsStep DEF Keeps033
<1>2. CASE LastLine("033")
  BY <1>2, ReturnIsStep DEF Keeps033
<1>3. CASE Here # "inert" /\ Step("033", "trial", "parked", sut)
  <2>1. /\ scenario = "033" /\ pc = "trial" /\ pc' = "parked"
        /\ Stays /\ ScriptStep
    BY <1>3, StepIsStep
  <2>2. QED
    BY <1>3, <2>1 DEF Step, Act, KeepsInv, Keeps033, Here
<1>4. CASE Step("033", "trial", "trial", [sut EXCEPT !.trial = @ + 1])
  <2>1. /\ scenario = "033" /\ pc = "trial" /\ pc' = "trial"
        /\ Stays /\ ScriptStep
    BY <1>4, StepIsStep
  <2>2. QED
    BY <1>4, <2>1 DEF Step, Act, KeepsInv, Keeps033, Here
<1>5. CASE ClearAndRelease033
  <2>1. /\ scenario = "033" /\ pc = "parked" /\ pc' = "trial"
        /\ Stays /\ ScriptStep
    BY <1>5, StepIsStep DEF ClearAndRelease033
  <2>2. QED
    BY <1>5, <2>1 DEF ClearAndRelease033, Step, Act, KeepsInv, Keeps033, Here
<1>6. CASE Results033
  <2>1. scenario = "033" /\ pc = "trial" /\ pc' = "collect" /\ Leaves
    BY <1>6, ReportIsStep DEF Results033
  <2>2. Tells("033", out'.says, Here)
    BY <1>6, <2>1, TrialsAssumption, HereIsTruth
       DEF Results033, Report, Exit, Printed, KeepsInv, Keeps033, Here,
           Truths, Tells, NotRun, Means, Means033, V1, V2
  <2>3. QED
    BY <1>6, <2>1, <2>2, ReportIsStep DEF Results033, Keeps033
<1>7. CASE Judge("033", Pre033(Before), Post033(Before, After))
  <2>1. TellBefore("033") => SoundPre("033", Pre033(Before))
    BY TrialsAssumption
       DEF TellBefore, Tells, Means, Means033, Pre033, Verdict, SoundPre, Verdicts, DropFailures,
           Statuses, CollectWithoutDefect, DependOnTiming, V1, V2, Truths,
           Half
  <2>2. TellBoth("033") => SoundPost("033", Post033(Before, After))
    BY TrialsAssumption
       DEF TellBoth, TellBefore, Tells, Means, Means033, Post033, Verdict,
           SoundPost, Verdicts, DropFailures, Statuses, CollectWithoutDefect, DependOnTiming,
           CollectInertHead, BlindToFixes, V1, V2, Truths, Half
  <2>3. QED
    BY <1>7, <2>1, <2>2, JudgeIsStep DEF ScriptStep, Keeps033
<1>8. QED
  BY <1>1, <1>2, <1>3, <1>4, <1>5, <1>6, <1>7
     DEF Scenario033, Run033, Enqueue033

(* In every trial on the code with the defect a recovery has been fired.   *)
LEMMA Steps039 ==
  ASSUME RunInv, KeepsInv, Scenario039
  PROVE  scenario = "039" /\ ScriptStep /\ Keeps039'
<1> USE DEF Stays, Leaves, FrameLabels
<1>1. CASE Instrument039
  BY <1>1, LaunchIsStep DEF Instrument039, Keeps039
<1>2. CASE Step("039", "activate", "activate", [sut EXCEPT !.trial = @ + 1])
          /\ Here = "inert"
  <2>1. /\ scenario = "039" /\ pc = "activate" /\ pc' = "activate"
        /\ Stays /\ ScriptStep
    BY <1>2, StepIsStep
  <2>2. QED
    BY <1>2, <2>1 DEF Step, Act, KeepsInv, Keeps039, Here
<1>3. CASE Step("039", "activate", "wait",
               [sut EXCEPT !.fired = @ + IF Recovers039 THEN 1 ELSE 0])
  <2>1. /\ scenario = "039" /\ pc = "activate" /\ pc' = "wait"
        /\ Stays /\ ScriptStep
    BY <1>3, StepIsStep
  <2>2. QED
    BY <1>3, <2>1 DEF Step, Act, KeepsInv, Keeps039, Here, Recovers039
<1>4. CASE WaitForTimer039
  <2>1. /\ scenario = "039" /\ pc = "wait" /\ pc' = "activate"
        /\ Stays /\ ScriptStep
    BY <1>4, StepIsStep DEF WaitForTimer039
  <2>2. QED
    BY <1>4, <2>1
       DEF WaitForTimer039, Step, Act, KeepsInv, Keeps039, Here, Recovers039
<1>5. CASE Counts039
  <2>1. scenario = "039" /\ pc = "activate" /\ pc' = "collect" /\ Leaves
    BY <1>5, ReportIsStep DEF Counts039
  <2>2. Tells("039", out'.says, Here)
    BY <1>5, <2>1, TrialsAssumption, HereIsTruth
       DEF Counts039, Report, Exit, Printed, KeepsInv, Keeps039, Here, Truths,
           Tells, NotRun, Means, Means039, V1, V2
  <2>3. QED
    BY <1>5, <2>1, <2>2, ReportIsStep DEF Counts039, Keeps039
<1>6. CASE Run039
  BY <1>6, ReturnIsStep DEF Run039, Keeps039
<1>7. CASE Judge("039", Pre039(Before), Post039(Before, After))
  <2>1. TellBefore("039") => SoundPre("039", Pre039(Before))
    BY TrialsAssumption
       DEF TellBefore, Tells, Means, Means039, Pre039, Verdict, SoundPre, Verdicts, DropFailures,
           Statuses, CollectWithoutDefect, DependOnTiming, V1, V2, Truths
  <2>2. TellBoth("039") => SoundPost("039", Post039(Before, After))
    BY TrialsAssumption
       DEF TellBoth, TellBefore, Tells, Means, Means039, Post039, Verdict,
           SoundPost, Verdicts, DropFailures, Statuses, CollectWithoutDefect, DependOnTiming,
           CollectInertHead, BlindToFixes, V1, V2, Truths
  <2>3. QED
    BY <1>7, <2>1, <2>2, JudgeIsStep DEF ScriptStep, Keeps039
<1>8. QED
  BY <1>1, <1>2, <1>3, <1>4, <1>5, <1>6, <1>7 DEF Scenario039, Activate039

(* Every trial on the code with the defect leaks, none on the fixed code   *)
(* does, and only the fixed code unbinds.                                  *)
LEMMA Steps040 ==
  ASSUME RunInv, KeepsInv, Scenario040
  PROVE  scenario = "040" /\ ScriptStep /\ Keeps040'
<1> USE DEF Stays, Leaves, FrameLabels
<1>1. CASE Launch("040", "trial", Fresh040)
  BY <1>1, LaunchIsStep DEF Keeps040, Fresh040
<1>2. CASE LastLine("040")
  BY <1>2, ReturnIsStep DEF Keeps040
<1>3. CASE Step("040", "trial", "parked", sut)
  <2>1. /\ scenario = "040" /\ pc = "trial" /\ pc' = "parked"
        /\ Stays /\ ScriptStep
    BY <1>3, StepIsStep
  <2>2. QED
    BY <1>3, <2>1 DEF Step, Act, KeepsInv, Keeps040, Here
<1>4. CASE Step("040", "trial", "trial", [sut EXCEPT !.trial = @ + 1])
          /\ Here = "inert"
  <2>1. /\ scenario = "040" /\ pc = "trial" /\ pc' = "trial"
        /\ Stays /\ ScriptStep
    BY <1>4, StepIsStep
  <2>2. QED
    BY <1>4, <2>1 DEF Step, Act, KeepsInv, Keeps040, Here
<1>5. CASE StopAndRelease040
  <2>1. /\ scenario = "040" /\ pc = "parked" /\ pc' = "trial"
        /\ Stays /\ ScriptStep
    BY <1>5, StepIsStep DEF StopAndRelease040
  <2>2. QED
    BY <1>5, <2>1
       DEF StopAndRelease040, Step, Act, KeepsInv, Keeps040, Here,
           TrialOver040
<1>6. CASE Totals040
  <2>1. scenario = "040" /\ pc = "trial" /\ pc' = "collect" /\ Leaves
    BY <1>6, ReportIsStep DEF Totals040
  <2>2. Tells("040", out'.says, Here)
    BY <1>6, <2>1, TrialsAssumption, HereIsTruth
       DEF Totals040, Report, Exit, Printed, KeepsInv, Keeps040, Here, Truths,
           Tells, NotRun, Means, Means040, V1, V2
  <2>3. QED
    BY <1>6, <2>1, <2>2, ReportIsStep DEF Totals040, Keeps040
<1>7. CASE Judge("040", Pre040(Before), Post040(Before, After))
  <2>1. TellBefore("040") => SoundPre("040", Pre040(Before))
    BY TrialsAssumption
       DEF TellBefore, Tells, Means, Means040, Pre040, Verdict, SoundPre, Verdicts, DropFailures,
           Statuses, CollectWithoutDefect, DependOnTiming, V1, V2, Truths,
           Most
  <2>2. TellBoth("040") => SoundPost("040", Post040(Before, After))
    BY TrialsAssumption
       DEF TellBoth, TellBefore, Tells, Means, Means040, Post040, Verdict,
           SoundPost, Verdicts, DropFailures, Statuses, CollectWithoutDefect, DependOnTiming,
           CollectInertHead, BlindToFixes, V1, V2, Truths, Most
  <2>3. QED
    BY <1>7, <2>1, <2>2, JudgeIsStep DEF ScriptStep, Keeps040
<1>8. QED
  BY <1>1, <1>2, <1>3, <1>4, <1>5, <1>6, <1>7
     DEF Scenario040, Run040, HandleRequested040

(* Only the fixed code disposes, and only of the branch with the contract  *)
(* error.                                                                  *)
LEMMA Steps037 ==
  ASSUME RunInv, KeepsInv, Scenario037
  PROVE  scenario = "037" /\ ScriptStep /\ Keeps037'
<1> USE DEF Stays, Leaves, FrameLabels
<1>1. CASE Launch("037", "factory-throw", [disposed |-> {}])
  BY <1>1, LaunchIsStep DEF Keeps037
<1>2. CASE LastLine("037")
  BY <1>2, ReturnIsStep DEF Keeps037
<1>3. CASE Step("037", "factory-throw", "contract-error", [disposed |-> {}])
  <2>1. /\ scenario = "037" /\ pc = "factory-throw" /\ pc' = "contract-error"
        /\ Stays /\ ScriptStep
    BY <1>3, StepIsStep
  <2>2. QED
    BY <1>3, <2>1 DEF Step, Act, KeepsInv, Keeps037, Here
<1>4. CASE Step("037", "contract-error", "count",
            [disposed |-> sut.disposed \cup
                (IF Here = "fixed" THEN {"contract-error"} ELSE {})])
  <2>1. /\ scenario = "037" /\ pc = "contract-error" /\ pc' = "count"
        /\ Stays /\ ScriptStep
    BY <1>4, StepIsStep
  <2>2. QED
    BY <1>4, <2>1 DEF Step, Act, KeepsInv, Keeps037, Here
<1>5. CASE Report("037", "count",
              [trials |-> 2, branches |-> Cardinality(sut.disposed)])
  <2>1. scenario = "037" /\ pc = "count" /\ pc' = "collect" /\ Leaves
    BY <1>5, ReportIsStep
  <2> DEFINE m == [trials |-> 2, branches |-> Cardinality(sut.disposed)]
  <2>4. sut.disposed = IF Here = "fixed" THEN {"contract-error"} ELSE {}
    BY <2>1 DEF KeepsInv, Keeps037
  <2>5. m.branches = IF Here = "fixed" THEN 1 ELSE 0
    BY <2>4, FS_EmptySet, FS_Singleton
  <2>6. Tells("037", m, Here)
    BY <2>5, HereIsTruth DEF Truths, Tells, NotRun, Means, Means037, V1, V2
  <2>7. out'.says = m
    BY <1>5 DEF Report, Exit, Printed
  <2>2. Tells("037", out'.says, Here)
    <3> HIDE DEF m
    <3>1. QED
      BY <2>6, <2>7
  <2>3. QED
    BY <1>5, <2>1, <2>2, ReportIsStep DEF Keeps037
<1>6. CASE Judge("037", Pre037(Before), Post037(Before, After))
  <2>1. TellBefore("037") => SoundPre("037", Pre037(Before))
    BY TrialsAssumption
       DEF TellBefore, Tells, Means, Means037, Pre037, Verdict, SoundPre, Verdicts, DropFailures,
           Statuses, CollectWithoutDefect, DependOnTiming, V1, V2, Truths
  <2>2. TellBoth("037") => SoundPost("037", Post037(Before, After))
    BY TrialsAssumption
       DEF TellBoth, TellBefore, Tells, Means, Means037, Post037, Verdict,
           SoundPost, Verdicts, DropFailures, Statuses, CollectWithoutDefect, DependOnTiming,
           CollectInertHead, BlindToFixes, V1, V2, Truths
  <2>3. QED
    BY <1>6, <2>1, <2>2, JudgeIsStep DEF ScriptStep, Keeps037
<1>7. QED
  BY <1>1, <1>2, <1>3, <1>4, <1>5, <1>6 DEF Scenario037, Run037, Resolve037

(* Neither run is aborted, since the connection has an id that neither     *)
(* owns.                                                                   *)
LEMMA Steps038 ==
  ASSUME RunInv, KeepsInv, Scenario038
  PROVE  scenario = "038" /\ ScriptStep /\ Keeps038'
<1> USE DEF Stays, Leaves, FrameLabels
<1>1. CASE Launch("038", "register", Idle)
  BY <1>1, LaunchIsStep DEF Keeps038
<1>2. CASE LastLine("038")
  BY <1>2, ReturnIsStep DEF Keeps038
<1>3. CASE Register038
  <2>1. /\ scenario = "038" /\ pc = "register" /\ pc' = "connect"
        /\ Stays /\ ScriptStep
    BY <1>3, StepIsStep DEF Register038
  <2>2. QED
    BY <1>3, <2>1 DEF Register038, Step, Act, KeepsInv, Keeps038, Here
<1>4. CASE Report("038", "connect", Failed)
  BY <1>4, ReportIsStep, FailedTells DEF Keeps038
<1>5. CASE Step("038", "connect", "close", [sut EXCEPT !.conn = "generated"])
  <2>1. /\ scenario = "038" /\ pc = "connect" /\ pc' = "close"
        /\ Stays /\ ScriptStep
    BY <1>5, StepIsStep
  <2>2. QED
    BY <1>5, <2>1 DEF Step, Act, KeepsInv, Keeps038, Here
<1>6. CASE Close038
  <2>1. scenario = "038" /\ pc = "close" /\ pc' = "collect" /\ Leaves
    BY <1>6, ReportIsStep DEF Close038
  <2>2. Tells("038", out'.says, Here)
    BY <1>6, <2>1, TrialsAssumption, HereIsTruth
       DEF Close038, Report, Exit, Printed, KeepsInv, Keeps038, Here, Truths,
           Tells, NotRun, Means, Means038, V1, V2, Aborts038
  <2>3. QED
    BY <1>6, <2>1, <2>2, ReportIsStep DEF Close038, Keeps038
<1>7. CASE Judge("038", Pre038(Before), Post038(Before, After))
  <2>1. TellBefore("038") => SoundPre("038", Pre038(Before))
    BY TrialsAssumption
       DEF TellBefore, Tells, Means, Means038, Pre038, Verdict, SoundPre, Verdicts, DropFailures,
           Statuses, CollectWithoutDefect, DependOnTiming, V1, V2, Truths
  <2>2. TellBoth("038") => SoundPost("038", Post038(Before, After))
    BY TrialsAssumption
       DEF TellBoth, TellBefore, Tells, Means, Means038, Post038, Verdict,
           SoundPost, Verdicts, DropFailures, Statuses, CollectWithoutDefect, DependOnTiming,
           CollectInertHead, BlindToFixes, V1, V2, Truths
  <2>3. QED
    BY <1>7, <2>1, <2>2, JudgeIsStep DEF ScriptStep, Keeps038
<1>8. QED
  BY <1>1, <1>2, <1>3, <1>4, <1>5, <1>6, <1>7
     DEF Scenario038, Run038, Connect038

(* A delivery is repeated exactly by the code that does not see the        *)
(* marker.                                                                 *)
LEMMA Steps050 ==
  ASSUME RunInv, KeepsInv, Scenario050
  PROVE  scenario = "050" /\ ScriptStep /\ KeepsReplay'
<1> USE DEF Stays, Leaves, FrameLabels
<1>1. CASE Launch("050", "enqueue", Idle)
  BY <1>1, LaunchIsStep DEF KeepsReplay
<1>2. CASE MarkedLine("050")
  BY <1>2, ReturnIsStep DEF KeepsReplay
<1>3. CASE Report("050", "enqueue", Failed)
  BY <1>3, ReportIsStep, FailedTells DEF KeepsReplay
<1>4. CASE Step("050", "enqueue", "attempt",
                 [pending |-> TRUE, marker |-> "none", delivered |-> 0])
  <2>1. /\ scenario = "050" /\ pc = "enqueue" /\ pc' = "attempt"
        /\ Stays /\ ScriptStep
    BY <1>4, StepIsStep
  <2>2. QED
    BY <1>4, <2>1 DEF Step, Act, KeepsInv, KeepsReplay, Here
<1>5. CASE MarkAttempt050
  <2>1. /\ scenario = "050" /\ pc = "attempt" /\ pc' = "deliver"
        /\ Stays /\ ScriptStep
    BY <1>5, StepIsStep DEF MarkAttempt050, SendAttemptStarted
  <2>2. QED
    BY <1>5, <2>1
       DEF MarkAttempt050, SendAttemptStarted, Step, Act, KeepsInv,
           KeepsReplay, Here, HasMarkerApi
<1>6. CASE DeliverThenUnknown050
  <2>1. /\ scenario = "050" /\ pc = "deliver" /\ pc' = "recover"
        /\ Stays /\ ScriptStep
    BY <1>6, StepIsStep DEF DeliverThenUnknown050
  <2>2. QED
    BY <1>6, <2>1
       DEF DeliverThenUnknown050, Step, Act, KeepsInv, KeepsReplay, Here,
           HasMarkerApi
<1>7. CASE Recover050
  <2>1. scenario = "050" /\ pc = "recover" /\ pc' = "collect" /\ Leaves
    BY <1>7, ReportIsStep DEF Recover050, Recover
  <2>2. Tells("050", out'.says, Here)
    BY <1>7, <2>1, TrialsAssumption, HereIsTruth
       DEF Recover050, Recover, Report, Exit, Printed, KeepsInv, KeepsReplay,
           Here, Truths, Tells, NotRun, Means, MeansReplay, V1, V2
  <2>3. QED
    BY <1>7, <2>1, <2>2, ReportIsStep DEF Recover050, Recover, KeepsReplay
<1>8. CASE Judge("050", Pre050(Before), Post050(Before, After))
  <2>1. TellBefore("050") => SoundPre("050", Pre050(Before))
    BY TrialsAssumption
       DEF TellBefore, Tells, Means, MeansReplay, Pre050, Verdict, SoundPre, Verdicts, DropFailures,
           Statuses, CollectWithoutDefect, DependOnTiming, V1, V2, Truths,
           Replayed, Refused
  <2>2. TellBoth("050") => SoundPost("050", Post050(Before, After))
    BY TrialsAssumption
       DEF TellBoth, TellBefore, Tells, Means, MeansReplay, Post050, Verdict,
           SoundPost, Verdicts, DropFailures, Statuses, CollectWithoutDefect, DependOnTiming,
           CollectInertHead, BlindToFixes, V1, V2, Truths, Replayed, Refused
  <2>3. QED
    BY <1>8, <2>1, <2>2, JudgeIsStep DEF ScriptStep, KeepsReplay
<1>9. QED
  BY <1>1, <1>2, <1>3, <1>4, <1>5, <1>6, <1>7, <1>8
     DEF Scenario050, Run050, Enqueue050, Enqueue

(* A delivery is repeated exactly by the code that does not see the        *)
(* marker.                                                                 *)
LEMMA Steps056 ==
  ASSUME RunInv, KeepsInv, Scenario056
  PROVE  scenario = "056" /\ ScriptStep /\ KeepsReplay'
<1> USE DEF Stays, Leaves, FrameLabels
<1>1. CASE \E node24 \in BOOLEAN : Launch("056", "enqueue", [node24 |-> node24])
  BY <1>1, LaunchIsStep DEF KeepsReplay
<1>2. CASE MarkedLine("056")
  BY <1>2, ReturnIsStep DEF KeepsReplay
<1>3. CASE Report("056", "enqueue", Failed)
  BY <1>3, ReportIsStep, FailedTells DEF KeepsReplay
<1>4. CASE Step("056", "enqueue", "attempt",
                 [pending |-> TRUE, marker |-> "none", delivered |-> 0])
  <2>1. /\ scenario = "056" /\ pc = "enqueue" /\ pc' = "attempt"
        /\ Stays /\ ScriptStep
    BY <1>4, StepIsStep
  <2>2. QED
    BY <1>4, <2>1 DEF Step, Act, KeepsInv, KeepsReplay, Here
<1>5. CASE SendAttemptStarted("056")
  <2>1. /\ scenario = "056" /\ pc = "attempt" /\ pc' = "deliver"
        /\ Stays /\ ScriptStep
    BY <1>5, StepIsStep DEF SendAttemptStarted
  <2>2. QED
    BY <1>5, <2>1
       DEF SendAttemptStarted, Step, Act, KeepsInv, KeepsReplay, Here,
           HasMarkerApi
<1>6. CASE Deliver056
  <2>1. /\ scenario = "056" /\ pc = "deliver" /\ pc' = "recover"
        /\ Stays /\ ScriptStep
    BY <1>6, StepIsStep DEF Deliver056
  <2>2. QED
    BY <1>6, <2>1
       DEF Deliver056, Step, Act, KeepsInv, KeepsReplay, Here, HasMarkerApi
<1>7. CASE Recover056
  <2>1. scenario = "056" /\ pc = "recover" /\ pc' = "collect" /\ Leaves
    BY <1>7, ReportIsStep DEF Recover056, Recover
  <2>2. Tells("056", out'.says, Here)
    BY <1>7, <2>1, TrialsAssumption, HereIsTruth
       DEF Recover056, Recover, Report, Exit, Printed, KeepsInv, KeepsReplay,
           Here, Truths, Tells, NotRun, Means, MeansReplay, V1, V2
  <2>3. QED
    BY <1>7, <2>1, <2>2, ReportIsStep DEF Recover056, Recover, KeepsReplay
<1>8. CASE Judge("056", Pre056(Before), Post056(Before, After))
  <2>1. TellBefore("056") => SoundPre("056", Pre056(Before))
    BY TrialsAssumption
       DEF TellBefore, Tells, Means, MeansReplay, Pre056, Verdict, SoundPre, Verdicts, DropFailures,
           Statuses, CollectWithoutDefect, DependOnTiming, V1, V2, Truths,
           Replayed, Refused
  <2>2. TellBoth("056") => SoundPost("056", Post056(Before, After))
    BY TrialsAssumption
       DEF TellBoth, TellBefore, Tells, Means, MeansReplay, Post056, Verdict,
           SoundPost, Verdicts, DropFailures, Statuses, CollectWithoutDefect, DependOnTiming,
           CollectInertHead, BlindToFixes, V1, V2, Truths, Replayed, Refused
  <2>3. QED
    BY <1>8, <2>1, <2>2, JudgeIsStep DEF ScriptStep, KeepsReplay
<1>9. QED
  BY <1>1, <1>2, <1>3, <1>4, <1>5, <1>6, <1>7, <1>8
     DEF Scenario056, Run056, Node24, Pass1Of056, Enqueue056, Enqueue

(* A signal in the log of the tool is one the fixed code has handed over.  *)
LEMMA Steps026E2e ==
  ASSUME RunInv, KeepsInv, Scenario026E2e
  PROVE  scenario = "026-e2e" /\ ScriptStep /\ Keeps026E2e'
<1> USE DEF Stays, Leaves, FrameLabels
<1>1. CASE Launch("026-e2e", "connect", Fresh026E2e)
  <2>1. scenario = "026-e2e" /\ sut' = Fresh026E2e /\ Stays /\ ScriptStep
    BY <1>1, LaunchIsStep
  <2>2. QED
    BY <2>1 DEF Keeps026E2e, Fresh026E2e
<1>2. CASE LastLine("026-e2e")
  BY <1>2, ReturnIsStep DEF Keeps026E2e
<1>3. CASE Step("026-e2e", "connect", "call", sut)
  <2>1. /\ scenario = "026-e2e" /\ pc = "connect" /\ pc' = "call"
        /\ Stays /\ ScriptStep
    BY <1>3, StepIsStep
  <2>2. QED
    BY <1>3, <2>1 DEF Step, Act, KeepsInv, Keeps026E2e, Here
<1>4. CASE Step("026-e2e", "connect", "close", sut)
  <2>1. /\ scenario = "026-e2e" /\ pc = "connect" /\ pc' = "close"
        /\ Stays /\ ScriptStep
    BY <1>4, StepIsStep
  <2>2. QED
    BY <1>4, <2>1 DEF Step, Act, KeepsInv, Keeps026E2e, Here
<1>5. CASE Step("026-e2e", "call", "settle", [sut EXCEPT !.aborted = TRUE])
  <2>1. /\ scenario = "026-e2e" /\ pc = "call" /\ pc' = "settle"
        /\ Stays /\ ScriptStep
    BY <1>5, StepIsStep
  <2>2. QED
    BY <1>5, <2>1 DEF Step, Act, KeepsInv, Keeps026E2e, Here
<1>6. CASE Step("026-e2e", "settle", "close", sut)
  <2>1. /\ scenario = "026-e2e" /\ pc = "settle" /\ pc' = "close"
        /\ Stays /\ ScriptStep
    BY <1>6, StepIsStep
  <2>2. QED
    BY <1>6, <2>1 DEF Step, Act, KeepsInv, Keeps026E2e, Here
<1>7. CASE Report("026-e2e", "close", Failed)
  BY <1>7, ReportIsStep, FailedTells DEF Keeps026E2e
<1>8. CASE Report("026-e2e", "close", Payload026E2e)
  <2>1. scenario = "026-e2e" /\ pc = "close" /\ pc' = "collect" /\ Leaves
    BY <1>8, ReportIsStep
  <2>2. Tells("026-e2e", out'.says, Here)
    BY <1>8, <2>1, TrialsAssumption, HereIsTruth
       DEF Report, Exit, Printed, KeepsInv, Keeps026E2e, Here, Truths, Tells,
           NotRun, Means, Means026E2e, V1, V2, Payload026E2e
  <2>3. QED
    BY <1>8, <2>1, <2>2, ReportIsStep DEF Keeps026E2e
<1>9. CASE Wrapper026E2e
  <2>1. /\ scenario = "026-e2e" /\ pc \in {"call", "settle", "close"} /\ pc' = pc
        /\ Stays /\ ScriptStep
    BY <1>9, StepIsStep DEF Wrapper026E2e
  <2>2. QED
    BY <1>9, <2>1 DEF Wrapper026E2e, Step, Act, KeepsInv, Keeps026E2e, Here
<1>10. CASE Judge("026-e2e", Pre026E2e(Before), Post026E2e(Before, After))
  <2>1. TellBefore("026-e2e") => SoundPre("026-e2e", Pre026E2e(Before))
    BY TrialsAssumption
       DEF TellBefore, Tells, Means, Means026E2e, Pre026E2e, Verdict,
           SoundPre, Verdicts, DropFailures, Statuses, CollectWithoutDefect, DependOnTiming, V1, V2,
           Truths
  <2>2. TellBoth("026-e2e") => SoundPost("026-e2e", Post026E2e(Before, After))
    BY TrialsAssumption
       DEF TellBoth, TellBefore, Tells, Means, Means026E2e, Post026E2e,
           Verdict, SoundPost, Verdicts, DropFailures, Statuses, CollectWithoutDefect, DependOnTiming,
           CollectInertHead, BlindToFixes, V1, V2, Truths
  <2>3. QED
    BY <1>10, <2>1, <2>2, JudgeIsStep DEF ScriptStep, Keeps026E2e
<1>11. QED
  BY <1>1, <1>2, <1>3, <1>4, <1>5, <1>6, <1>7, <1>8, <1>9, <1>10
     DEF Scenario026E2e, Run026E2e, Parent026E2e

(* The coordinator of a build with the defect takes the two generations    *)
(* for two recoveries, the runtime does not.                               *)
LEMMA Steps053 ==
  ASSUME RunInv, KeepsInv, Scenario053
  PROVE  scenario = "053" /\ ScriptStep /\ Keeps053'
<1> USE DEF Stays, Leaves, FrameLabels
<1>1. CASE Launch("053", "coordinator", Fresh053)
  <2>1. /\ scenario = "053" /\ pc' = "coordinator" /\ sut' = Fresh053
        /\ Stays /\ ScriptStep
    BY <1>1, LaunchIsStep
  <2>2. QED
    BY <2>1 DEF Keeps053, Fresh053
<1>2. CASE MarkedLine("053")
  BY <1>2, ReturnIsStep DEF Keeps053
<1>3. CASE Coordinator053
  <2>1. /\ scenario = "053" /\ pc = "coordinator" /\ pc' \in {"coordinator", "runtime"}
        /\ Stays /\ ScriptStep
    BY <1>3, StepIsStep DEF Coordinator053
  <2>2. Keeps053 /\ Here' = Here
    BY <2>1 DEF KeepsInv, Here
  <2>3. CASE sut.requests < 2
    <3> DEFINE key == Key053(IF sut.bump THEN sut.requests ELSE 0)
               new == Here # "inert" /\ key \notin sut.inflight
    <3>1. /\ pc' = "coordinator"
          /\ sut' = [sut EXCEPT !.requests = @ + 1,
                                !.inflight = @ \cup {key},
                                !.events = @ + IF new THEN 1 ELSE 0]
      BY <1>3, <2>3 DEF Coordinator053, Step, Act
    <3>2. /\ DOMAIN sut' = DOMAIN sut /\ sut'.bump = sut.bump /\ sut'.dup = sut.dup
          /\ sut'.requests = sut.requests + 1
          /\ sut'.inflight = sut.inflight \cup {key}
          /\ sut'.events = sut.events + IF new THEN 1 ELSE 0
      BY <2>1, <2>2, <3>1 DEF Keeps053
    <3>3. CASE sut.requests = 0
      <4>1. sut.inflight = {} /\ sut.events = 0 /\ key = Key053(0)
        BY <2>1, <2>2, <3>3 DEF Keeps053
      <4>2. /\ sut'.requests = 1 /\ sut'.inflight = {Key053(0)}
            /\ sut'.events = IF Here = "inert" THEN 0 ELSE 1
        BY <3>2, <3>3, <4>1
      <4>3. Key053(0)' = Key053(0)
        BY <2>2 DEF Key053
      <4>4. QED
        BY <2>1, <2>2, <3>1, <3>2, <4>2, <4>3 DEF Keeps053
    <3>4. CASE sut.requests = 1
      <4>1. sut.inflight = {Key053(0)} /\ sut.events = IF Here = "inert" THEN 0 ELSE 1
        BY <2>1, <2>2, <3>4 DEF Keeps053
      <4>2. key \in sut.inflight <=> (~sut.bump \/ Here = "fixed")
        BY <2>1, <2>2, <3>4, <4>1 DEF Key053, Keeps053
      <4>3. sut'.events = IF sut.bump THEN Duplicates(Here)
                          ELSE IF Here = "inert" THEN 0 ELSE 1
        BY <3>2, <4>1, <4>2, HereIsTruth DEF Duplicates, Truths
      <4>4. QED
        BY <2>1, <2>2, <3>1, <3>2, <3>4, <4>3 DEF Keeps053
    <3>5. QED
      BY <2>1, <2>2, <2>3, <3>3, <3>4 DEF Keeps053
  <2>4. CASE sut.requests = 2 /\ sut.bump
    <3>1. pc' = "coordinator" /\ sut' = [Fresh053 EXCEPT !.bump = FALSE, !.dup = sut.events]
      BY <1>3, <2>4 DEF Coordinator053, Step, Act
    <3>2. QED
      BY <2>1, <2>2, <2>4, <3>1 DEF Keeps053, Fresh053
  <2>5. CASE sut.requests = 2 /\ ~sut.bump
    <3>1. /\ pc' = "runtime"
          /\ sut' = [dup |-> sut.dup, noBump |-> sut.events,
                     inflight |-> {}, absorbed |-> FALSE, requests |-> 0]
      BY <1>3, <2>5 DEF Coordinator053, Step, Act
    <3>2. QED
      BY <2>1, <2>2, <2>5, <3>1 DEF Keeps053
  <2>6. QED
    BY <2>1, <2>2, <2>3, <2>4, <2>5 DEF Keeps053
<1>4. CASE Runtime053
  <2>1. /\ scenario = "053" /\ pc = "runtime" /\ pc' = "runtime"
        /\ Stays /\ ScriptStep
    BY <1>4, StepIsStep DEF Runtime053
  <2>2. Keeps053 /\ Here' = Here
    BY <2>1 DEF KeepsInv, Here
  <2>3. /\ sut.requests < 2
        /\ sut' = [sut EXCEPT !.requests = @ + 1,
                              !.inflight = IF Here = "inert" THEN @ ELSE {"S"},
                              !.absorbed = "S" \in sut.inflight]
    BY <1>4 DEF Runtime053, Step, Act
  <2>4. /\ DOMAIN sut' = DOMAIN sut /\ sut'.dup = sut.dup /\ sut'.noBump = sut.noBump
        /\ sut'.requests = sut.requests + 1
        /\ sut'.inflight = IF Here = "inert" THEN sut.inflight ELSE {"S"}
        /\ sut'.absorbed <=> "S" \in sut.inflight
    BY <2>1, <2>2, <2>3 DEF Keeps053
  <2>5. /\ sut'.requests \in 1..2
        /\ sut'.inflight = IF Here = "inert" THEN {} ELSE {"S"}
        /\ sut'.requests = 2 => (sut'.absorbed <=> Here # "inert")
    BY <2>1, <2>2, <2>3, <2>4 DEF Keeps053
  <2>6. QED
    BY <2>1, <2>2, <2>4, <2>5 DEF Keeps053
<1>5. CASE Asymmetry053
  <2>1. scenario = "053" /\ pc = "runtime" /\ pc' = "collect" /\ Leaves
    BY <1>5, ReportIsStep DEF Asymmetry053
  <2>2. /\ out'.says.trials = Trials /\ out'.says.dup = sut.dup
        /\ out'.says.asymmetry <=> sut.dup >= 2 /\ sut.noBump <= 1 /\ sut.absorbed
    BY <1>5, ReportIsStep DEF Asymmetry053, Report, Exit, Printed
  <2>3. Keeps053 /\ sut.requests = 2
    BY <1>5, <2>1 DEF Asymmetry053, KeepsInv
  <2>4. Means053(out'.says, Here)
    BY <2>1, <2>2, <2>3, HereIsTruth DEF Keeps053, Means053, Duplicates, Truths
  <2>5. Tells("053", out'.says, Here)
    BY <2>2, <2>4, TrialsAssumption DEF Tells, NotRun, Means, V1, V2
  <2>6. QED
    BY <1>5, <2>1, <2>5, ReportIsStep DEF Asymmetry053, Keeps053
<1>6. CASE Judge("053", Pre053(Before), Post053(Before, After))
  <2>1. TellBefore("053") => SoundPre("053", Pre053(Before))
    BY TrialsAssumption
       DEF TellBefore, Tells, Means, Means053, Duplicates, Pre053, Verdict, SoundPre, Verdicts,
              DropFailures,
           Statuses, CollectWithoutDefect, DependOnTiming, V1, V2, Truths
  <2>2. TellBoth("053") => SoundPost("053", Post053(Before, After))
    BY TrialsAssumption
       DEF TellBoth, TellBefore, Tells, Means, Means053, Duplicates, Post053, Verdict,
           SoundPost, Verdicts, DropFailures, Statuses, CollectWithoutDefect, DependOnTiming,
           CollectInertHead, BlindToFixes, V1, V2, Truths
  <2>3. QED
    BY <1>6, <2>1, <2>2, JudgeIsStep DEF ScriptStep, Keeps053
<1>7. QED
  BY <1>1, <1>2, <1>3, <1>4, <1>5, <1>6 DEF Scenario053, Run053

(* A write is lost or staged unless the code has the defect, and the       *)
(* stores come apart only in its pass with the fault.                      *)
LEMMA Steps048 ==
  ASSUME RunInv, KeepsInv, Scenario048
  PROVE  scenario = "048" /\ ScriptStep /\ Keeps048'
<1> USE DEF Stays, Leaves, FrameLabels
<1>1. CASE Launch("048", "setup", Idle)
  BY <1>1, LaunchIsStep DEF Keeps048
<1>2. CASE LastLine("048")
  BY <1>2, ReturnIsStep DEF Keeps048
<1>3. ASSUME NEW fault \in BOOLEAN, NEW control, ~Diverges048(control),
             sut' = Fresh048(fault, control), pc' = "first"
      PROVE  Keeps048'
  <2>1. /\ DOMAIN sut' = {"fault", "store", "writes", "threw", "control"}
        /\ DOMAIN sut'.store = Dirs048 /\ DOMAIN sut'.writes = Dirs048
        /\ sut'.fault \in BOOLEAN /\ sut'.threw \in BOOLEAN /\ sut'.control = control
        /\ sut'.store["a"] = "plaintext" /\ sut'.store["b"] = "plaintext"
        /\ sut'.writes["a"] = 0 /\ sut'.writes["b"] = 0
    BY <1>3 DEF Fresh048, Dirs048
  <2>2. (~Diverges048(sut.control))'
    BY <1>3, <2>1 DEF Diverges048
  <2>3. QED
    BY <1>3, <2>1, <2>2 DEF Keeps048, Stores048
<1>4. ASSUME Keeps048, UNCHANGED truth, UNCHANGED build,
             pc \in {"first", "second", "rollback"}, NEW d \in Dirs048, NEW value,
             sut' = Written048(d, value)
      PROVE  /\ DOMAIN sut' = DOMAIN sut /\ sut'.fault = sut.fault /\ sut'.control = sut.control
             /\ DOMAIN sut'.store = Dirs048 /\ DOMAIN sut'.writes = Dirs048
             /\ sut'.threw \in BOOLEAN /\ (sut'.threw <=> sut.threw \/ Fault048(d))
             /\ \A e \in Dirs048 \ {d} : sut'.store[e] = sut.store[e] /\ sut'.writes[e] = sut.writes[e]
             /\ sut'.writes[d] = sut.writes[d] + 1
             /\ sut'.store[d] = IF Fault048(d) \/ Here # "defect" THEN sut.store[d] ELSE value
             /\ (~Diverges048(sut.control))' /\ Here' = Here
  <2>1. /\ DOMAIN sut = {"fault", "store", "writes", "threw", "control"}
        /\ DOMAIN sut.store = Dirs048 /\ DOMAIN sut.writes = Dirs048
        /\ sut.threw \in BOOLEAN /\ ~Diverges048(sut.control)
    BY <1>4 DEF Keeps048
  <2>2. /\ DOMAIN sut' = DOMAIN sut /\ sut'.fault = sut.fault /\ sut'.control = sut.control
    BY <1>4, <2>1 DEF Written048
  <2>3. sut'.threw = (sut.threw \/ Fault048(d))
    BY <1>4, <2>1 DEF Written048
  <2>4. sut'.writes = [sut.writes EXCEPT ![d] = @ + 1]
    BY <1>4, <2>1 DEF Written048
  <2>5. sut'.store = [sut.store EXCEPT ![d] = IF Fault048(d) \/ Here # "defect" THEN @ ELSE value]
    BY <1>4, <2>1 DEF Written048
  <2>6. (~Diverges048(sut.control))' /\ Here' = Here
    BY <1>4, <2>1, <2>2 DEF Diverges048, Here
  <2>7. QED
    BY <2>1, <2>2, <2>3, <2>4, <2>5, <2>6
<1>5. CASE Setup048
  <2>1. sut' = Fresh048(FALSE, {})
    BY <1>5 DEF Setup048, Step, Act
  <2>2. ~Diverges048({})
    BY DEF Diverges048
  <2>3. scenario = "048" /\ pc' = "first" /\ Stays /\ ScriptStep
    <3> DEFINE fresh == Fresh048(FALSE, {})
    <3>1. Step("048", "setup", "first", fresh)
      BY <1>5 DEF Setup048
    <3> HIDE DEF fresh
    <3>2. QED
      BY <3>1, StepIsStep
  <2>4. QED
    BY <1>3, <2>1, <2>2, <2>3
<1>6. CASE ProbeThrows048
  <2>1. Tells("048", [trials |-> 0, error |-> TRUE], Here)
    BY DEF Tells, NotRun, Bad
  <2>2. QED
    BY <1>6, <2>1, ReportIsStep DEF ProbeThrows048, Keeps048
<1>7. CASE Here # "inert" /\ WriteFirst048
  <2>1. /\ scenario = "048" /\ pc = "first" /\ pc' = "second" /\ sut' = Written048("a", "ref")
        /\ Stays /\ ScriptStep
    BY <1>7, StepIsStep DEF WriteFirst048
  <2>2. Keeps048 /\ ~Fault048("a")
    BY <2>1 DEF KeepsInv, Keeps048, Fault048
  <2>3. /\ DOMAIN sut' = {"fault", "store", "writes", "threw", "control"}
        /\ DOMAIN sut'.store = Dirs048 /\ DOMAIN sut'.writes = Dirs048
        /\ sut'.fault \in BOOLEAN /\ sut'.threw \in BOOLEAN
        /\ sut'.store["a"] = IF Here # "defect" THEN "plaintext" ELSE "ref"
        /\ sut'.store["b"] = "plaintext" /\ sut'.writes["a"] = 1 /\ sut'.writes["b"] = 0
        /\ (~Diverges048(sut.control))' /\ Here' = Here
    BY <1>4, <2>1, <2>2 DEF Keeps048, Stores048, Dirs048
  <2>4. QED
    BY <2>1, <2>3 DEF Keeps048, Stores048
<1>8. CASE Idle048
  <2>1. PICK threw \in BOOLEAN : Step("048", "first", "classify", [sut EXCEPT !.threw = threw])
    BY <1>8 DEF Idle048
  <2>2. /\ scenario = "048" /\ pc = "first" /\ pc' = "classify" /\ sut' = [sut EXCEPT !.threw = threw]
        /\ Stays /\ ScriptStep
    BY <2>1, StepIsStep
  <2>3. Keeps048 /\ Here = "inert" /\ Here' = Here
    BY <1>8, <2>2 DEF KeepsInv, Idle048, Here
  <2>4. /\ DOMAIN sut' = DOMAIN sut /\ sut'.threw \in BOOLEAN
        /\ sut'.fault = sut.fault /\ sut'.store = sut.store
        /\ sut'.writes = sut.writes /\ sut'.control = sut.control
    BY <2>2, <2>3 DEF Keeps048
  <2>5. (~Diverges048(sut.control))'
    BY <2>2, <2>3, <2>4 DEF Keeps048, Diverges048
  <2>6. QED
    BY <2>2, <2>3, <2>4, <2>5 DEF Keeps048, Stores048
<1>9. CASE WriteSecond048
  <2>1. /\ scenario = "048" /\ pc = "second" /\ pc' \notin FrameLabels
        /\ pc' = IF ~Fault048("b") THEN "commit"
                 ELSE IF Here = "defect" THEN "rollback" ELSE "classify"
        /\ sut' = Written048("b", "ref") /\ Stays /\ ScriptStep
    BY <1>9, StepIsStep DEF WriteSecond048
  <2>2. Keeps048 /\ (Fault048("b") <=> sut.fault)
    BY <2>1 DEF KeepsInv, Keeps048, Fault048
  <2>3. /\ DOMAIN sut' = {"fault", "store", "writes", "threw", "control"}
        /\ DOMAIN sut'.store = Dirs048 /\ DOMAIN sut'.writes = Dirs048
        /\ sut'.fault = sut.fault /\ sut'.fault \in BOOLEAN /\ sut'.threw \in BOOLEAN
        /\ sut.fault => sut'.threw
        /\ sut'.store["a"] = IF Here # "defect" THEN "plaintext" ELSE "ref"
        /\ sut'.store["b"] = IF sut.fault \/ Here # "defect" THEN "plaintext" ELSE "ref"
        /\ sut'.writes["a"] = 1
        /\ (~Diverges048(sut.control))' /\ Here' = Here
    BY <1>4, <2>1, <2>2 DEF Keeps048, Stores048, Dirs048
  <2>4. QED
    BY <2>1, <2>2, <2>3 DEF Keeps048, Stores048
<1>10. CASE RollBack048
  <2>1. /\ scenario = "048" /\ pc = "rollback" /\ pc' = "classify"
        /\ sut' = Written048("a", "plaintext") /\ Stays /\ ScriptStep
    BY <1>10, StepIsStep DEF RollBack048
  <2>2. Keeps048 /\ Fault048("a")
    BY <2>1 DEF KeepsInv, Keeps048, Fault048
  <2>3. /\ DOMAIN sut' = {"fault", "store", "writes", "threw", "control"}
        /\ DOMAIN sut'.store = Dirs048 /\ DOMAIN sut'.writes = Dirs048
        /\ sut'.fault /\ sut'.fault \in BOOLEAN /\ sut'.threw \in BOOLEAN /\ sut'.threw
        /\ sut'.store["a"] = "ref" /\ sut'.store["b"] = "plaintext"
        /\ (~Diverges048(sut.control))' /\ Here' = Here /\ Here = "defect"
    BY <1>4, <2>1, <2>2 DEF Keeps048, Stores048, Dirs048
  <2>4. QED
    BY <2>1, <2>3 DEF Keeps048, Stores048
<1>11. CASE Commit048
  <2>1. /\ scenario = "048" /\ pc = "commit" /\ pc' = "classify"
        /\ sut' = [sut EXCEPT !.store = IF Here = "fixed" THEN [d \in Dirs048 |-> "ref"] ELSE @]
        /\ Stays /\ ScriptStep
    BY <1>11, StepIsStep DEF Commit048
  <2>2. Keeps048 /\ Here' = Here
    BY <2>1 DEF KeepsInv, Here
  <2>3. /\ DOMAIN sut' = DOMAIN sut /\ sut'.threw = sut.threw
        /\ sut'.fault = sut.fault /\ sut'.writes = sut.writes /\ sut'.control = sut.control
        /\ sut'.store = IF Here = "fixed" THEN [d \in Dirs048 |-> "ref"] ELSE sut.store
    BY <2>1, <2>2 DEF Keeps048
  <2>4. (~Diverges048(sut.control))'
    BY <2>1, <2>2, <2>3 DEF Keeps048, Diverges048
  <2>5. QED
    BY <2>1, <2>2, <2>3, <2>4 DEF Keeps048, Stores048, Dirs048
<1>12. CASE Classify048
  <2>1. pc = "classify" /\ scenario = "048" /\ Keeps048
    BY <1>12 DEF Classify048, At, KeepsInv
  <2>2. CASE ~sut.fault
    <3>1. /\ pc' = "first" /\ sut' = Fresh048(TRUE, Migrated048) /\ Stays /\ ScriptStep
      <4> DEFINE fresh == Fresh048(TRUE, Migrated048)
      <4>1. Step("048", "classify", "first", fresh)
        BY <1>12, <2>2 DEF Classify048
      <4> HIDE DEF fresh
      <4>2. pc' = "first" /\ sut' = fresh /\ Stays /\ ScriptStep
        BY <4>1, StepIsStep
      <4>3. QED
        BY <4>2 DEF fresh
    <3>2. ~Diverges048(Migrated048)
      BY <2>1, <2>2 DEF Keeps048, Stores048, Diverges048, Migrated048, Dirs048
    <3>3. QED
      BY <1>3, <2>1, <3>1, <3>2
  <2>3. CASE sut.fault
    <3>1. /\ pc' = "collect" /\ Leaves
          /\ out'.says = [trials |-> 2, control |-> Diverges048(sut.control),
                          threw |-> sut.threw, diverged |-> Diverges048(Migrated048)]
          /\ Tells("048", out'.says, Here) => ScriptStep
      BY <1>12, <2>3, ReportIsStep DEF Classify048
    <3>2. ~Diverges048(sut.control) /\ (Here = "defect" => sut.threw)
      BY <2>1, <2>3 DEF Keeps048
    <3>3. Diverges048(Migrated048) <=> Here = "defect"
      BY <2>1, <2>3 DEF Keeps048, Stores048, Diverges048, Migrated048, Dirs048
    <3>4. Means048(out'.says, Here)
      BY <3>1, <3>2, <3>3 DEF Means048
    <3>5. Tells("048", out'.says, Here)
      BY <3>1, <3>4 DEF Tells, NotRun, Means, V1, V2
    <3>6. QED
      BY <2>1, <3>1, <3>5 DEF Keeps048
  <2>4. QED
    BY <2>2, <2>3
<1>13. CASE Judge("048", Pre048(Before), Post048(Before, After))
  <2>1. TellBefore("048") => SoundPre("048", Pre048(Before))
    BY TrialsAssumption
       DEF TellBefore, Tells, Means, Means048, Pre048, Verdict, SoundPre, Verdicts, DropFailures,
           Statuses, CollectWithoutDefect, DependOnTiming, V1, V2, Truths
  <2>2. TellBoth("048") => SoundPost("048", Post048(Before, After))
    BY TrialsAssumption
       DEF TellBoth, TellBefore, Tells, Means, Means048, Post048, Verdict,
           SoundPost, Verdicts, DropFailures, Statuses, CollectWithoutDefect, DependOnTiming,
           CollectInertHead, BlindToFixes, V1, V2, Truths
  <2>3. QED
    BY <1>13, <2>1, <2>2, JudgeIsStep DEF ScriptStep, Keeps048
<1>14. QED
  BY <1>1, <1>2, <1>5, <1>6, <1>7, <1>8, <1>9, <1>10, <1>11, <1>12, <1>13
     DEF Scenario048, Run048

(* Both builds sleep for the same time, so that a head build with fewer    *)
(* entries than were set shows that the base build slept long enough too.  *)
LEMMA StepsTtl ==
  ASSUME RunInv, KeepsInv, PendingTtl
  PROVE  scenario = "mcp-pending-ttl" /\ ScriptStep /\ KeepsTtl'
<1> DEFINE Ttl == "mcp-pending-ttl"
<1> USE DEF Stays, Leaves, FrameLabels
<1>1. ASSUME NEW sleep \in SleepOption, Launch(Ttl, "set", [sleep |-> sleep, set |-> 0])
      PROVE  scenario = Ttl /\ ScriptStep /\ KeepsTtl'
  <2>1. /\ scenario = Ttl /\ pc = "launch" /\ pc' = "set"
        /\ sut' = [sleep |-> sleep, set |-> 0] /\ ScriptStep
        /\ UNCHANGED <<scenario, truth, build, out, measured>>
    BY <1>1, LaunchIsStep DEF Launch, Act, given
  <2>2. KeepsTtl /\ measured[build] = NotRun /\ build \in Builds
    BY <2>1 DEF KeepsInv, RunInv, MeasuredInOrder, Types
  <2>3. "sleep" \in DOMAIN measured["base"] => sleep = measured["base"].sleep
    BY DEF SleepOption
  <2>4. QED
    BY <2>1, <2>2, <2>3 DEF KeepsTtl
<1>2. CASE MarkedLine(Ttl)
  <2>1. scenario = Ttl /\ pc = "collect" /\ pc' \in {"launch", "judge"} /\ ScriptStep
    BY <1>2, ReturnIsStep DEF MarkedLine, Return
  <2>2. /\ measured' = [measured EXCEPT ![build] = Reading(out)]
        /\ out' = Ended("running") /\ build \in Builds /\ DOMAIN measured = Builds
        /\ build' = build \/ (build = "base" /\ build' = "head")
    BY <1>2 DEF MarkedLine, Return, RunInv, Types
  <2>3. KeepsTtl
    BY <2>1 DEF KeepsInv
  <2>4. build = "base" => measured["head"] = NotRun
    BY DEF RunInv, MeasuredInOrder
  <2>5. CASE build = "base"
    <3>1. measured'["head"] = NotRun /\ out'.end # "payload"
      BY <2>2, <2>4, <2>5 DEF Builds, Ended
    <3>2. QED
      BY <2>1, <3>1 DEF KeepsTtl
  <2>6. CASE build = "head"
    <3>1. measured'["base"] = measured["base"] /\ measured'["head"] = Reading(out)
      BY <2>2, <2>6 DEF Builds
    <3>2. out'.end # "payload"
      BY <2>2 DEF Ended
    <3>3. \/ Reading(out) = NoTrials \/ Reading(out) = Failed
          \/ out.end = "payload" /\ Reading(out) = out.says
      BY DEF Reading
    <3>4. "sleep" \in DOMAIN Reading(out) => out.end = "payload" /\ Reading(out) = out.says
      BY <3>3 DEF NoTrials, Failed
    <3>5. QED
      BY <2>1, <2>3, <2>6, <3>1, <3>2, <3>4 DEF KeepsTtl
  <2>7. QED
    BY <2>1, <2>2, <2>5, <2>6 DEF Builds
<1>3. CASE Here = "inert" /\ Report(Ttl, "set", Failed)
  <2>1. /\ scenario = Ttl /\ pc' = "collect" /\ ScriptStep
        /\ UNCHANGED <<build, measured>> /\ out' = Printed(Failed)
    BY <1>3, ReportIsStep, FailedTells DEF Report, Exit
  <2>2. KeepsTtl /\ "sleep" \notin DOMAIN out'.says
    BY <2>1 DEF KeepsInv, Printed, Failed
  <2>3. QED
    BY <2>1, <2>2 DEF KeepsTtl
<1>4. CASE Step(Ttl, "set", "sleep",
               [sut EXCEPT !.set = IF Here = "inert" THEN 0 ELSE Trials])
  <2>1. /\ scenario = Ttl /\ pc = "set" /\ pc' = "sleep" /\ Stays /\ ScriptStep
        /\ UNCHANGED <<truth, build, out, measured>>
    BY <1>4, StepIsStep DEF Step, Act, given
  <2>2. KeepsTtl /\ DOMAIN sut = {"sleep", "set"}
    BY <2>1 DEF KeepsInv, KeepsTtl
  <2>3. sut'.sleep = sut.sleep /\ sut'.set = IF Here = "inert" THEN 0 ELSE Trials
    BY <1>4, <2>2 DEF Step, Act
  <2>4. Here' = Here
    BY <2>1 DEF Here
  <2>5. QED
    BY <2>1, <2>2, <2>3, <2>4 DEF KeepsTtl
<1>5. CASE SleepPastTtl
  <2>1. /\ scenario = Ttl /\ pc = "sleep" /\ pc' = "collect"
        /\ UNCHANGED <<build, measured>>
    BY <1>5, ReportIsStep DEF SleepPastTtl, Report, Exit
  <2>2. /\ KeepsTtl /\ sut.set = IF Here = "inert" THEN 0 ELSE Trials
    BY <2>1 DEF KeepsInv, KeepsTtl
  <2>3. out'.says = [trials |-> Trials, sleep |-> sut.sleep, set |-> sut.set,
                     after |-> IF Here = "fixed" /\ sut.sleep = "long" THEN 0 ELSE sut.set]
    BY <1>5 DEF SleepPastTtl, Report, Exit, Printed
  <2>4. MeansTtl(out'.says, Here) /\ out'.says # NotRun /\ out'.says.sleep = sut.sleep
    BY <2>2, <2>3, TrialsAssumption DEF MeansTtl, NotRun
  <2>5. Tells(Ttl, out'.says, Here)
    BY <2>4 DEF Tells, Means, V1, V2
  <2>6. QED
    BY <1>5, <2>1, <2>2, <2>4, <2>5, ReportIsStep DEF SleepPastTtl, KeepsTtl
<1>6. CASE Judge(Ttl, PreTtl(Before), PostTtl(Before, After))
  <2>1. TellBefore(Ttl) => SoundPre(Ttl, PreTtl(Before))
    BY TrialsAssumption
       DEF TellBefore, Tells, Means, MeansTtl, PreTtl, NothingSet, Bad, Verdict,
           SoundPre, Verdicts, DropFailures, Statuses, CollectWithoutDefect, DependOnTiming, V1, V2, Truths
  <2>2. ASSUME scenario = Ttl, TellBoth(Ttl)
        PROVE  SoundPost(Ttl, PostTtl(Before, After))
    <3>1. build = "head"
      BY <2>2 DEF TellBoth, Tells, After, RunInv, MeasuredInOrder, Types, Builds
    <3>2. KeepsTtl /\ After # NotRun
      BY <2>2 DEF KeepsInv, TellBoth, Tells
    <3>3. Before.sleep = After.sleep \/ "sleep" \notin DOMAIN Before \/ "sleep" \notin DOMAIN After
      BY <3>1, <3>2 DEF KeepsTtl, Before, After
    <3>4. QED
      BY <2>2, <3>3, TrialsAssumption
         DEF TellBoth, TellBefore, Tells, Means, MeansTtl, PostTtl, NothingSet, Bad,
             Verdict, SoundPost, Verdicts, DropFailures, Statuses, CollectWithoutDefect, DependOnTiming,
             CollectInertHead, BlindToFixes, V1, V2, Truths
  <2>3. /\ scenario = Ttl /\ Judges /\ pc' = "done"
    BY <1>6, <2>1, <2>2, JudgeIsStep DEF Judge
  <2>4. UNCHANGED <<build, out, measured>> /\ KeepsTtl
    BY <2>3 DEF Judges, KeepsInv
  <2>5. QED
    BY <2>3, <2>4 DEF ScriptStep, KeepsTtl
<1>7. QED
  BY <1>1, <1>2, <1>3, <1>4, <1>5, <1>6 DEF PendingTtl, RunTtl, SetPending


-----------------------------------------------------------------------------
(* What run_scenario returns is what the probe told, or tells nothing.     *)
LEMMA ReadingTells ==
  ASSUME RunInv, scenario # "cron-manual-run"
  PROVE  Tells(scenario, Reading(out), Here)
BY FailedTells DEF RunInv, MeasuredTells, Reading

(* And the frame takes a return as such.                                   *)
LEMMA ReturnReads ==
  ASSUME RunInv, NEW s, s # "cron-manual-run", NEW cleaned, Return(s, Reading(out), cleaned)
  PROVE  /\ scenario = s /\ Returns /\ left' = left \ cleaned
         /\ pc = "collect" /\ pc' \in {"launch", "judge"}
<1>1. /\ scenario = s /\ pc = "collect" /\ measured' = [measured EXCEPT ![build] = Reading(out)]
      /\ left' = left \ cleaned
      /\ IF mode = "post-sol" /\ build = "base"
         THEN build' = "head" /\ pc' = "launch"
         ELSE build' = build /\ pc' = "judge"
      /\ out' = Ended("running") /\ UNCHANGED <<given, status>>
  BY DEF Return, At
<1>2. Tells(scenario, Reading(out), Here)
  BY <1>1, ReadingTells
<1>3. measured'[build] = Reading(out)
  BY <1>1 DEF RunInv, Types
<1>4. QED
  BY <1>1, <1>2, <1>3 DEF Returns

(* A run stays with its scenario.                                          *)
LEMMA ScenarioFixed ==
  ASSUME FrameStep
  PROVE  scenario' = scenario
BY DEF FrameStep, Moves, Ends, Returns, Raises, Judges, Frame, given

(* The script is there as long as its probe may run.                       *)
LEMMA ScriptKept ==
  ASSUME RunInv, LeftInv, scenario \in ScriptScenarios, ScriptStep
  PROVE  FrameStep /\ LeftInv'
<1>1. LeftScript /\ scenario # "cron-manual-run"
  BY DEF LeftInv, ScriptScenarios, InProbe
<1>2. ASSUME FrameStep, LeftScript'
      PROVE  LeftInv'
  <2>1. scenario' = scenario
    BY <1>2, ScenarioFixed
  <2>2. QED
    BY <1>2, <2>1 DEF LeftInv, ScriptScenarios, InProbe, V1, V2
<1>3. CASE /\ Moves /\ Probing'
           /\ left' = left \/ (pc = "launch" /\ left' = left \cup {"script"})
  <2>1. pc # "collect" /\ UNCHANGED <<measured, status>>
    BY <1>3 DEF Moves, Running, Frame, Probing, FrameLabels
  <2>2. LeftScript'
    BY <1>1, <1>3, <2>1 DEF LeftScript, Moves, Running, Probing, FrameLabels
  <2>3. QED
    BY <1>2, <1>3, <2>2 DEF FrameStep
<1>4. CASE /\ Ends
           /\ left' = left \/ (out'.end = "timeout" /\ left' = left \cup {"orphans"})
  <2>1. /\ pc \notin FrameLabels \/ pc = "launch"
        /\ pc' = "collect" /\ UNCHANGED <<measured, status>>
    BY <1>4 DEF Ends, Running, FrameLabels, given
  <2>2. LeftScript'
    BY <1>1, <1>4, <2>1 DEF LeftScript, Probing, FrameLabels
  <2>3. QED
    BY <1>2, <1>4, <2>2 DEF FrameStep
<1>5. ASSUME Return(scenario, Reading(out), {"script"})
      PROVE  FrameStep /\ LeftInv'
  <2>1. Returns /\ left' = left \ {"script"} /\ pc = "collect" /\ pc' \in {"launch", "judge"}
    BY <1>1, <1>5, ReturnReads
  <2>2. build \in Builds /\ DOMAIN measured = Builds /\ measured[build] = NotRun
    BY <2>1 DEF RunInv, Types, MeasuredInOrder
  <2>3. /\ \A b \in Builds \ {build} : measured'[b] = measured[b]
        /\ measured'[build] = Reading(out) /\ status' = status
    BY <1>5, <2>2 DEF Return, At
  <2>4. out.end = "timeout" => Bad(measured'[build])
    BY <2>3 DEF Reading, Failed, Bad
  <2>5. (\E b \in Builds : Bad(measured[b])) => (\E b \in Builds : Bad(measured'[b]))
    BY <2>2, <2>3, NotRunIsNotBad
  <2>6. "orphans" \in left' =>
           (\E b \in Builds : Bad(measured'[b])) \/ status' = "blocked-env"
    BY <1>1, <2>1, <2>2, <2>3, <2>4, <2>5 DEF LeftScript
  <2>7. left' \subseteq {"orphans"}
    BY <1>1, <2>1 DEF LeftScript
  <2>8. LeftScript'
    BY <2>6, <2>7 DEF LeftScript, Bad
  <2>9. QED
    BY <1>2, <2>1, <2>8 DEF FrameStep
<1>6. CASE Raise(scenario, {"script"})
  <2>1. /\ Raises /\ left' = left \ {"script"} /\ pc = "collect" /\ pc' = "done"
        /\ status' = "blocked-env"
    BY <1>6 DEF Raise, Raises, At
  <2>2. left' \subseteq {"orphans"}
    BY <1>1, <2>1 DEF LeftScript
  <2>3. LeftScript'
    BY <2>1, <2>2 DEF LeftScript
  <2>4. QED
    BY <1>2, <2>1, <2>3 DEF FrameStep
<1>7. CASE Judges
  <2>1. pc = "judge" /\ pc' = "done" /\ UNCHANGED <<left, out, measured>> /\ BadBlocks'
    BY <1>7 DEF Judges, Sound
  <2>2. status = "pending"
    BY <2>1 DEF RunInv, Types
  <2>3. LeftScript'
    BY <1>1, <2>1, <2>2 DEF LeftScript, BadBlocks, Probing, FrameLabels
  <2>4. QED
    BY <1>2, <1>7, <2>3 DEF FrameStep
<1>8. QED
  BY <1>3, <1>4, <1>5, <1>6, <1>7 DEF ScriptStep, LastLine, MarkedLine

(* A step of the run that stays inside a scenario.                         *)
LEMMA ActMoves ==
  ASSUME NEW s, NEW from, NEW to, NEW next, NEW items,
         from \notin {"collect", "judge", "done", "killed"},
         to \notin {"launch", "collect", "judge", "done"},
         Act(s, from, to, next, items)
  PROVE  /\ scenario = s /\ pc = from /\ pc' = to /\ sut' = next /\ left' = items
         /\ Moves /\ UNCHANGED <<scenario, truth, build, out, status>>
BY DEF Act, At, Moves, Running, Frame, given

(* The same without a change of what is outside the home.                  *)
LEMMA StepMoves ==
  ASSUME NEW s, NEW from, NEW to, NEW next,
         from \notin {"collect", "judge", "done", "killed"},
         to \notin {"launch", "collect", "judge", "done"},
         Step(s, from, to, next)
  PROVE  /\ scenario = s /\ pc = from /\ pc' = to /\ sut' = next /\ left' = left
         /\ Moves /\ UNCHANGED <<scenario, truth, build, out, status>>
BY ActMoves DEF Step

(* The end of a probe, with what it tells.                                 *)
LEMMA ReportEnds ==
  ASSUME NEW s, NEW from, NEW payload,
         from \notin {"collect", "judge", "done", "killed"},
         Report(s, from, payload)
  PROVE  /\ scenario = s /\ pc = from /\ pc' = "collect" /\ out' = Printed(payload)
         /\ UNCHANGED <<scenario, truth, build, sut, left>>
         /\ Tells(s, payload, Here) => Ends
BY DEF Report, Exit, At, Ends, Running, Printed, given

-----------------------------------------------------------------------------
(* gateway-map-size never gets as far as a probe.                          *)
LEMMA StepsMapSize ==
  ASSUME RunInv, LeftInv, MapSize
  PROVE  scenario = "gateway-map-size" /\ FrameStep /\ left' = {}
<1>1. CASE PrerequisiteMissing({"gateway-map-size"})
  BY <1>1 DEF PrerequisiteMissing, LeftInv, FrameStep, Ends, Running, Ended, given
<1>2. CASE LastLine("gateway-map-size")
  <2>1. CASE Raise("gateway-map-size", {"script"})
    BY <2>1 DEF Raise, At, Raises, FrameStep, LeftInv
  <2>2. CASE Return("gateway-map-size", Reading(out), {"script"})
    BY <2>2, ReturnReads DEF FrameStep, LeftInv
  <2>3. QED
    BY <1>2, <2>1, <2>2 DEF LastLine
<1>3. CASE Judge("gateway-map-size", PreMapSize(Before), PostMapSize(Before, After))
  <2>1. TellBefore("gateway-map-size") => SoundPre("gateway-map-size", PreMapSize(Before))
    BY DEF TellBefore, Tells, Means, PreMapSize, Verdict, SoundPre, Verdicts, DropFailures, Statuses
  <2>2. TellBoth("gateway-map-size") => SoundPost("gateway-map-size", PostMapSize(Before, After))
    BY DEF TellBoth, TellBefore, Tells, Means, PostMapSize, Verdict, SoundPost, Verdicts,
           DropFailures, Statuses
  <2>3. QED
    BY <1>3, <2>1, <2>2, JudgeIsStep DEF Judges, FrameStep, LeftInv
<1>4. QED
  BY <1>1, <1>2, <1>3 DEF MapSize, RunMapSize
-----------------------------------------------------------------------------
(* The writer and the run that kills it.  The parent's steps first.        *)
WriterState ==
    /\ DOMAIN sut = FieldsV /\ sut.valid \in Int
    /\ Here # "defect" => sut.lockouts = 0
FileKept == Here # "defect" => sut.file \in {"seed", "big"}
AtV == scenario \in {V1, V2} /\ pc \in {"seed", "watch", "kill", "integrity"}

(* What is known while the run is at one of these places.                  *)
LEMMA KeptV ==
  ASSUME KeepsInv, AtV
  PROVE  WriterState /\ (pc # "seed" => FileKept)
BY DEF KeepsInv, KeepsV, AtV, WriterState, FileKept

(* A step between these places, as far as the invariant is concerned.      *)
LEMMA MovesInV ==
  ASSUME LeftInv, scenario \in {V1, V2}, Moves, out.end # "prerequisite",
         pc' \in {"seed", "watch", "kill", "integrity"},
         WriterState', pc' # "seed" => FileKept',
         left' \subseteq {"scripts", "writer", "orphans"},
         pc' \in {"seed", "integrity"} => "writer" \notin left',
         pc' = "watch" /\ sut'.writer = "exited" => "writer" \notin left'
  PROVE  FrameStep /\ LeftInv' /\ KeepsV'
<1>1. UNCHANGED <<scenario, out>> /\ FrameStep
  BY DEF Moves, Frame, given, FrameStep
<1>2. LeftV' /\ KeepsV'
  BY <1>1 DEF LeftV, KeepsV, WriterState, FileKept
<1>3. QED
  BY <1>1, <1>2 DEF LeftInv, ScriptScenarios, InProbe, V1, V2

(* A new writer finds a file that is valid.                                *)
LEMMA SeedAndSpawnKeeps ==
  ASSUME RunInv, KeepsInv, LeftInv, NEW s \in {V1, V2}, SeedAndSpawn(s)
  PROVE  scenario = s /\ FrameStep /\ LeftInv' /\ KeepsV'
<1>1. scenario = s /\ pc = "seed" /\ AtV
  BY DEF SeedAndSpawn, At, AtV
<1>2. /\ WriterState /\ LeftV /\ left \subseteq {"scripts", "orphans"}
  BY <1>1, KeptV DEF LeftInv, LeftV
<1>3. CASE Act(s, "seed", "watch", [sut EXCEPT !.file = "seed", !.writer = "starting"],
               left \cup {"writer"})
  <2>1. /\ pc' = "watch" /\ left' = left \cup {"writer"} /\ Moves
        /\ UNCHANGED <<truth, build>>
        /\ sut' = [sut EXCEPT !.file = "seed", !.writer = "starting"]
    BY <1>3, ActMoves
  <2>2. sut'.file = "seed" /\ sut'.writer = "starting" /\ DOMAIN sut' = DOMAIN sut
        /\ sut'.lockouts = sut.lockouts /\ sut'.valid = sut.valid
    BY <1>2, <2>1 DEF WriterState, FieldsV
  <2>3. WriterState' /\ FileKept'
    BY <1>2, <2>1, <2>2 DEF WriterState, FileKept, Here
  <2>4. QED
    BY <1>1, <1>2, <2>1, <2>2, <2>3, MovesInV DEF LeftV
<1>4. ASSUME NEW survivors \in Survivors,
             Act(s, "seed", "seed", EndTrial(FALSE, FALSE, FALSE), left \cup survivors)
      PROVE  FrameStep /\ LeftInv' /\ KeepsV'
  <2>1. /\ pc' = "seed" /\ left' = left \cup survivors /\ Moves
        /\ UNCHANGED <<truth, build>>
    <3> DEFINE next == EndTrial(FALSE, FALSE, FALSE)
               items == left \cup survivors
    <3>1. Act(s, "seed", "seed", next, items)
      BY <1>4
    <3> HIDE DEF next
    <3>2. QED
      BY <3>1, ActMoves
  <2>2. sut' = EndTrial(FALSE, FALSE, FALSE)
    BY <1>4 DEF Act
  <2>3. /\ DOMAIN Clean = DOMAIN sut /\ Clean.lockouts = sut.lockouts
        /\ Clean.valid = sut.valid
    BY <1>2 DEF WriterState, FieldsV, Clean
  <2>4. /\ DOMAIN sut' = DOMAIN sut /\ sut'.lockouts = sut.lockouts + 0
        /\ sut'.valid = sut.valid + 0
    BY <1>2, <2>2, <2>3 DEF WriterState, FieldsV, EndTrial, One
  <2>5. WriterState'
    BY <1>2, <2>1, <2>4 DEF WriterState, Here
  <2>6. left' \subseteq {"scripts", "orphans"}
    BY <1>2, <2>1 DEF Survivors
  <2>7. QED
    BY <1>1, <1>2, <2>1, <2>5, <2>6, MovesInV DEF LeftV
<1>5. QED
  BY <1>1, <1>3, <1>4 DEF SeedAndSpawn

(* A trial counts a lockout only when the file is cut, which the code with *)
(* the defect alone can leave behind.                                      *)
LEMMA DiskIntegrityKeeps ==
  ASSUME RunInv, KeepsInv, LeftInv, NEW s \in {V1, V2}, NEW fired, DiskIntegrity(s, fired)
  PROVE  scenario = s /\ FrameStep /\ LeftInv' /\ KeepsV'
<1> DEFINE next == IF Corrupt \/ sut.attempt = Attempts
                   THEN EndTrial(TRUE, sut.fired \/ fired, Corrupt)
                   ELSE [Clean EXCEPT !.attempt = @ + 1, !.fired = @ \/ fired]
<1>1. Step(s, "integrity", "seed", next)
  BY DEF DiskIntegrity
<1>2. /\ scenario = s /\ pc = "integrity" /\ pc' = "seed" /\ left' = left /\ Moves
      /\ UNCHANGED <<truth, build>> /\ sut' = next
  <2> HIDE DEF next
  <2> QED BY <1>1, StepMoves
<1>3. AtV /\ LeftV /\ WriterState /\ FileKept
  BY <1>2, KeptV DEF AtV, LeftInv
<1>4. /\ DOMAIN Clean = DOMAIN sut /\ Clean.lockouts = sut.lockouts
      /\ Clean.valid = sut.valid
  BY <1>3 DEF WriterState, FieldsV, Clean
<1>5. Here # "defect" => ~Corrupt
  BY <1>3 DEF FileKept, Corrupt
<1>6. DOMAIN next = DOMAIN sut /\ next.valid \in {sut.valid, sut.valid + 1}
  BY <1>3, <1>4 DEF WriterState, FieldsV, EndTrial, One
<1>7. Here # "defect" => next.lockouts = 0
  BY <1>3, <1>4, <1>5 DEF WriterState, FieldsV, EndTrial, One
<1>8. WriterState'
  <2> HIDE DEF next
  <2> QED BY <1>2, <1>3, <1>6, <1>7 DEF WriterState, Here
<1>9. QED
  BY <1>2, <1>3, <1>8, MovesInV DEF LeftV

(* What a step of v1 or v2 that leaves the file alone preserves.           *)
LEMMA WatchStepKeeps ==
  ASSUME RunInv, KeepsInv, LeftInv, NEW s \in {V1, V2}, NEW from, NEW to, NEW next, NEW items,
         from \in {"watch", "kill"}, to \in {"kill", "integrity"},
         DOMAIN next = DOMAIN sut, next.lockouts = sut.lockouts,
         next.file = sut.file, next.valid = sut.valid,
         items \subseteq left \cup {"orphans"}, to = "integrity" => "writer" \notin items,
         Act(s, from, to, next, items)
  PROVE  scenario = s /\ FrameStep /\ LeftInv' /\ KeepsV'
<1>1. /\ scenario = s /\ pc = from /\ pc' = to /\ left' = items /\ sut' = next /\ Moves
      /\ UNCHANGED <<truth, build>>
  BY ActMoves
<1>2. AtV /\ LeftV /\ WriterState /\ FileKept
  BY <1>1, KeptV DEF AtV, LeftInv
<1>3. /\ DOMAIN sut' = DOMAIN sut /\ sut'.lockouts = sut.lockouts
      /\ sut'.file = sut.file /\ sut'.valid = sut.valid
  BY <1>1, <1>2 DEF WriterState, FieldsV
<1>4. WriterState' /\ FileKept'
  BY <1>1, <1>2, <1>3 DEF WriterState, FileKept, Here
<1>5. QED
  BY <1>1, <1>2, <1>4, MovesInV DEF LeftV

(* The launcher of the writer is killed, with or without the writer.       *)
LEMMA KillKeeps ==
  ASSUME RunInv, KeepsInv, LeftInv, NEW s \in {V1, V2}, NEW from \in {"watch", "kill"},
         NEW killed, Kill(s, from, killed)
  PROVE  scenario = s /\ FrameStep /\ LeftInv' /\ KeepsV'
<1>1. PICK survivors \in Survivors :
        Act(s, from, "integrity",
            [sut EXCEPT !.killed = killed, !.orphan = @ \/ survivors # {}],
            (left \ {"writer"}) \cup survivors)
  BY DEF Kill
<1> DEFINE orphan == sut.orphan \/ survivors # {}
           next == [sut EXCEPT !.killed = killed, !.orphan = orphan]
           items == (left \ {"writer"}) \cup survivors
<1>2. Act(s, from, "integrity", next, items)
  BY <1>1
<1>3. items \subseteq left \cup {"orphans"} /\ "writer" \notin items
  BY DEF Survivors
<1>4. scenario = s /\ pc = from
  BY <1>2 DEF Act, At
<1>5. DOMAIN sut = FieldsV
  BY <1>4, KeptV DEF AtV, WriterState
<1>6. /\ DOMAIN next = DOMAIN sut /\ next.lockouts = sut.lockouts
      /\ next.file = sut.file /\ next.valid = sut.valid
  BY <1>5 DEF FieldsV
<1> HIDE DEF orphan, next, items
<1>7. QED
  BY <1>2, <1>3, <1>6, WatchStepKeeps

(* A step of the run that finds the writer at its end or sees its write.   *)
LEMMA SeenKeeps ==
  ASSUME RunInv, KeepsInv, LeftInv, NEW s \in {V1, V2}, NEW to \in {"kill", "integrity"},
         to = "integrity" => sut.writer = "exited", Step(s, "watch", to, sut)
  PROVE  scenario = s /\ FrameStep /\ LeftInv' /\ KeepsV'
<1>1. Act(s, "watch", to, sut, left) /\ pc = "watch" /\ scenario = s
  BY DEF Step, Act, At
<1>2. to = "integrity" => "writer" \notin left
  BY <1>1 DEF LeftInv, LeftV
<1>3. QED
  BY <1>1, <1>2, WatchStepKeeps

(* What the two scenarios do about a writer.                               *)
LEMMA KillAttemptKeeps ==
  ASSUME RunInv, KeepsInv, LeftInv, KillAttemptV1 \/ KillAttemptV2
  PROVE  scenario \in {V1, V2} /\ FrameStep /\ LeftInv' /\ KeepsV'
<1>1. PICK s \in {V1, V2} :
        \/ \E from \in {"watch", "kill"}, killed \in BOOLEAN : Kill(s, from, killed)
        \/ Step(s, "watch", "kill", sut)
        \/ sut.writer = "exited" /\ Step(s, "watch", "integrity", sut)
  BY DEF KillAttemptV1, KillAttemptV2
<1>2. QED
  BY <1>1, KillKeeps, SeenKeeps

(* The writer, which the run may have left behind.                         *)
LEMMA WriterKeeps ==
  ASSUME RunInv, KeepsInv, LeftInv, Writers
  PROVE  scenario \in {V1, V2} /\ FrameStep /\ LeftInv' /\ KeepsV'
<1>1. scenario \in {V1, V2} /\ "writer" \in left
  BY DEF Writers, StartWriter, WriterV1, WriterV2
<1>2. LeftV /\ pc \notin {"launch", "judge", "done", "seed", "integrity", "collect"}
  BY <1>1 DEF LeftInv, LeftV
<1>3. \/ /\ left' = left
         /\ \/ sut' = [sut EXCEPT !.writer = "ready", !.seen = TRUE]
            \/ sut' = BeginSet
            \/ sut' = EndSet("ready")
            \/ sut' = EndSet("leaving")
      \/ left' = left \ {"writer"} /\ sut' = [sut EXCEPT !.writer = "exited"]
  BY DEF Writers, StartWriter, WriterV1, WriterV2, Writes, WriterExits, Act
<1>4. pc' = pc /\ UNCHANGED Frame
  BY DEF Writers, StartWriter, WriterV1, WriterV2, Writes, WriterExits, Act, Frame, given
<1>5. Moves /\ UNCHANGED <<scenario, truth, build, out>> /\ FrameStep
  BY <1>4 DEF Moves, Frame, given, FrameStep
<1>6. CASE pc \in {"watch", "kill"}
  <2>1. WriterState /\ FileKept
    BY <1>1, <1>6, KeptV DEF AtV
  <2>2. /\ DOMAIN sut' = DOMAIN sut /\ sut'.lockouts = sut.lockouts
        /\ sut'.valid = sut.valid
        /\ Here # "defect" => sut'.file \in {sut.file, "big"}
        /\ sut'.writer = "exited" => left' = left \ {"writer"}
    BY <1>3, <2>1 DEF WriterState, FieldsV, BeginSet, Begun, EndSet, Written
  <2>3. WriterState' /\ FileKept'
    BY <1>5, <2>1, <2>2 DEF WriterState, FileKept, Here
  <2>4. QED
    BY <1>1, <1>2, <1>3, <1>4, <1>5, <1>6, <2>2, <2>3, MovesInV DEF LeftV
<1>7. CASE pc \notin {"watch", "kill"}
  <2>1. LeftV'
    BY <1>2, <1>3, <1>4, <1>5, <1>7 DEF LeftV
  <2>2. KeepsV'
    BY <1>2, <1>4, <1>7 DEF KeepsV
  <2>3. QED
    BY <1>1, <1>5, <2>1, <2>2 DEF LeftInv, ScriptScenarios, InProbe, V1, V2
<1>8. QED
  BY <1>6, <1>7

(* The start and the end of the run.                                       *)
LEMMA FrameV ==
  ASSUME LeftInv, scenario \in {V1, V2}, FrameStep, LeftV'
  PROVE  LeftInv'
<1>1. scenario' = scenario
  BY ScenarioFixed
<1>2. QED
  BY <1>1 DEF LeftInv, ScriptScenarios, InProbe, V1, V2

(* A writer that was not killed does to the file what it did before.       *)
LEMMA OrphanWritesKeeps ==
  ASSUME RunInv, KeepsInv, LeftInv, OrphanWrites
  PROVE  scenario \in {V1, V2} /\ FrameStep /\ LeftInv' /\ KeepsV'
<1>1. /\ scenario \in {V1, V2} /\ pc \in {"watch", "integrity"} /\ pc' = pc
      /\ sut' \in {Begun, Written}
      /\ UNCHANGED <<given, build, out, left, measured, status>>
  BY DEF OrphanWrites, Act
<1>2. AtV /\ LeftV /\ WriterState /\ FileKept /\ out.end # "prerequisite"
  BY <1>1, KeptV DEF AtV, LeftInv, LeftV
<1>3. /\ DOMAIN sut' = DOMAIN sut /\ sut'.lockouts = sut.lockouts
      /\ sut'.valid = sut.valid /\ sut'.writer = sut.writer
      /\ Here # "defect" => sut'.file \in {sut.file, "big"}
  BY <1>1, <1>2 DEF WriterState, FieldsV, Begun, Written
<1>4. WriterState' /\ FileKept'
  BY <1>1, <1>2, <1>3 DEF WriterState, FileKept, Here, given
<1>5. Moves
  BY <1>1 DEF Moves, Frame
<1>6. QED
  BY <1>1, <1>2, <1>3, <1>4, <1>5, MovesInV DEF LeftV

(* At its end there is one process less.                                   *)
LEMMA OrphansExitKeeps ==
  ASSUME RunInv, KeepsInv, LeftInv, OrphansExit
  PROVE  scenario \in {V1, V2} /\ FrameStep /\ LeftInv' /\ KeepsV'
<1>1. /\ scenario \in {V1, V2} /\ left' = left \ {"orphans"}
      /\ UNCHANGED <<given, build, pc, sut, out, measured, status>>
  BY DEF OrphansExit, Act
<1>2. FrameStep
  BY <1>1 DEF FrameStep, Moves, Frame
<1>3. LeftV /\ KeepsV
  BY <1>1 DEF LeftInv, KeepsInv
<1>4. LeftV' /\ KeepsV'
  BY <1>1, <1>3 DEF LeftV, KeepsV, Here, given
<1>5. QED
  BY <1>1, <1>2, <1>4, FrameV

(* The measurement is made when the writer has ended.                      *)
LEMMA MeasuredKeeps ==
  ASSUME RunInv, KeepsInv, LeftInv, NEW s \in {V1, V2}, out.end # "prerequisite", Measured(s)
  PROVE  scenario = s /\ FrameStep /\ LeftInv' /\ KeepsV'
<1> DEFINE m == [trials |-> Trials, measured |-> sut.valid,
                 fired |-> sut.firedTrials, lockouts |-> sut.lockouts,
                 failed |-> Trials - sut.valid]
<1>1. /\ scenario = s /\ pc = "collect" /\ measured' = [measured EXCEPT ![build] = m]
      /\ left' = left \ {"scripts"} /\ out' = Ended("running")
      /\ IF mode = "post-sol" /\ build = "base"
         THEN build' = "head" /\ pc' = "launch"
         ELSE build' = build /\ pc' = "judge"
      /\ UNCHANGED <<given, status>>
  BY DEF Measured, Return, At
<1>2. LeftV /\ (Here # "defect" => sut.lockouts = 0) /\ sut.valid \in Int
  BY <1>1 DEF LeftInv, KeepsInv, KeepsV
<1>3. Tells(scenario, m, Here)
  <2>1. /\ m.lockouts = sut.lockouts /\ m # NotRun /\ m.trials = Trials
        /\ m.measured = sut.valid /\ m.failed = Trials - sut.valid
    BY TrialsAssumption DEF NotRun
  <2>2. QED
    BY <1>1, <1>2, <2>1 DEF Tells, Means, MeansV, V1, V2
<1>4. measured'[build] = m
  BY <1>1 DEF RunInv, Types
<1>5. Returns /\ FrameStep
  <2> HIDE DEF m
  <2> QED BY <1>1, <1>3, <1>4 DEF Returns, FrameStep
<1>6. left' \subseteq {"orphans"} /\ out'.end = "running" /\ pc' \in {"launch", "judge"}
  BY <1>1, <1>2 DEF LeftV, Ended
<1>7. LeftV' /\ KeepsV'
  BY <1>6 DEF LeftV, KeepsV
<1>8. QED
  BY <1>1, <1>5, <1>7, FrameV

(* The rest of what the run does.                                          *)
LEMMA RunVKeeps ==
  ASSUME RunInv, KeepsInv, LeftInv, RunV1 \/ RunV2
  PROVE  scenario \in {V1, V2} /\ FrameStep /\ LeftInv' /\ KeepsV'
<1>1. PICK s \in {V1, V2} :
        \/ Act(s, "launch", "seed", FreshTrials, left \cup {"scripts"})
        \/ At(s, "seed") /\ Step(s, "seed", "collect", sut)
        \/ At(s, "collect") /\ out.end # "prerequisite" /\ Measured(s)
        \/ At(s, "collect") /\ out.end = "prerequisite" /\ LastLine(s)
  BY DEF RunV1, RunV2
<1>2. CASE Act(s, "launch", "seed", FreshTrials, left \cup {"scripts"})
  <2>1. /\ scenario = s /\ pc = "launch" /\ pc' = "seed" /\ left' = left \cup {"scripts"}
        /\ sut' = FreshTrials /\ Moves
    BY <1>2, ActMoves
  <2>2. LeftV /\ left \subseteq {"orphans"} /\ out.end # "prerequisite"
    BY <2>1 DEF LeftInv, LeftV
  <2>3. WriterState'
    BY <2>1 DEF WriterState, FieldsV, FreshTrials
  <2>4. QED
    BY <2>1, <2>2, <2>3, MovesInV
<1>3. CASE At(s, "seed") /\ Step(s, "seed", "collect", sut)
  <2>1. /\ scenario = s /\ pc = "seed" /\ pc' = "collect"
        /\ UNCHANGED <<given, build, sut, left, out, measured, status>>
    BY <1>3 DEF Step, Act, At
  <2>2. LeftV /\ WriterState /\ AtV
    BY <2>1, KeptV DEF LeftInv, AtV
  <2>3. Ends /\ FrameStep
    BY <2>1 DEF Ends, FrameStep, Running, RunInv, MeasuredTells, V1, V2
  <2>4. LeftV' /\ KeepsV'
    BY <2>1, <2>2 DEF LeftV, KeepsV, WriterState, Here, given
  <2>5. QED
    BY <2>1, <2>3, <2>4, FrameV
<1>4. CASE At(s, "collect") /\ out.end # "prerequisite" /\ Measured(s)
  BY <1>4, MeasuredKeeps
<1>5. CASE At(s, "collect") /\ out.end = "prerequisite" /\ LastLine(s)
  <2>1. Return(s, Reading(out), {"script"}) /\ s # "cron-manual-run"
    BY <1>5 DEF LastLine, V1, V2
  <2>2. /\ scenario = s /\ Returns /\ left' = left \ {"script"}
        /\ pc = "collect" /\ pc' \in {"launch", "judge"}
    BY <2>1, ReturnReads
  <2>3. LeftV /\ left \subseteq {"orphans"} /\ out'.end = "running"
    BY <1>5, <2>2 DEF LeftInv, LeftV, Returns, Ended
  <2>4. LeftV' /\ KeepsV' /\ FrameStep
    BY <2>2, <2>3 DEF LeftV, KeepsV, FrameStep
  <2>5. QED
    BY <2>2, <2>4, FrameV
<1>6. QED
  BY <1>1, <1>2, <1>3, <1>4, <1>5

(* A lockout that was counted shows the defect.                            *)
LEMMA JudgeVKeeps ==
  ASSUME RunInv, KeepsInv, LeftInv,
         \/ Judge(V1, PreV1(Before), PostV1(Before, After))
         \/ Judge(V2, PreV2(Before), PostV2(Before, After))
  PROVE  scenario \in {V1, V2} /\ FrameStep /\ LeftInv' /\ KeepsV'
<1>1. ASSUME NEW m, NEW t, NEW s \in {V1, V2}, Tells(s, m, t)
      PROVE  /\ Bad(m) \/ MeansV(m, t)
             /\ Usable(m) => ~Bad(m) /\ m.failed < m.trials
             /\ m.lockouts > 0 /\ ~Bad(m) => t = "defect"
  <2>1. Bad(m) \/ MeansV(m, t)
    BY <1>1 DEF Tells, Means, V1, V2
  <2>2. QED
    BY <2>1, TrialsAssumption DEF MeansV, Usable
<1>2. ASSUME NEW s \in {V1, V2}, TellBefore(s)
      PROVE  SoundPre(s, PreV1(Before)) /\ PreV1(Before) = PreV2(Before)
  BY <1>1, <1>2 DEF TellBefore, PreV1, PreV2, Unusable, Usable,
         Verdict, SoundPre, Verdicts, Statuses, DependOnTiming
<1>3. ASSUME NEW s \in {V1, V2}, TellBoth(s)
      PROVE  /\ SoundPost(s, PostV1(Before, After))
             /\ PostV1(Before, After) = PostV2(Before, After)
  BY <1>1, <1>3 DEF TellBoth, TellBefore, PostV1, PostV2, Unusable, Usable,
         Verdict, SoundPost, Verdicts, Statuses, DependOnTiming
<1>4. scenario \in {V1, V2} /\ pc = "judge" /\ pc' = "done" /\ Judges
  BY <1>2, <1>3, JudgeIsStep DEF Judge
<1>5. LeftV /\ left' = left /\ out' = out /\ FrameStep
  BY <1>4 DEF LeftInv, Judges, FrameStep
<1>6. LeftV' /\ KeepsV'
  BY <1>4, <1>5 DEF LeftV, KeepsV
<1>7. QED
  BY <1>4, <1>5, <1>6, FrameV

(* What ends the run from outside.                                         *)
LEMMA InterruptKeeps ==
  ASSUME RunInv, KeepsInv, LeftInv, Interrupt
  PROVE  scenario \in {V1, V2} /\ FrameStep /\ LeftInv' /\ KeepsV'
<1>1. /\ scenario \in {V1, V2} /\ Probing /\ pc' = "killed"
      /\ UNCHANGED <<given, build, sut, out, left, measured, status>>
  BY DEF Interrupt, Act
<1>2. LeftV /\ Moves /\ FrameStep
  BY <1>1 DEF LeftInv, Moves, FrameStep, Running, Frame, Probing, FrameLabels
<1>3. LeftV' /\ KeepsV'
  BY <1>1, <1>2 DEF LeftV, KeepsV, Probing, FrameLabels
<1>4. QED
  BY <1>1, <1>2, <1>3, FrameV

(* Without the prerequisites nothing has been started.                     *)
LEMMA PrerequisiteVKeeps ==
  ASSUME RunInv, KeepsInv, LeftInv, PrerequisiteMissing({V1, V2})
  PROVE  scenario \in {V1, V2} /\ FrameStep /\ LeftInv' /\ KeepsV'
<1>1. /\ scenario \in {V1, V2} /\ pc = "launch" /\ pc' = "collect"
      /\ out' = Ended("prerequisite")
      /\ UNCHANGED <<given, build, sut, left, measured, status>>
  BY DEF PrerequisiteMissing
<1>2. LeftV /\ out'.end = "prerequisite"
  BY <1>1 DEF LeftInv, Ended
<1>3. Ends /\ FrameStep
  BY <1>1, <1>2 DEF Ends, Running, FrameStep, V1, V2
<1>4. LeftV' /\ KeepsV'
  BY <1>1, <1>2 DEF LeftV, KeepsV
<1>5. QED
  BY <1>1, <1>3, <1>4, FrameV

-----------------------------------------------------------------------------
(* The scenarios that start a gateway.                                     *)
LEMMA Steps039E2e ==
  ASSUME RunInv, KeepsInv, LeftInv, Scenario039E2e
  PROVE  scenario = "039-e2e" /\ FrameStep /\ LeftInv' /\ Keeps039E2e'
<1> DEFINE s == "039-e2e"
<1> DEFINE labels == {"seed", "boot", "ready", "closing"}
<1> DEFINE fields == {"trial", "fire", "skip", "notReady", "log"}
<1>1. ASSUME scenario = s, FrameStep, Left039E2e'
      PROVE  LeftInv'
  BY <1>1, ScenarioFixed DEF LeftInv, ScriptScenarios, InProbe, V1, V2
<1>2. scenario = s => Left039E2e /\ Keeps039E2e
  BY DEF LeftInv, KeepsInv
<1>3. ASSUME NEW from \in labels \cup {"launch"}, NEW to \in labels,
             NEW next, NEW items, Act(s, from, to, next, items),
             scenario = s /\ pc = from => items \subseteq {"gateway", "logs"},
             scenario = s /\ pc = from /\ to = "seed" => items = {}
      PROVE  /\ scenario = s /\ pc = from /\ pc' = to /\ sut' = next
             /\ FrameStep /\ LeftInv'
  <2>1. scenario = s /\ pc = from /\ pc' = to /\ left' = items /\ sut' = next /\ Moves
    BY <1>3, ActMoves
  <2>2. Left039E2e' /\ FrameStep
    BY <1>3, <2>1 DEF Left039E2e, FrameStep
  <2>3. QED
    BY <1>1, <2>1, <2>2
<1>4. ASSUME scenario = s, pc \in labels
      PROVE  /\ DOMAIN sut = fields
             /\ sut.trial \in Nat /\ sut.notReady \in 0..sut.trial
             /\ sut.trial <= Trials
             /\ pc # "seed" => sut.trial < Trials
  BY <1>2, <1>4 DEF Keeps039E2e
<1>5. ASSUME scenario = s, pc \in labels, pc' \in labels, DOMAIN sut' = fields,
             sut'.trial = sut.trial, sut'.notReady = sut.notReady,
             pc' # "seed" => sut.trial < Trials
      PROVE  Keeps039E2e'
  BY <1>4, <1>5 DEF Keeps039E2e
<1>6. ASSUME scenario = s, pc \in labels \ {"seed"}, pc' = "seed", DOMAIN sut' = fields,
             sut'.trial = sut.trial + 1,
             sut'.notReady \in {sut.notReady, sut.notReady + 1}
      PROVE  Keeps039E2e'
  BY <1>4, <1>6, TrialsAssumption DEF Keeps039E2e
<1>7. CASE Step(s, "launch", "seed", Fresh039E2e)
  <2>1. pc' = "seed" /\ scenario = s /\ sut' = Fresh039E2e /\ FrameStep /\ LeftInv'
    BY <1>2, <1>3, <1>7 DEF Step, Left039E2e
  <2>2. /\ DOMAIN sut' = fields /\ sut'.trial = 0 /\ sut'.notReady = 0
    BY <2>1 DEF Fresh039E2e
  <2>3. QED
    BY <2>1, <2>2, TrialsAssumption DEF Keeps039E2e
<1>8. CASE At(s, "seed") /\ Report(s, "seed", [trials |-> Trials, fire |-> sut.fire,
                           skip |-> sut.skip, notReady |-> sut.notReady,
                           failed |-> sut.notReady])
  <2> DEFINE m == [trials |-> Trials, fire |-> sut.fire, skip |-> sut.skip,
                   notReady |-> sut.notReady, failed |-> sut.notReady]
  <2>1. /\ scenario = s /\ pc = "seed" /\ pc' = "collect" /\ UNCHANGED left
    BY <1>8, ReportEnds
  <2>2. Means039E2e(m) /\ m # NotRun
    BY <1>4, <2>1, TrialsAssumption DEF Means039E2e, NotRun
  <2>3. Tells(s, m, Here)
    BY <2>2 DEF Tells, Means, V1, V2
  <2>4. Ends /\ FrameStep
    BY <1>8, <2>3, ReportEnds DEF FrameStep
  <2>5. QED
    BY <1>1, <1>2, <2>1, <2>4 DEF Left039E2e, Keeps039E2e
<1>9. CASE Return(s, Reading(out), {})
  <2>1. /\ scenario = s /\ Returns /\ left' = left \ {}
        /\ pc = "collect" /\ pc' \in {"launch", "judge"}
    BY <1>9, ReturnReads
  <2>2. QED
    BY <1>1, <1>2, <2>1 DEF Left039E2e, FrameStep, Keeps039E2e
<1>10. CASE SeedAndSpawn039E2e
  <2>1. /\ scenario = s /\ pc = "seed" /\ pc' = "boot" /\ sut' = [sut EXCEPT !.log = "none"]
        /\ FrameStep /\ LeftInv' /\ sut.trial < Trials
    BY <1>2, <1>3, <1>10 DEF SeedAndSpawn039E2e, Left039E2e
  <2>2. QED
    BY <1>4, <1>5, <2>1
<1>11. ASSUME NEW from \in labels \ {"seed"}, NEW next, EndTrial039E2e(from, next),
              scenario = s /\ pc = from =>
                 /\ DOMAIN next = fields /\ next.trial = sut.trial
                 /\ next.notReady \in {sut.notReady, sut.notReady + 1}
       PROVE  scenario = s /\ FrameStep /\ LeftInv' /\ Keeps039E2e'
  <2>1. /\ scenario = s /\ pc = from /\ pc' = "seed" /\ sut' = [next EXCEPT !.trial = @ + 1]
        /\ FrameStep /\ LeftInv'
    BY <1>2, <1>3, <1>11 DEF EndTrial039E2e, Left039E2e
  <2>2. /\ DOMAIN sut' = fields /\ sut'.trial = sut.trial + 1
        /\ sut'.notReady \in {sut.notReady, sut.notReady + 1}
    BY <1>11, <2>1
  <2>3. QED
    BY <1>6, <2>1, <2>2
<1>12. ASSUME NEW from \in labels, NEW to \in labels, NEW next, Step(s, from, to, next),
              to # "seed" /\ from # "seed",
              scenario = s /\ pc = from =>
                 DOMAIN next = fields /\ next.trial = sut.trial /\ next.notReady = sut.notReady
       PROVE  scenario = s /\ FrameStep /\ LeftInv' /\ Keeps039E2e'
  <2>1. /\ scenario = s /\ pc = from /\ pc' = to /\ sut' = next
        /\ FrameStep /\ LeftInv'
    BY <1>2, <1>3, <1>12 DEF Step, Left039E2e
  <2>2. QED
    BY <1>4, <1>5, <1>12, <2>1
<1>13. CASE Ready039E2e
  <2>1. CASE Step(s, "boot", "ready", sut)
    BY <1>4, <1>12, <2>1
  <2>2. CASE EndTrial039E2e("boot", [sut EXCEPT !.notReady = @ + 1])
    <3>1. scenario = s /\ pc = "boot" =>
             /\ DOMAIN [sut EXCEPT !.notReady = @ + 1] = fields
             /\ [sut EXCEPT !.notReady = @ + 1].trial = sut.trial
             /\ [sut EXCEPT !.notReady = @ + 1].notReady = sut.notReady + 1
      BY <1>4
    <3>2. QED
      BY <1>11, <2>2, <3>1
  <2>3. QED
    BY <1>13, <2>1, <2>2 DEF Ready039E2e
<1>14. CASE Activate039E2e
  <2> DEFINE next == [sut EXCEPT !.log = IF Here = "fixed" /\ pc = "closing"
                                         THEN "skip" ELSE "fire"]
  <2>1. scenario = s /\ pc \in {"ready", "closing"} /\ Step(s, pc, pc, next)
    BY <1>14 DEF Activate039E2e
  <2>2. /\ DOMAIN next = fields /\ next.trial = sut.trial
        /\ next.notReady = sut.notReady
    BY <1>4, <2>1
  <2> HIDE DEF next
  <2>3. QED
    BY <1>12, <2>1, <2>2
<1>15. CASE Sigterm039E2e
  BY <1>4, <1>12, <1>15 DEF Sigterm039E2e
<1>16. CASE SearchLog039E2e
  <2> DEFINE next == [sut EXCEPT !.fire = @ + IF sut.log = "fire" THEN 1 ELSE 0,
                                 !.skip = @ + IF sut.log = "skip" THEN 1 ELSE 0]
  <2>1. scenario = s /\ pc = "closing" /\ EndTrial039E2e("closing", next)
    BY <1>16 DEF SearchLog039E2e, At
  <2>2. /\ DOMAIN next = fields /\ next.trial = sut.trial
        /\ next.notReady = sut.notReady
    BY <1>4, <2>1
  <2> HIDE DEF next
  <2>3. QED
    BY <1>11, <2>1, <2>2
<1>17. CASE Judge(s, Pre039E2e(Before), Post039E2e(Before, After))
  <2>1. ASSUME NEW m, NEW t, Tells(s, m, t), ~Bad(m), ~NoneReady(m)
        PROVE  m.failed < m.trials
    <3>1. Means039E2e(m)
      BY <2>1 DEF Tells, Means
    <3>2. QED
      BY <2>1, <3>1, TrialsAssumption DEF Means039E2e, NoneReady
  <2>2. TellBefore(s) => SoundPre(s, Pre039E2e(Before))
    BY <2>1 DEF TellBefore, Pre039E2e, Verdict, SoundPre, Verdicts, Statuses,
       CollectWithoutDefect, DependOnTiming
  <2>3. TellBoth(s) => SoundPost(s, Post039E2e(Before, After))
    BY <2>1 DEF TellBoth, TellBefore, Post039E2e, Verdict, SoundPost, Verdicts, Statuses,
       CollectWithoutDefect, DependOnTiming
  <2>4. scenario = s /\ pc = "judge" /\ pc' = "done" /\ Judges
    BY <1>17, <2>2, <2>3, JudgeIsStep DEF Judge
  <2>5. QED
    BY <1>1, <1>2, <2>4 DEF Left039E2e, Judges, FrameStep, Keeps039E2e
<1>18. QED
  BY <1>7, <1>8, <1>9, <1>10, <1>13, <1>14, <1>15, <1>16, <1>17
     DEF Scenario039E2e, Run039E2e

(* 040-e2e: only a timeout of the probe leaves a gateway behind.           *)
LEMMA Steps040E2e ==
  ASSUME RunInv, KeepsInv, LeftInv, Scenario040E2e
  PROVE  scenario = "040-e2e" /\ FrameStep /\ LeftInv' /\ Keeps040E2e'
<1> DEFINE s == "040-e2e"
<1> DEFINE labels == {"trial", "boot", "request", "race", "observe", "shutdown"}
<1>1. ASSUME scenario = s, FrameStep, Left040E2e'
      PROVE  LeftInv'
  BY <1>1, ScenarioFixed DEF LeftInv, ScriptScenarios, InProbe, V1, V2
<1>2. scenario = s => Left040E2e /\ Keeps040E2e
  BY DEF LeftInv, KeepsInv
<1>3. ASSUME NEW from \in labels \cup {"launch"}, NEW to \in labels,
             NEW next, NEW items, Act(s, from, to, next, items),
             scenario = s /\ pc = from => items \subseteq {"gateway", "probe", "logs"},
             scenario = s /\ pc = from /\ to = "trial" => items \subseteq {"logs"},
             scenario = s /\ pc = from /\ to \in {"boot", "shutdown"} => "probe" \notin items
      PROVE  /\ scenario = s /\ pc = from /\ pc' = to /\ sut' = next
             /\ FrameStep /\ LeftInv'
  <2>1. scenario = s /\ pc = from /\ pc' = to /\ left' = items /\ sut' = next /\ Moves
    BY <1>3, ActMoves
  <2>2. Left040E2e' /\ FrameStep
    BY <1>3, <2>1 DEF Left040E2e, FrameStep
  <2>3. QED
    BY <1>1, <2>1, <2>2
<1>4. ASSUME scenario = s, pc \in labels
      PROVE  /\ DOMAIN sut = Fields040E2e
             /\ sut.trial \in Nat /\ sut.failed \in Nat
             /\ sut.reaches \in Nat /\ sut.chains \in Nat
             /\ sut.chains # 0 => sut.reaches # 0
             /\ sut.trial <= Trials /\ (pc # "trial" => sut.trial < Trials)
             /\ sut.bound => sut.delivery = "returned"
             /\ pc # "observe" /\ pc # "shutdown" => sut.delivery \in {"none", "parked"}
             /\ \/ sut.failed + sut.reaches <= sut.trial
                \/ /\ pc = "shutdown" /\ sut.delivery \in {"none", "parked"}
                   /\ sut.failed + sut.reaches <= sut.trial + 1
  BY <1>2, <1>4 DEF Keeps040E2e, Probing, FrameLabels
<1> DEFINE Counts(next) ==
              /\ DOMAIN next = Fields040E2e /\ next.trial = sut.trial
              /\ next.failed = sut.failed /\ next.reaches = sut.reaches
              /\ next.chains = sut.chains
(* A step inside a trial.                                                  *)
<1>5. ASSUME scenario = s, pc \in labels, pc' \in labels, Counts(sut'),
             sut'.bound => sut'.delivery = "returned",
             pc' # "observe" /\ pc' # "shutdown" => sut'.delivery \in {"none", "parked"},
             pc = "shutdown" => pc' = "shutdown" /\
                 (sut.delivery \in {"none", "parked"} => sut'.delivery = sut.delivery),
             pc = "trial" => sut.trial < Trials
      PROVE  Keeps040E2e'
  BY <1>4, <1>5 DEF Keeps040E2e
(* A trial that fails before its probe has started.                        *)
<1>6. ASSUME scenario = s, pc \in {"trial", "boot"}, pc' = "trial", sut.trial < Trials,
             sut' = [sut EXCEPT !.trial = @ + 1, !.failed = @ + 1]
      PROVE  Keeps040E2e'
  <2>1. /\ DOMAIN sut' = Fields040E2e /\ sut'.trial = sut.trial + 1
        /\ sut'.failed = sut.failed + 1 /\ sut'.reaches = sut.reaches
        /\ sut'.chains = sut.chains /\ sut'.bound = sut.bound
        /\ sut'.delivery = sut.delivery
    BY <1>4, <1>6 DEF Fields040E2e
  <2>2. QED
    BY <1>4, <1>6, <2>1, TrialsAssumption DEF Keeps040E2e
<1>7. CASE Step(s, "launch", "trial", Fresh040E2e)
  <2>1. pc' = "trial" /\ scenario = s /\ sut' = Fresh040E2e /\ FrameStep /\ LeftInv'
    BY <1>2, <1>3, <1>7 DEF Step, Left040E2e
  <2>2. /\ DOMAIN sut' = Fields040E2e /\ sut'.trial = 0 /\ sut'.failed = 0
        /\ sut'.reaches = 0 /\ sut'.chains = 0 /\ ~sut'.bound /\ sut'.delivery = "none"
    BY <2>1 DEF Fresh040E2e, Fields040E2e
  <2>3. QED
    BY <2>1, <2>2, TrialsAssumption DEF Keeps040E2e
<1>8. CASE At(s, "trial") /\ sut.trial = Trials /\ Report(s, "trial",
                  [trials |-> Trials, reaches |-> sut.reaches, chains |-> sut.chains,
                   leaks |-> sut.leaks, fixes |-> sut.fixes, preRace |-> sut.preRace,
                   failed |-> sut.failed])
  <2> DEFINE m == [trials |-> Trials, reaches |-> sut.reaches, chains |-> sut.chains,
                   leaks |-> sut.leaks, fixes |-> sut.fixes, preRace |-> sut.preRace,
                   failed |-> sut.failed]
  <2>1. /\ scenario = s /\ pc = "trial" /\ pc' = "collect" /\ UNCHANGED left
    BY <1>8, ReportEnds
  <2>2. Means040E2e(m) /\ m # NotRun
    BY <1>4, <1>8, <2>1, TrialsAssumption DEF Means040E2e, NotRun
  <2>3. Tells(s, m, Here)
    BY <2>2 DEF Tells, Means, V1, V2
  <2>4. Ends /\ FrameStep
    BY <1>8, <2>3, ReportEnds DEF FrameStep
  <2>5. QED
    BY <1>1, <1>2, <2>1, <2>4 DEF Left040E2e, Keeps040E2e, Probing, FrameLabels
<1>9. CASE out.end = "timeout" /\ Raise(s, {})
  <2>1. /\ scenario = s /\ Raises /\ left' = left \ {} /\ pc = "collect" /\ pc' = "done"
        /\ status' = "blocked-env"
    BY <1>9 DEF Raise, Raises, At
  <2>2. QED
    BY <1>1, <1>2, <2>1 DEF Left040E2e, FrameStep, Keeps040E2e, Probing, FrameLabels
<1>10. CASE out.end # "timeout" /\ Return(s, Reading(out), {})
  <2>1. /\ scenario = s /\ Returns /\ left' = left \ {}
        /\ pc = "collect" /\ pc' \in {"launch", "judge"}
    BY <1>10, ReturnReads
  <2>2. QED
    BY <1>1, <1>2, <1>10, <2>1 DEF Left040E2e, FrameStep, Keeps040E2e, Probing, FrameLabels
<1>11. CASE InstallStub040E2e
  <2>1. CASE Act(s, "trial", "boot", sut, left \cup {"gateway", "logs"})
    <3>1. /\ scenario = s /\ pc = "trial" /\ pc' = "boot" /\ sut' = sut
          /\ FrameStep /\ LeftInv'
      BY <1>2, <1>3, <2>1 DEF Left040E2e
    <3>2. QED
      BY <1>4, <1>5, <1>11, <3>1 DEF InstallStub040E2e
  <2>2. CASE Step(s, "trial", "trial", [sut EXCEPT !.trial = @ + 1, !.failed = @ + 1])
    <3>1. /\ scenario = s /\ pc = "trial" /\ pc' = "trial"
          /\ sut' = [sut EXCEPT !.trial = @ + 1, !.failed = @ + 1]
          /\ FrameStep /\ LeftInv'
      BY <1>2, <1>3, <2>2 DEF Step, Left040E2e
    <3>2. QED
      BY <1>6, <1>11, <3>1 DEF InstallStub040E2e
  <2>3. QED
    BY <1>11, <2>1, <2>2 DEF InstallStub040E2e
<1>12. CASE StartProbe040E2e
  <2>1. CASE Act(s, "boot", "request", sut, left \cup {"probe"})
    <3>1. /\ scenario = s /\ pc = "boot" /\ pc' = "request" /\ sut' = sut
          /\ FrameStep /\ LeftInv'
      BY <1>2, <1>3, <2>1 DEF Left040E2e
    <3>2. QED
      BY <1>4, <1>5, <3>1
  <2>2. CASE Act(s, "boot", "trial", [sut EXCEPT !.trial = @ + 1, !.failed = @ + 1],
                 left \ {"gateway"})
    <3>1. /\ scenario = s /\ pc = "boot" /\ pc' = "trial"
          /\ sut' = [sut EXCEPT !.trial = @ + 1, !.failed = @ + 1]
          /\ FrameStep /\ LeftInv'
      BY <1>2, <1>3, <2>2 DEF Left040E2e
    <3>2. QED
      BY <1>4, <1>6, <3>1
  <2>3. QED
    BY <1>12, <2>1, <2>2 DEF StartProbe040E2e
<1>13. CASE Probe040E2e
  <2>1. CASE Step(s, "request", "race", [sut EXCEPT !.lease = "let-go"])
    <3>1. /\ scenario = s /\ pc = "request" /\ pc' = "race"
          /\ sut' = [sut EXCEPT !.lease = "let-go"] /\ FrameStep /\ LeftInv'
      BY <1>2, <1>3, <2>1 DEF Step, Left040E2e
    <3>2. Counts(sut') /\ sut'.bound = sut.bound /\ sut'.delivery = sut.delivery
      BY <1>4, <3>1 DEF Fields040E2e
    <3>3. QED
      BY <1>4, <1>5, <3>1, <3>2
  <2>2. CASE Step(s, "race", "observe", [sut EXCEPT !.delivery = "let-go"])
    <3>1. /\ scenario = s /\ pc = "race" /\ pc' = "observe"
          /\ sut' = [sut EXCEPT !.delivery = "let-go"] /\ FrameStep /\ LeftInv'
      BY <1>2, <1>3, <2>2 DEF Step, Left040E2e
    <3>2. Counts(sut') /\ sut'.bound = sut.bound
      BY <1>4, <3>1 DEF Fields040E2e
    <3>3. QED
      BY <1>4, <1>5, <3>1, <3>2
  <2>3. CASE Act(s, "observe", "shutdown", sut, left \ {"probe"})
    <3>1. /\ scenario = s /\ pc = "observe" /\ pc' = "shutdown" /\ sut' = sut
          /\ FrameStep /\ LeftInv'
      BY <1>2, <1>3, <2>3 DEF Left040E2e
    <3>2. QED
      BY <1>4, <1>5, <3>1
  <2>4. QED
    BY <1>13, <2>1, <2>2, <2>3 DEF Probe040E2e
<1>14. CASE Probe040E2eEnds
  <2>1. /\ scenario = s /\ pc \in {"request", "race"} /\ pc' = "shutdown"
        /\ sut' = [sut EXCEPT !.failed = @ + 1] /\ FrameStep /\ LeftInv'
    BY <1>2, <1>3, <1>14 DEF Probe040E2eEnds, Left040E2e
  <2>2. /\ DOMAIN sut' = Fields040E2e /\ sut'.trial = sut.trial
        /\ sut'.failed = sut.failed + 1 /\ sut'.reaches = sut.reaches
        /\ sut'.chains = sut.chains /\ sut'.bound = sut.bound
        /\ sut'.delivery = sut.delivery
    BY <1>4, <2>1 DEF Fields040E2e
  <2>3. QED
    BY <1>4, <2>1, <2>2 DEF Keeps040E2e
<1>15. CASE Probe040E2eHangs
  <2>1. /\ scenario = s /\ pc \in labels /\ pc' = "collect" /\ out'.end = "timeout"
        /\ left' \subseteq left \cup {"orphans"}
        /\ UNCHANGED <<given, build, measured, status>>
    BY <1>15 DEF Probe040E2eHangs, Ended, Survivors
  <2>2. Ends /\ FrameStep
    BY <2>1 DEF Ends, Running, FrameStep
  <2>3. QED
    BY <1>1, <1>2, <2>1, <2>2 DEF Left040E2e, Keeps040E2e, Probing, FrameLabels
<1>16. CASE DeliverPending
  <2>1. scenario = s /\ pc \in labels \ {"trial", "boot"}
    BY <1>16 DEF DeliverPending
  <2>2. ASSUME NEW next, Step(s, pc, pc, next)
        PROVE  pc' = pc /\ sut' = next /\ FrameStep /\ LeftInv'
    BY <1>2, <1>3, <2>1, <2>2 DEF Step, Left040E2e
  <2>3. CASE pc = "request" /\ Step(s, pc, pc, [sut EXCEPT !.delivery = "parked"])
    <3>1. /\ pc' = pc /\ sut' = [sut EXCEPT !.delivery = "parked"]
          /\ FrameStep /\ LeftInv'
      BY <2>2, <2>3
    <3>2. Counts(sut') /\ sut'.bound = sut.bound /\ sut'.delivery = "parked"
      BY <1>4, <2>1, <3>1 DEF Fields040E2e
    <3>3. QED
      BY <1>4, <1>5, <2>1, <2>3, <3>1, <3>2
  <2>4. ASSUME sut.delivery = "let-go", NEW bound,
               Step(s, pc, pc,
                    [sut EXCEPT !.delivery = "returned", !.bound = bound,
                                !.unbound = /\ bound /\ Here = "fixed"
                                            /\ sut.lease = "disposed"])
        PROVE  FrameStep /\ LeftInv' /\ Keeps040E2e'
    <3> DEFINE unbound == bound /\ Here = "fixed" /\ sut.lease = "disposed"
               next == [sut EXCEPT !.delivery = "returned", !.bound = bound,
                                   !.unbound = unbound]
    <3>1. Counts(next) /\ next.delivery = "returned"
      BY <1>4, <2>1 DEF Fields040E2e
    <3>2. Step(s, pc, pc, next)
      BY <2>4
    <3> HIDE DEF next
    <3>3. pc' = pc /\ sut' = next /\ FrameStep /\ LeftInv'
      BY <2>2, <3>2
    <3>4. QED
      BY <1>4, <1>5, <2>1, <2>4, <3>1, <3>3
  <2>5. QED
    BY <1>16, <2>1, <2>3, <2>4 DEF DeliverPending
<1>17. CASE DisposeLease
  <2>1. /\ scenario = s /\ pc \in labels \ {"trial", "boot", "request"} /\ pc' = pc
        /\ sut' = [sut EXCEPT !.lease = "disposed", !.unbound = sut.bound]
        /\ FrameStep /\ LeftInv'
    BY <1>2, <1>3, <1>17 DEF DisposeLease, Step, Left040E2e
  <2>2. Counts(sut') /\ sut'.bound = sut.bound /\ sut'.delivery = sut.delivery
    BY <1>4, <2>1 DEF Fields040E2e
  <2>3. pc' \in labels \ {"trial", "boot", "request"}
    BY <2>1
  <2>4. QED
    BY <1>4, <1>5, <2>1, <2>2, <2>3
<1>18. CASE Trial040E2e
  <2> DEFINE returned == sut.delivery = "returned"
  <2>1. PICK leaks, fixes, preRace :
           Act(s, "shutdown", "trial",
               [Fresh040E2e EXCEPT
                   !.trial   = sut.trial + 1,
                   !.failed  = sut.failed,
                   !.reaches = sut.reaches + OneIf(returned),
                   !.chains  = sut.chains + OneIf(sut.bound),
                   !.leaks   = leaks, !.fixes = fixes, !.preRace = preRace],
               left \ {"gateway"})
    <3>1. PICK unbound \in {sut.unbound, sut.bound /\ (sut.unbound \/ sut.lease # "disposed")} :
            Act(s, "shutdown", "trial",
               [Fresh040E2e EXCEPT
                   !.trial   = sut.trial + 1,
                   !.failed  = sut.failed,
                   !.reaches = sut.reaches + OneIf(returned),
                   !.chains  = sut.chains + OneIf(sut.bound),
                   !.leaks   = sut.leaks + OneIf(sut.bound /\ ~unbound),
                   !.fixes   = sut.fixes + OneIf(sut.bound /\ unbound),
                   !.preRace = sut.preRace + OneIf(returned /\ ~sut.bound)],
               left \ {"gateway"})
      BY <1>18 DEF Trial040E2e
    <3>2. QED
      BY <3>1
  <2> DEFINE next == [Fresh040E2e EXCEPT
                   !.trial   = sut.trial + 1,
                   !.failed  = sut.failed,
                   !.reaches = sut.reaches + OneIf(returned),
                   !.chains  = sut.chains + OneIf(sut.bound),
                   !.leaks   = leaks, !.fixes = fixes, !.preRace = preRace]
  <2>2. /\ DOMAIN next = Fields040E2e /\ next.trial = sut.trial + 1
        /\ next.failed = sut.failed
        /\ next.reaches = sut.reaches + OneIf(returned)
        /\ next.chains = sut.chains + OneIf(sut.bound)
        /\ next.bound = FALSE /\ next.delivery = "none"
    BY DEF Fresh040E2e, Fields040E2e
  <2> HIDE DEF next
  <2>3. Act(s, "shutdown", "trial", next, left \ {"gateway"})
    BY <2>1 DEF next
  <2>4. /\ scenario = s /\ pc = "shutdown" /\ pc' = "trial" /\ sut' = next
        /\ FrameStep /\ LeftInv'
    BY <1>2, <1>3, <2>3 DEF Left040E2e
  <2>5. QED
    BY <1>4, <2>2, <2>4, TrialsAssumption DEF Keeps040E2e, OneIf
<1>19. CASE Judge(s, Pre040E2e(Before), Post040E2e(Before, After))
  <2>1. ASSUME NEW m, NEW t, Tells(s, m, t), ~Bad(m)
        PROVE  m.chains # 0 \/ m.reaches # 0 => m.failed < m.trials
    <3>1. Means040E2e(m)
      BY <2>1 DEF Tells, Means
    <3>2. QED
      BY <3>1 DEF Means040E2e
  <2>2. TellBefore(s) => SoundPre(s, Pre040E2e(Before))
    BY <2>1 DEF TellBefore, Pre040E2e, Verdict, SoundPre, Verdicts, Statuses,
       CollectWithoutDefect, DependOnTiming
  <2>3. TellBoth(s) => SoundPost(s, Post040E2e(Before, After))
    BY <2>1 DEF TellBoth, TellBefore, Post040E2e, Verdict, SoundPost, Verdicts, Statuses,
       CollectWithoutDefect, DependOnTiming
  <2>4. scenario = s /\ pc = "judge" /\ pc' = "done" /\ Judges
    BY <1>19, <2>2, <2>3, JudgeIsStep DEF Judge
  <2>5. QED
    BY <1>1, <1>2, <2>4 DEF Left040E2e, Judges, FrameStep, Keeps040E2e, Probing, FrameLabels
<1>20. QED
  BY <1>7, <1>8, <1>9, <1>10, <1>11, <1>12, <1>13, <1>14, <1>15, <1>16, <1>17, <1>18, <1>19
     DEF Scenario040E2e, Run040E2e

(* The fixed code has an aborted call for every call it sent; code that    *)
(* does nothing sends none.  So a base build that called and never aborted *)
(* has the defect.                                                         *)
LEMMA Steps038E2e ==
  ASSUME RunInv, KeepsInv, LeftInv, Scenario038E2e
  PROVE  scenario = "038-e2e" /\ FrameStep /\ LeftInv' /\ Keeps038E2e'
<1> DEFINE s == "038-e2e"
<1> DEFINE labels == {"trial", "mock", "gateway", "connect", "chat", "wait", "shutdown"}
<1> DEFINE fields == {"trial", "acks", "chains", "aborts", "preSend",
                      "ack", "open", "cancelled", "request"}
<1>1. ASSUME scenario = s, FrameStep, Left038E2e'
      PROVE  LeftInv'
  BY <1>1, ScenarioFixed DEF LeftInv, ScriptScenarios, InProbe, V1, V2
<1>2. scenario = s => Left038E2e /\ Keeps038E2e
  BY DEF LeftInv, KeepsInv
<1>3. ASSUME NEW from \in labels \cup {"launch"}, NEW to \in labels,
             NEW next, NEW items, Act(s, from, to, next, items),
             scenario = s /\ pc = from => items \subseteq {"mock", "gateway", "probe", "logs"},
             scenario = s /\ pc = from /\ to = "trial" => items \subseteq {"logs"},
             scenario = s /\ pc = from /\ to \in {"mock", "gateway", "shutdown"}
                 => "probe" \notin items
      PROVE  /\ scenario = s /\ pc = from /\ pc' = to /\ sut' = next
             /\ FrameStep /\ LeftInv' /\ Here' = Here
  <2>1. /\ scenario = s /\ pc = from /\ pc' = to /\ left' = items /\ sut' = next /\ Moves
        /\ UNCHANGED <<truth, build>>
    BY <1>3, ActMoves
  <2>2. Left038E2e' /\ FrameStep
    BY <1>3, <2>1 DEF Left038E2e, FrameStep
  <2>3. QED
    BY <1>1, <2>1, <2>2 DEF Here
<1>4. ASSUME scenario = s, pc \in labels
      PROVE  /\ Keeps038E2e /\ DOMAIN sut = fields
             /\ Here = "fixed" => sut.aborts = sut.chains
             /\ Here = "inert" => sut.chains = 0 /\ sut.request = "none"
             /\ pc \in {"trial", "mock", "gateway", "connect"} => ~sut.ack /\ sut.request = "none"
             /\ pc = "chat" /\ Here = "fixed" =>
                   sut.request = "none" \/ (sut.request = "held" /\ sut.ack)
             /\ pc \in {"wait", "shutdown"} /\ Here = "fixed" =>
                   sut.request \in {"none", "cut"} /\ (sut.ack => sut.cancelled)
  BY <1>2, <1>4 DEF Keeps038E2e, Probing, FrameLabels
<1>5. ASSUME pc' \in {"trial", "mock", "gateway", "connect", "chat"}, Here' = Here,
             DOMAIN sut' = fields,
             Here = "fixed" => sut'.aborts = sut'.chains,
             Here = "inert" => sut'.chains = 0,
             ~sut'.ack, sut'.request = "none"
      PROVE  Keeps038E2e'
  BY <1>5 DEF Keeps038E2e
<1>6. CASE Step(s, "launch", "trial", Fresh038E2e)
  <2>1. /\ scenario = s /\ pc' = "trial" /\ sut' = Fresh038E2e
        /\ FrameStep /\ LeftInv' /\ Here' = Here
    BY <1>2, <1>3, <1>6 DEF Step, Left038E2e
  <2>2. QED
    BY <1>5, <2>1 DEF Fresh038E2e
<1>7. CASE Report(s, "trial",
                  [trials |-> Trials, acks |-> sut.acks, chains |-> sut.chains,
                   aborts |-> sut.aborts, preSend |-> sut.preSend])
  <2>1. scenario = s /\ pc = "trial" /\ pc' = "collect" /\ UNCHANGED left
    BY <1>7, ReportEnds
  <2>2. Tells(s, [trials |-> Trials, acks |-> sut.acks, chains |-> sut.chains,
                  aborts |-> sut.aborts, preSend |-> sut.preSend], Here)
    BY <1>4, <2>1 DEF Tells, NotRun, Means, Means038E2e, V1, V2
  <2>3. Ends /\ FrameStep
    BY <1>7, <2>2, ReportEnds DEF FrameStep
  <2>4. QED
    BY <1>1, <1>2, <2>1, <2>3 DEF Left038E2e, Keeps038E2e, Probing, FrameLabels
<1>8. CASE out.end = "timeout" /\ Raise(s, {})
  <2>1. /\ scenario = s /\ Raises /\ left' = left \ {} /\ pc = "collect" /\ pc' = "done"
        /\ status' = "blocked-env"
    BY <1>8 DEF Raise, Raises, At
  <2>2. QED
    BY <1>1, <1>2, <2>1 DEF Left038E2e, FrameStep, Keeps038E2e, Probing, FrameLabels
<1>9. CASE out.end # "timeout" /\ Return(s, Reading(out), {})
  <2>1. /\ scenario = s /\ Returns /\ left' = left \ {}
        /\ pc = "collect" /\ pc' \in {"launch", "judge"}
    BY <1>9, ReturnReads
  <2>2. QED
    BY <1>1, <1>2, <1>9, <2>1 DEF Left038E2e, FrameStep, Keeps038E2e, Probing, FrameLabels
<1>10. CASE StartMock038E2e
  <2>1. /\ scenario = s /\ pc = "trial" /\ pc' = "mock" /\ sut' = sut
        /\ FrameStep /\ LeftInv' /\ Here' = Here
    BY <1>2, <1>3, <1>10 DEF StartMock038E2e, Left038E2e
  <2>2. QED
    BY <1>4, <1>5, <2>1
<1>11. ASSUME NEW from \in {"mock", "gateway"}, NotReady038E2e(from)
       PROVE  scenario = s /\ FrameStep /\ LeftInv' /\ Keeps038E2e'
  <2>1. /\ scenario = s /\ pc = from /\ pc' = "trial" /\ sut' = [sut EXCEPT !.trial = @ + 1]
        /\ FrameStep /\ LeftInv' /\ Here' = Here
    BY <1>2, <1>3, <1>11 DEF NotReady038E2e, Left038E2e
  <2>2. QED
    BY <1>4, <1>5, <2>1
<1>12. CASE StartGateway038E2e
  <2>1. CASE Act(s, "mock", "gateway", sut, left \cup {"gateway"})
    <3>1. /\ scenario = s /\ pc = "mock" /\ pc' = "gateway" /\ sut' = sut
          /\ FrameStep /\ LeftInv' /\ Here' = Here
      BY <1>2, <1>3, <2>1 DEF Left038E2e
    <3>2. QED
      BY <1>4, <1>5, <3>1
  <2>2. QED
    BY <1>11, <1>12, <2>1 DEF StartGateway038E2e
<1>13. CASE StartProbe038E2e
  <2>1. CASE Act(s, "gateway", "connect", sut, left \cup {"probe"})
    <3>1. /\ scenario = s /\ pc = "gateway" /\ pc' = "connect" /\ sut' = sut
          /\ FrameStep /\ LeftInv' /\ Here' = Here
      BY <1>2, <1>3, <2>1 DEF Left038E2e
    <3>2. QED
      BY <1>4, <1>5, <3>1
  <2>2. QED
    BY <1>11, <1>13, <2>1 DEF StartProbe038E2e
<1>14. ASSUME pc \in {"connect", "chat"}, pc' \in {"wait", "shutdown"}, scenario = s,
              sut' = Closed038E2e, Here' = Here
       PROVE  Keeps038E2e'
  <2>1. /\ DOMAIN sut' = fields /\ sut'.aborts = sut.aborts /\ sut'.chains = sut.chains
        /\ sut'.request = IF Here = "fixed" /\ sut.request = "held" THEN "cut" ELSE sut.request
        /\ sut'.ack = sut.ack
    BY <1>4, <1>14 DEF Closed038E2e
  <2>2. sut'.cancelled = (Here = "fixed" /\ sut.ack)
    BY <1>4, <1>14 DEF Closed038E2e
  <2>3. QED
    BY <1>4, <1>14, <2>1, <2>2 DEF Keeps038E2e
<1>15. CASE Probe038E2e
  <2>1. CASE Step(s, "connect", "chat", sut)
    <3>1. /\ scenario = s /\ pc = "connect" /\ pc' = "chat" /\ sut' = sut
          /\ FrameStep /\ LeftInv' /\ Here' = Here
      BY <1>2, <1>3, <2>1 DEF Step, Left038E2e
    <3>2. QED
      BY <1>4, <1>5, <3>1
  <2>2. CASE Step(s, "chat", "wait", Closed038E2e)
    <3>1. /\ scenario = s /\ pc = "chat" /\ pc' = "wait" /\ sut' = Closed038E2e
          /\ FrameStep /\ LeftInv' /\ Here' = Here
      BY <1>2, <1>3, <2>2 DEF Step, Left038E2e
    <3>2. QED
      BY <1>14, <3>1
  <2>3. CASE Act(s, "wait", "shutdown", sut, left \ {"probe"})
    <3>1. /\ scenario = s /\ pc = "wait" /\ pc' = "shutdown" /\ sut' = sut
          /\ FrameStep /\ LeftInv' /\ Here' = Here
      BY <1>2, <1>3, <2>3 DEF Left038E2e
    <3>2. QED
      BY <1>4, <3>1 DEF Keeps038E2e
  <2>4. QED
    BY <1>15, <2>1, <2>2, <2>3 DEF Probe038E2e
<1>16. CASE Probe038E2eEnds
  <2>1. /\ scenario = s /\ pc \in {"connect", "chat"} /\ pc' = "shutdown" /\ sut' = Closed038E2e
        /\ FrameStep /\ LeftInv' /\ Here' = Here
    BY <1>2, <1>3, <1>16 DEF Probe038E2eEnds, Left038E2e
  <2>2. QED
    BY <1>14, <2>1
<1>17. CASE Probe038E2eHangs
  <2>1. /\ scenario = s /\ pc \in labels /\ pc' = "collect" /\ out'.end = "timeout"
        /\ left' \subseteq left \cup {"orphans"}
        /\ UNCHANGED <<given, build, measured, status>>
    BY <1>17 DEF Probe038E2eHangs, Ended, Survivors
  <2>2. Ends /\ FrameStep
    BY <2>1 DEF Ends, Running, FrameStep
  <2>3. QED
    BY <1>1, <1>2, <2>1, <2>2 DEF Left038E2e, Keeps038E2e, Probing, FrameLabels
<1>18. CASE Gateway038E2e
  <2>1. /\ scenario = s /\ pc \in {"chat", "wait", "shutdown"} /\ pc' = pc /\ Here # "inert"
        /\ FrameStep /\ LeftInv' /\ Here' = Here
    BY <1>2, <1>3, <1>18 DEF Gateway038E2e, Step, Left038E2e
  <2>2. CASE pc = "chat" /\ ~sut.ack /\ sut' = [sut EXCEPT !.ack = TRUE]
    <3>1. /\ DOMAIN sut' = fields /\ sut'.aborts = sut.aborts /\ sut'.chains = sut.chains
          /\ sut'.request = sut.request /\ sut'.ack
      BY <1>4, <2>1, <2>2
    <3>2. QED
      BY <1>4, <2>1, <2>2, <3>1 DEF Keeps038E2e
  <2>3. CASE /\ sut.ack /\ ~sut.cancelled /\ sut.request = "none"
             /\ sut' = [sut EXCEPT !.request = "held"]
    <3>1. /\ DOMAIN sut' = fields /\ sut'.aborts = sut.aborts /\ sut'.chains = sut.chains
          /\ sut'.request = "held" /\ sut'.ack
      BY <1>4, <2>1, <2>3
    <3>2. QED
      BY <1>4, <2>1, <2>3, <3>1 DEF Keeps038E2e
  <2>4. QED
    BY <1>18, <2>1, <2>2, <2>3 DEF Gateway038E2e, Step, Act
<1>19. CASE Mock038E2e
  <2>1. /\ scenario = s /\ pc \in {"wait", "shutdown"} /\ pc' = pc /\ sut.request = "held"
        /\ FrameStep /\ LeftInv' /\ Here' = Here
    BY <1>2, <1>3, <1>19 DEF Mock038E2e, Step, Left038E2e
  <2>2. Here \notin {"fixed", "inert"}
    BY <1>4, <2>1
  <2>3. sut' = [sut EXCEPT !.request = "completed"]
    BY <1>19 DEF Mock038E2e, Step, Act
  <2>4. DOMAIN sut' = fields
    BY <1>4, <2>1, <2>3
  <2>5. QED
    BY <2>1, <2>2, <2>4 DEF Keeps038E2e
<1>20. CASE Trial038E2e
  <2>1. PICK ack \in {sut.ack, FALSE} :
           Act(s, "shutdown", "trial",
               [Fresh038E2e EXCEPT
                   !.trial   = sut.trial + 1,
                   !.acks    = sut.acks + OneIf(ack),
                   !.chains  = sut.chains + OneIf(sut.request # "none"),
                   !.aborts  = sut.aborts + OneIf(sut.request \in {"held", "cut"}),
                   !.preSend = sut.preSend + OneIf(ack /\ sut.request = "none")],
               left \ {"gateway", "mock", "logs"})
    BY <1>20 DEF Trial038E2e
  <2>2. /\ scenario = s /\ pc = "shutdown" /\ pc' = "trial"
        /\ FrameStep /\ LeftInv' /\ Here' = Here
    BY <1>2, <1>3, <2>1 DEF Left038E2e
  <2>3. /\ DOMAIN sut' = fields /\ ~sut'.ack /\ sut'.request = "none"
        /\ sut'.chains = sut.chains + OneIf(sut.request # "none")
        /\ sut'.aborts = sut.aborts + OneIf(sut.request \in {"held", "cut"})
    BY <2>1 DEF Act, Fresh038E2e
  <2>4. /\ Here = "fixed" => sut'.aborts = sut'.chains
        /\ Here = "inert" => sut'.chains = 0
    BY <1>4, <2>2, <2>3 DEF OneIf
  <2>5. QED
    BY <1>5, <2>2, <2>3, <2>4
<1>21. CASE Judge(s, Pre038E2e(Before), Post038E2e(Before, After))
  <2>1. TellBefore(s) => SoundPre(s, Pre038E2e(Before))
    BY DEF TellBefore, Tells, Means, Means038E2e, Pre038E2e, Verdict, SoundPre, Verdicts,
           DropFailures, Statuses,
           CollectWithoutDefect, DependOnTiming, Truths, V1, V2
  <2>2. TellBoth(s) => SoundPost(s, Post038E2e(Before, After))
    BY DEF TellBoth, TellBefore, Tells, Means, Means038E2e, Post038E2e, Verdict, SoundPost,
           Verdicts, DropFailures,
           Statuses, CollectWithoutDefect, DependOnTiming, Truths, V1, V2
  <2>3. scenario = s /\ pc = "judge" /\ pc' = "done" /\ Judges
    BY <1>21, <2>1, <2>2, JudgeIsStep DEF Judge
  <2>4. QED
    BY <1>1, <1>2, <2>3 DEF Left038E2e, Judges, FrameStep, Keeps038E2e, Probing, FrameLabels
<1>22. QED
  BY <1>6, <1>7, <1>8, <1>9, <1>10, <1>12, <1>13, <1>15, <1>16, <1>17, <1>18, <1>19,
     <1>20, <1>21
     DEF Scenario038E2e, Run038E2e

-----------------------------------------------------------------------------
(* cron-manual-run: only the code with the defect loses a row.             *)
LEMMA StepsCron ==
  ASSUME RunInv, KeepsInv, LeftInv, CronManualRun
  PROVE  scenario = "cron-manual-run" /\ FrameStep /\ left' = {} /\ KeepsCron'
<1> DEFINE s == "cron-manual-run"
<1>1. scenario = s => KeepsCron /\ left = {}
  BY DEF KeepsInv, LeftInv
<1>2. ASSUME NEW from \in {"launch", "add", "poll"}, NEW to \in {"add", "poll"},
             NEW next, Step(s, from, to, next)
      PROVE  /\ scenario = s /\ pc = from /\ pc' = to /\ sut' = next
             /\ FrameStep /\ left' = {} /\ Here' = Here
             /\ from # "launch" =>
                   /\ DOMAIN sut = {"trial", "row", "lost"}
                   /\ Here # "defect" => sut.row # "lost" /\ sut.lost = 0
  <2>1. scenario = s /\ pc = from /\ pc' = to /\ sut' = next /\ left' = left /\ Moves
        /\ UNCHANGED <<truth, build>>
    BY <1>2, StepMoves
  <2>2. QED
    BY <1>1, <2>1 DEF KeepsCron, FrameStep, Here
<1>3. ASSUME Here' = Here, DOMAIN sut' = {"trial", "row", "lost"},
             Here # "defect" => sut'.row # "lost" /\ sut'.lost = 0
      PROVE  KeepsCron'
  BY <1>3 DEF KeepsCron
<1>4. CASE Step(s, "launch", "add", [trial |-> 0, row |-> "none", lost |-> 0])
  BY <1>2, <1>3, <1>4
<1>5. CASE Report(s, "add", [trials |-> Trials, lost |-> sut.lost])
  <2>1. /\ scenario = s /\ pc = "add" /\ pc' = "collect" /\ UNCHANGED left
        /\ out' = Printed([trials |-> Trials, lost |-> sut.lost])
        /\ Tells(s, [trials |-> Trials, lost |-> sut.lost], Here) => Ends
    BY <1>5, ReportEnds
  <2>2. Tells(s, [trials |-> Trials, lost |-> sut.lost], Here)
    BY <1>1, <2>1, TrialsAssumption DEF KeepsCron, Tells, NotRun, Means, MeansCron, V1, V2
  <2>3. QED
    BY <1>1, <2>1, <2>2 DEF FrameStep, KeepsCron
<1>6. CASE /\ At(s, "collect")
           /\ IF out.end = "timeout" THEN Raise(s, {}) ELSE Return(s, Reading(out), {})
  <2>1. scenario = s /\ pc = "collect" /\ RunInv
    BY <1>6 DEF At
  <2>2. CASE Raise(s, {})
    BY <1>1, <2>1, <2>2 DEF Raise, Raises, FrameStep, KeepsCron
  <2>3. CASE out.end # "timeout" /\ Return(s, Reading(out), {})
    <3>1. out.end = "payload" /\ Reading(out) = out.says /\ Tells(s, out.says, Here)
      BY <2>1, <2>3 DEF RunInv, MeasuredTells, Reading
    <3>2. /\ measured' = [measured EXCEPT ![build] = out.says]
          /\ left' = left \ {}
          /\ IF mode = "post-sol" /\ build = "base"
             THEN build' = "head" /\ pc' = "launch"
             ELSE build' = build /\ pc' = "judge"
          /\ out' = Ended("running") /\ UNCHANGED <<given, status>>
      BY <2>3, <3>1 DEF Return
    <3>3. measured'[build] = out.says
      BY <3>2 DEF RunInv, Types
    <3>4. Returns
      BY <2>1, <3>1, <3>2, <3>3 DEF Returns
    <3>5. QED
      BY <1>1, <2>1, <3>2, <3>4 DEF FrameStep, KeepsCron
  <2>4. QED
    BY <1>6, <2>2, <2>3
<1>7. CASE AddJob
  <2>1. CASE Step(s, "add", "poll", [sut EXCEPT !.row = "none"])
    BY <1>2, <1>3, <2>1
  <2>2. CASE Step(s, "add", "add", [sut EXCEPT !.trial = @ + 1])
    BY <1>2, <1>3, <2>2
  <2>3. CASE Exit(s, "add", Ended("timeout"))
    <3>1. /\ scenario = s /\ pc = "add" /\ pc' = "collect" /\ out'.end = "timeout"
          /\ UNCHANGED <<given, build, sut, left, measured, status>>
      BY <2>3 DEF Exit, At, Ended
    <3>2. QED
      BY <1>1, <3>1 DEF Ends, Running, FrameStep, KeepsCron
  <2>4. QED
    BY <1>7, <2>1, <2>2, <2>3 DEF AddJob
<1>8. CASE TaskRow
  <2>1. PICK row : /\ row = "lost" => Here = "defect"
                   /\ Step(s, "poll", "poll", [sut EXCEPT !.row = row])
    BY <1>8 DEF TaskRow
  <2>2. QED
    BY <1>2, <1>3, <2>1
<1>9. CASE Finalize
  <2>1. Step(s, "poll", "add",
             [trial |-> sut.trial + 1, row |-> sut.row,
              lost |-> sut.lost + IF sut.row = "lost" THEN 1 ELSE 0])
    BY <1>9 DEF Finalize
  <2>2. QED
    BY <1>2, <1>3, <2>1
<1>10. CASE Judge(s, PreCron(Before), PostCron(Before, After))
  <2>1. TellBefore(s) => SoundPre(s, PreCron(Before))
    BY TrialsAssumption
       DEF TellBefore, Tells, Means, MeansCron, PreCron, Verdict, SoundPre, Verdicts,
              DropFailures, Statuses, Bad,
           CollectWithoutDefect, DependOnTiming, V1, V2
  <2>2. TellBoth(s) => SoundPost(s, PostCron(Before, After))
    BY TrialsAssumption
       DEF TellBoth, TellBefore, Tells, Means, MeansCron, PostCron, Verdict, SoundPost,
              Verdicts, DropFailures,
           Statuses, Bad, CollectWithoutDefect, DependOnTiming, V1, V2
  <2>3. scenario = s /\ pc = "judge" /\ pc' = "done" /\ Judges
    BY <1>10, <2>1, <2>2, JudgeIsStep DEF Judge
  <2>4. QED
    BY <1>1, <2>3 DEF Judges, FrameStep, KeepsCron
<1>11. QED
  BY <1>4, <1>5, <1>6, <1>7, <1>8, <1>9, <1>10 DEF CronManualRun, RunCron

-----------------------------------------------------------------------------
(* A scenario with a script preserves the invariant.                       *)
LEMMA ScriptRunKeeps ==
  ASSUME ScenarioInv,
         \/ Scenario026 \/ Scenario030 \/ Scenario031 \/ Scenario032 \/ Scenario033
         \/ Scenario037 \/ Scenario038 \/ Scenario039 \/ Scenario040 \/ Scenario045
         \/ Scenario047 \/ Scenario048 \/ Scenario049 \/ Scenario050 \/ Scenario053
         \/ Scenario056 \/ PendingTtl \/ Scenario026E2e
  PROVE  ScenarioInv'
<1>1. RunInv /\ KeepsInv /\ LeftInv
  BY DEF ScenarioInv
<1>2. ASSUME scenario \in ScriptScenarios, ScriptStep
      PROVE  RunInv' /\ LeftInv' /\ scenario' = scenario
  BY <1>1, <1>2, ScriptKept, FrameKept, ScenarioFixed
<1> USE DEF ScriptScenarios, InProbe, V1, V2
<1>3. CASE Scenario026
  <2>1. scenario = "026" /\ ScriptStep
    BY <1>1, <1>3, Steps026
  <2>2. QED
    BY <1>2, <2>1 DEF ScenarioInv, KeepsInv
<1>4. CASE Scenario030
  <2>1. scenario = "030" /\ ScriptStep /\ Keeps030'
    BY <1>1, <1>4, Steps030
  <2>2. QED
    BY <1>2, <2>1 DEF ScenarioInv, KeepsInv
<1>5. CASE Scenario031
  <2>1. scenario = "031" /\ ScriptStep /\ Keeps031'
    BY <1>1, <1>5, Steps031
  <2>2. QED
    BY <1>2, <2>1 DEF ScenarioInv, KeepsInv
<1>6. CASE Scenario032
  <2>1. scenario = "032" /\ ScriptStep /\ Keeps032'
    BY <1>1, <1>6, Steps032
  <2>2. QED
    BY <1>2, <2>1 DEF ScenarioInv, KeepsInv
<1>7. CASE Scenario033
  <2>1. scenario = "033" /\ ScriptStep /\ Keeps033'
    BY <1>1, <1>7, Steps033
  <2>2. QED
    BY <1>2, <2>1 DEF ScenarioInv, KeepsInv
<1>8. CASE Scenario037
  <2>1. scenario = "037" /\ ScriptStep /\ Keeps037'
    BY <1>1, <1>8, Steps037
  <2>2. QED
    BY <1>2, <2>1 DEF ScenarioInv, KeepsInv
<1>9. CASE Scenario038
  <2>1. scenario = "038" /\ ScriptStep /\ Keeps038'
    BY <1>1, <1>9, Steps038
  <2>2. QED
    BY <1>2, <2>1 DEF ScenarioInv, KeepsInv
<1>10. CASE Scenario039
  <2>1. scenario = "039" /\ ScriptStep /\ Keeps039'
    BY <1>1, <1>10, Steps039
  <2>2. QED
    BY <1>2, <2>1 DEF ScenarioInv, KeepsInv
<1>11. CASE Scenario040
  <2>1. scenario = "040" /\ ScriptStep /\ Keeps040'
    BY <1>1, <1>11, Steps040
  <2>2. QED
    BY <1>2, <2>1 DEF ScenarioInv, KeepsInv
<1>12. CASE Scenario045
  <2>1. scenario = "045" /\ ScriptStep /\ Keeps045'
    BY <1>1, <1>12, Steps045
  <2>2. QED
    BY <1>2, <2>1 DEF ScenarioInv, KeepsInv
<1>13. CASE Scenario047
  <2>1. scenario = "047" /\ ScriptStep /\ Keeps047'
    BY <1>1, <1>13, Steps047
  <2>2. QED
    BY <1>2, <2>1 DEF ScenarioInv, KeepsInv
<1>14. CASE Scenario048
  <2>1. scenario = "048" /\ ScriptStep /\ Keeps048'
    BY <1>1, <1>14, Steps048
  <2>2. QED
    BY <1>2, <2>1 DEF ScenarioInv, KeepsInv
<1>15. CASE Scenario049
  <2>1. scenario = "049" /\ ScriptStep /\ Keeps049'
    BY <1>1, <1>15, Steps049
  <2>2. QED
    BY <1>2, <2>1 DEF ScenarioInv, KeepsInv
<1>16. CASE Scenario050
  <2>1. scenario = "050" /\ ScriptStep /\ KeepsReplay'
    BY <1>1, <1>16, Steps050
  <2>2. QED
    BY <1>2, <2>1 DEF ScenarioInv, KeepsInv
<1>17. CASE Scenario053
  <2>1. scenario = "053" /\ ScriptStep /\ Keeps053'
    BY <1>1, <1>17, Steps053
  <2>2. QED
    BY <1>2, <2>1 DEF ScenarioInv, KeepsInv
<1>18. CASE Scenario056
  <2>1. scenario = "056" /\ ScriptStep /\ KeepsReplay'
    BY <1>1, <1>18, Steps056
  <2>2. QED
    BY <1>2, <2>1 DEF ScenarioInv, KeepsInv
<1>19. CASE PendingTtl
  <2>1. scenario = "mcp-pending-ttl" /\ ScriptStep /\ KeepsTtl'
    BY <1>1, <1>19, StepsTtl
  <2>2. QED
    BY <1>2, <2>1 DEF ScenarioInv, KeepsInv
<1>20. CASE Scenario026E2e
  <2>1. scenario = "026-e2e" /\ ScriptStep /\ Keeps026E2e'
    BY <1>1, <1>20, Steps026E2e
  <2>2. QED
    BY <1>2, <2>1 DEF ScenarioInv, KeepsInv
<1>21. QED
  BY <1>3, <1>4, <1>5, <1>6, <1>7, <1>8, <1>9, <1>10, <1>11, <1>12, <1>13,
     <1>14, <1>15, <1>16, <1>17, <1>18, <1>19, <1>20

(* And so does one without.                                                *)
LEMMA OtherRunKeeps ==
  ASSUME ScenarioInv,
         \/ MapSize \/ Scenario039E2e \/ Scenario038E2e \/ Scenario040E2e \/ CronManualRun
         \/ RunV1 \/ SeedV1 \/ KillAttemptV1 \/ TrialV1
         \/ Judge(V1, PreV1(Before), PostV1(Before, After))
         \/ RunV2 \/ SeedV2 \/ KillAttemptV2 \/ TrialV2
         \/ Judge(V2, PreV2(Before), PostV2(Before, After))
         \/ Writers \/ OrphanWrites \/ OrphansExit
         \/ Interrupt \/ PrerequisiteMissing({V1, V2})
  PROVE  ScenarioInv'
<1>1. RunInv /\ KeepsInv /\ LeftInv
  BY DEF ScenarioInv
<1>2. ASSUME FrameStep PROVE RunInv' /\ scenario' = scenario
  BY <1>1, <1>2, FrameKept, ScenarioFixed
<1>3. CASE MapSize
  <2>1. scenario = "gateway-map-size" /\ FrameStep /\ left' = {}
    BY <1>1, <1>3, StepsMapSize
  <2>2. QED
    BY <1>2, <2>1 DEF ScenarioInv, KeepsInv, LeftInv, ScriptScenarios, InProbe, V1, V2
<1>4. CASE Scenario039E2e
  <2>1. scenario = "039-e2e" /\ FrameStep /\ LeftInv' /\ Keeps039E2e'
    BY <1>1, <1>4, Steps039E2e
  <2>2. QED
    BY <1>2, <2>1 DEF ScenarioInv, KeepsInv, V1, V2
<1>5. CASE Scenario038E2e
  <2>1. scenario = "038-e2e" /\ FrameStep /\ LeftInv' /\ Keeps038E2e'
    BY <1>1, <1>5, Steps038E2e
  <2>2. QED
    BY <1>2, <2>1 DEF ScenarioInv, KeepsInv, V1, V2
<1>6. CASE Scenario040E2e
  <2>1. scenario = "040-e2e" /\ FrameStep /\ LeftInv' /\ Keeps040E2e'
    BY <1>1, <1>6, Steps040E2e
  <2>2. QED
    BY <1>2, <2>1 DEF ScenarioInv, KeepsInv, V1, V2
<1>7. CASE CronManualRun
  <2>1. scenario = "cron-manual-run" /\ FrameStep /\ left' = {} /\ KeepsCron'
    BY <1>1, <1>7, StepsCron
  <2>2. QED
    BY <1>2, <2>1 DEF ScenarioInv, KeepsInv, LeftInv, ScriptScenarios, InProbe, V1, V2
<1>8. CASE \/ RunV1 \/ SeedV1 \/ KillAttemptV1 \/ TrialV1
           \/ Judge(V1, PreV1(Before), PostV1(Before, After))
           \/ RunV2 \/ SeedV2 \/ KillAttemptV2 \/ TrialV2
           \/ Judge(V2, PreV2(Before), PostV2(Before, After))
           \/ Writers \/ OrphanWrites \/ OrphansExit
           \/ Interrupt \/ PrerequisiteMissing({V1, V2})
  <2>1. scenario \in {V1, V2} /\ FrameStep /\ LeftInv' /\ KeepsV'
    <3>1. CASE RunV1 \/ RunV2
      BY <1>1, <3>1, RunVKeeps
    <3>2. CASE SeedV1 \/ SeedV2
      BY <1>1, <3>2, SeedAndSpawnKeeps DEF SeedV1, SeedV2
    <3>3. CASE KillAttemptV1 \/ KillAttemptV2
      BY <1>1, <3>3, KillAttemptKeeps
    <3>4. CASE TrialV1 \/ TrialV2
      BY <1>1, <3>4, DiskIntegrityKeeps DEF TrialV1, TrialV2
    <3>5. CASE \/ Judge(V1, PreV1(Before), PostV1(Before, After))
               \/ Judge(V2, PreV2(Before), PostV2(Before, After))
      BY <1>1, <3>5, JudgeVKeeps
    <3>6. CASE Writers \/ OrphanWrites \/ OrphansExit
      BY <1>1, <3>6, WriterKeeps, OrphanWritesKeeps, OrphansExitKeeps
    <3>7. CASE Interrupt \/ PrerequisiteMissing({V1, V2})
      BY <1>1, <3>7, InterruptKeeps, PrerequisiteVKeeps
    <3>8. QED
      BY <1>8, <3>1, <3>2, <3>3, <3>4, <3>5, <3>6, <3>7
  <2>2. QED
    BY <1>2, <2>1 DEF ScenarioInv, KeepsInv, V1, V2
<1>9. QED
  BY <1>3, <1>4, <1>5, <1>6, <1>7, <1>8

(* A probe that fails, or does not start, has nothing to keep.             *)
LEMMA NothingToKeep ==
  ASSUME KeepsInv, scenario \in ScriptScenarios \cup {"gateway-map-size"},
         pc' = "collect", out'.end # "payload", UNCHANGED <<scenario, build, measured>>
  PROVE  KeepsInv'
<1>1. /\ Keeps030' /\ Keeps031' /\ Keeps032' /\ Keeps033' /\ Keeps037' /\ Keeps038'
      /\ Keeps039' /\ Keeps040' /\ Keeps045' /\ Keeps047' /\ Keeps049' /\ KeepsReplay'
      /\ Keeps026E2e'
  BY DEF Keeps030, Keeps031, Keeps032, Keeps033, Keeps037, Keeps038, Keeps039, Keeps040,
         Keeps045, Keeps047, Keeps049, KeepsReplay, Keeps026E2e
<1>2. Keeps048' /\ Keeps053'
  BY DEF Keeps048, Keeps053
<1>3. scenario = "mcp-pending-ttl" => KeepsTtl'
  BY DEF KeepsInv, KeepsTtl
<1>4. QED
  BY <1>1, <1>2, <1>3 DEF KeepsInv, ScriptScenarios, InProbe, V1, V2

(* A fault of a probe with a script, or of one that cannot start.          *)
LEMMA FaultsKeep ==
  ASSUME ScenarioInv, ProbeFails \/ PrerequisiteMissing(InProbe \cup {"026-e2e"})
  PROVE  ScenarioInv'
<1>1. RunInv /\ KeepsInv /\ LeftInv
  BY DEF ScenarioInv
<1>2. /\ Running /\ pc' = "collect" /\ out'.end # "payload"
      /\ UNCHANGED <<given, build, sut, measured, status>>
      /\ \/ left' = left
         \/ /\ "script" \in left /\ out'.end = "timeout"
            /\ left' = left \cup {"orphans"}
  <2>1. CASE ProbeFails
    BY <2>1 DEF ProbeFails, Survivors, Ended, Probing, FrameLabels, Running
  <2>2. CASE PrerequisiteMissing(InProbe \cup {"026-e2e"})
    BY <2>2 DEF PrerequisiteMissing, Ended, Running
  <2>3. QED
    BY <2>1, <2>2
<1>3. scenario \in ScriptScenarios \cup {"gateway-map-size"}
  <2>1. CASE ProbeFails
    <3>1. "script" \in left /\ scenario \in AllScenarios
      BY <1>1, <2>1 DEF ProbeFails, RunInv, Types
    <3>2. QED
      BY <1>1, <3>1 DEF LeftInv, LeftV, Left038E2e, Left039E2e, Left040E2e, AllScenarios,
            ScriptScenarios
  <2>2. CASE PrerequisiteMissing(InProbe \cup {"026-e2e"})
    BY <2>2 DEF PrerequisiteMissing, ScriptScenarios
  <2>3. QED
    BY <2>1, <2>2
<1>4. scenario # "cron-manual-run"
  BY <1>3 DEF ScriptScenarios, InProbe
<1>5. Ends /\ FrameStep
  BY <1>2, <1>4 DEF Ends, FrameStep
<1>6. RunInv' /\ KeepsInv'
  BY <1>1, <1>2, <1>3, <1>5, FrameKept, NothingToKeep DEF given
<1>7. LeftInv'
  <2>1. CASE scenario \in ScriptScenarios
    BY <1>1, <1>2, <1>5, <2>1, ScriptKept DEF ScriptStep
  <2>2. CASE scenario = "gateway-map-size"
    BY <1>1, <1>2, <2>2 DEF LeftInv, given, ScriptScenarios, V1, V2
  <2>3. QED
    BY <1>3, <2>1, <2>2
<1>8. QED
  BY <1>6, <1>7 DEF ScenarioInv

(* Nothing changes in a step that changes nothing.                         *)
LEMMA StutterKeeps ==
  ASSUME ScenarioInv, UNCHANGED vars
  PROVE  ScenarioInv'
<1>1. /\ UNCHANGED <<scenario, mode, truth, build, pc, sut, out, left, measured, status>>
      /\ Here' = Here
  BY DEF vars, given, Here
<1>2. Moves
  BY <1>1 DEF Moves, Frame, given
<1>3. RunInv'
  BY <1>2, FrameKept DEF ScenarioInv, FrameStep
<1>4. LeftInv'
  BY <1>1 DEF ScenarioInv, LeftInv, LeftScript, LeftV, Left039E2e, Left038E2e, Left040E2e,
        Probing
<1>5. KeepsInv'
  <2>1. /\ Keeps030' = Keeps030 /\ Keeps031' = Keeps031 /\ Keeps032' = Keeps032
        /\ Keeps033' = Keeps033 /\ Keeps037' = Keeps037 /\ Keeps038' = Keeps038
    BY <1>1 DEF Keeps030, Keeps031, Keeps032, Keeps033, Keeps037, Keeps038
  <2>2. /\ Keeps039' = Keeps039 /\ Keeps040' = Keeps040 /\ Keeps045' = Keeps045
        /\ Keeps047' = Keeps047 /\ Keeps049' = Keeps049 /\ KeepsReplay' = KeepsReplay
    BY <1>1 DEF Keeps039, Keeps040, Keeps045, Keeps047, Keeps049, KeepsReplay
  <2>3. Keeps048' = Keeps048
    BY <1>1 DEF Keeps048, Stores048, Diverges048
  <2>4. Keeps053' = Keeps053
    BY <1>1 DEF Keeps053, Key053
  <2>5. KeepsTtl' = KeepsTtl /\ KeepsV' = KeepsV /\ KeepsCron' = KeepsCron
    BY <1>1 DEF KeepsTtl, KeepsV, KeepsCron
  <2>6. /\ Keeps026E2e' = Keeps026E2e /\ Keeps038E2e' = Keeps038E2e
        /\ Keeps039E2e' = Keeps039E2e /\ Keeps040E2e' = Keeps040E2e
    BY <1>1 DEF Keeps026E2e, Keeps038E2e, Keeps039E2e, Keeps040E2e, Probing
  <2>7. QED
    BY <1>1, <2>1, <2>2, <2>3, <2>4, <2>5, <2>6 DEF ScenarioInv, KeepsInv
<1>6. QED
  BY <1>3, <1>4, <1>5 DEF ScenarioInv

(* The first state of every run.                                           *)
LEMMA ScenarioInit ==
  ASSUME Init
  PROVE  ScenarioInv
<1>1. /\ scenario \in AllScenarios /\ mode \in Modes /\ truth \in [Builds -> Truths]
      /\ build = "base" /\ pc = "launch" /\ out.end = "running" /\ left = {}
      /\ DOMAIN measured = Builds /\ \A b \in Builds : measured[b] = NotRun
      /\ status = "pending"
  BY LoadedAssumption DEF Init, Ended
<1>2. RunInv
  BY <1>1 DEF RunInv, Types, MeasuredInOrder, MeasuredTells, Sound, CollectedShowsDefect,
        CollectedExcludesDefect, CollectedShowsFix, BuildsAreConfirmed,
        FailuresAreNotVerdicts, Collected, Builds, BadBlocks
<1>3. LeftInv
  BY <1>1 DEF LeftInv, LeftScript, LeftV, Left039E2e, Left038E2e, Left040E2e, Probing,
        FrameLabels
<1>4. KeepsInv
  BY <1>1 DEF KeepsInv, Keeps030, Keeps031, Keeps032, Keeps033, Keeps037, Keeps038, Keeps039,
        Keeps040, Keeps045, Keeps047, Keeps048, Keeps049, KeepsReplay, Keeps053, KeepsTtl,
        KeepsV, Keeps026E2e, Keeps038E2e, Keeps039E2e, Keeps040E2e, KeepsCron, Probing,
        FrameLabels
<1>5. QED
  BY <1>2, <1>3, <1>4 DEF ScenarioInv

(* Every step of the run, of a writer and of a fault.                      *)
LEMMA ScenarioNext ==
  ASSUME ScenarioInv, [Next]_vars
  PROVE  ScenarioInv'
<1>1. CASE Run
  BY <1>1, ScriptRunKeeps, OtherRunKeeps
     DEF Run, SignalScenarios, StoreScenarios, QueueScenarios, GatewayScenarios, E2eScenarios
<1>2. CASE Writers
  BY <1>2, OtherRunKeeps
<1>3. CASE Faults
  <2>1. PrerequisiteMissing(InProbe \cup {V1, V2, "026-e2e"})
          => PrerequisiteMissing(InProbe \cup {"026-e2e"}) \/ PrerequisiteMissing({V1, V2})
    BY DEF PrerequisiteMissing
  <2>2. QED
    BY <1>3, <2>1, FaultsKeep, OtherRunKeeps DEF Faults
<1>4. CASE OrphansExit
  BY <1>4, OtherRunKeeps
<1>5. CASE UNCHANGED vars
  BY <1>5, StutterKeeps
<1>6. QED
  BY <1>1, <1>2, <1>3, <1>4, <1>5 DEF Next

(* Everything the verdicts rest on holds throughout every run.             *)
THEOREM ScenarioInvHolds == Spec => []ScenarioInv
<1>1. QED
  BY ScenarioInit, ScenarioNext, PTL DEF Spec

-----------------------------------------------------------------------------
(* The variables of a run have the values they are meant to have, and the  *)
(* run is done exactly when its proof has a status.                        *)
THEOREM RunsAreTyped == Spec => []TypeOK
<1>1. ASSUME ScenarioInv PROVE TypeOK
  <2>1. Types /\ LeftInv
    BY <1>1 DEF ScenarioInv, RunInv
  <2>2. left \subseteq Items
    BY <2>1 DEF Types, LeftInv, LeftScript, LeftV, Left039E2e, Left038E2e, Left040E2e,
          AllScenarios, ScriptScenarios, Items
  <2>3. QED
    BY <2>1, <2>2 DEF Types, TypeOK
<1>2. QED
  BY <1>1, ScenarioInvHolds, PTL

(* A proof that was collected shows that the base build has the defect,    *)
(* with any number of trials, and whichever probe failed or write was      *)
(* lost, unless the scenario is one of those named (evaluate_pre,          *)
(* evaluate_post).                                                         *)
THEOREM CollectionsShowTheDefect == Spec => []CollectedShowsDefect
<1>1. ScenarioInv => CollectedShowsDefect
  BY DEF ScenarioInv, RunInv, Sound
<1>2. QED
  BY <1>1, ScenarioInvHolds, PTL

(* A post-sol proof that was collected excludes that the head build has    *)
(* the defect, unless its scenario depends on timing (evaluate_post).      *)
THEOREM CollectionsExcludeTheDefect == Spec => []CollectedExcludesDefect
<1>1. ScenarioInv => CollectedExcludesDefect
  BY DEF ScenarioInv, RunInv, Sound
<1>2. QED
  BY <1>1, ScenarioInvHolds, PTL

(* It shows that the head build is fixed, where the evaluation asks        *)
(* whether that build has done the work at all (evaluate_post).            *)
THEOREM CollectionsShowTheFix == Spec => []CollectedShowsFix
<1>1. ScenarioInv => CollectedShowsFix
  BY DEF ScenarioInv, RunInv, Sound
<1>2. QED
  BY <1>1, ScenarioInvHolds, PTL

(* A defect that was measured completely is confirmed, and so is its fix:  *)
(* the order in which a probe counts, resets and reloads loses neither.    *)
THEOREM DefectsAreConfirmed == Spec => []BuildsAreConfirmed
<1>1. ScenarioInv => BuildsAreConfirmed
  BY DEF ScenarioInv, RunInv, Sound
<1>2. QED
  BY <1>1, ScenarioInvHolds, PTL

(* A verdict on the code rests on a payload of every build: a probe that   *)
(* was skipped, failed or timed out blocks it.  Where trials that failed   *)
(* are dropped, one at least of each build has not failed (run_scenario,   *)
(* evaluate_pre, evaluate_post).                                           *)
THEOREM FailuresBlock == Spec => []FailuresAreNotVerdicts
<1>1. ScenarioInv => FailuresAreNotVerdicts
  BY DEF ScenarioInv, RunInv, Sound
<1>2. QED
  BY <1>1, ScenarioInvHolds, PTL

(* A run that is done has removed its files and ended the processes that   *)
(* it knows of, and where a timeout kept it from that, its proof is        *)
(* blocked (the finally clauses of run_scenario).                          *)
THEOREM RunsCleanUp == Spec => []NothingLeftBehind
<1>1. ASSUME ScenarioInv PROVE NothingLeftBehind
  <2>1. Types /\ LeftInv
    BY <1>1 DEF ScenarioInv, RunInv
  <2>2. BadBlocks
    BY <1>1 DEF ScenarioInv, RunInv, Sound
  <2>3. ASSUME pc = "done", scenario \in ScriptScenarios
        PROVE  left \subseteq {"orphans"} /\ ("orphans" \in left => status = "blocked-env")
    BY <2>1, <2>2, <2>3 DEF LeftInv, LeftScript, BadBlocks, Probing, FrameLabels
  <2>4. ASSUME pc = "done", scenario \in {V1, V2}
        PROVE  left \subseteq {"orphans"}
    BY <2>1, <2>4 DEF LeftInv, LeftV
  <2>5. ASSUME pc = "done", scenario \in {"039-e2e", "gateway-map-size", "cron-manual-run"}
        PROVE  left = {}
    BY <2>1, <2>5 DEF LeftInv, Left039E2e
  <2>6. ASSUME pc = "done", scenario \in LeaveBehind
        PROVE  left \subseteq {"logs"} \/ status = "blocked-env"
    BY <2>1, <2>6 DEF LeftInv, Left038E2e, Left040E2e, LeaveBehind
  <2>7. scenario \in ScriptScenarios \cup {V1, V2} \cup LeaveBehind
                      \cup {"039-e2e", "gateway-map-size", "cron-manual-run"}
    BY <2>1 DEF Types, AllScenarios, ScriptScenarios, LeaveBehind
  <2>8. ASSUME pc = "done" PROVE NothingLeftBehind
    <3>1. CASE scenario \in ScriptScenarios
      BY <2>3, <2>8, <3>1 DEF NothingLeftBehind
    <3>2. CASE scenario \in {V1, V2}
      BY <2>4, <2>8, <3>2 DEF NothingLeftBehind
    <3>3. CASE scenario \in {"039-e2e", "gateway-map-size", "cron-manual-run"}
      BY <2>5, <2>8, <3>3 DEF NothingLeftBehind
    <3>4. CASE scenario \in LeaveBehind
      BY <2>6, <2>8, <3>4 DEF NothingLeftBehind
    <3>5. QED
      BY <2>7, <3>1, <3>2, <3>3, <3>4
  <2>9. QED
    BY <2>8 DEF NothingLeftBehind
<1>2. QED
  BY <1>1, ScenarioInvHolds, PTL
=============================================================================
