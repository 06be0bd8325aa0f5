--------------------------- MODULE GatewayScenarios ---------------------------
(***************************************************************************)
(* Scenarios about a part of the gateway that goes on after it was told to *)
(* stop: in the probe's process (039, 040) or in a gateway that the        *)
(* scenario starts and ends (039-e2e), and a cron job whose task the       *)
(* gateway gives up as lost (cron-manual-run).                             *)
(***************************************************************************)
EXTENDS Scenario

(* proof-CAND-039: are deliveries recovered although the gateway closes?   *)
(* The hooks count the calls; nothing in the probe closes the gateway.     *)
Instrument039 ==
    Launch("039", "activate", [trial |-> 0, fired |-> 0, closing |-> FALSE])

Recovers039 == Here = "defect" \/ (Here = "fixed" /\ ~sut.closing)

(* Outbound recovery is immediate.  An activation that throws counts as a  *)
(* trial without a call.                                                   *)
Activate039 ==
    /\ At("039", "activate") /\ sut.trial < Trials
    /\ IF Here = "inert"
       THEN Step("039", "activate", "activate", [sut EXCEPT !.trial = @ + 1])
       ELSE Step("039", "activate", "wait",
                 [sut EXCEPT !.fired = @ + IF Recovers039 THEN 1 ELSE 0])

(* Session recovery has a timer, shorter than the wait.                    *)
WaitForTimer039 ==
    /\ At("039", "wait")
    /\ Step("039", "wait", "activate",
            [sut EXCEPT !.trial = @ + 1,
                        !.fired = @ + IF Recovers039 THEN 1 ELSE 0])

Counts039 ==
    /\ At("039", "activate") /\ sut.trial = Trials
    /\ Report("039", "activate", [trials |-> Trials, fired |-> sut.fired])

Pre039(m) == Verdict(Bad(m), m.fired >= m.trials)
Post039(wo, wf) ==
    Verdict(Bad(wo) \/ Bad(wf), wo.fired >= wf.trials /\ wf.fired = 0)

Run039 == LastLine("039")
Scenario039 ==
    \/ Instrument039 \/ Activate039 \/ WaitForTimer039 \/ Counts039 \/ Run039
    \/ Judge("039", Pre039(Before), Post039(Before, After))

-----------------------------------------------------------------------------
(* proof-CAND-040: is an approval that is delivered while its handler      *)
(* stops unbound again?  A trial without any unbinding counts as a leak.   *)
Fresh040 == [trial |-> 0, unbound |-> 0, leaks |-> 0]

TrialOver040(unbound) ==
    [trial |-> sut.trial + 1, unbound |-> sut.unbound + unbound,
     leaks |-> sut.leaks + IF unbound = 0 THEN 1 ELSE 0]

HandleRequested040 ==
    /\ At("040", "trial") /\ sut.trial < Trials
    /\ \/ Step("040", "trial", "parked", sut)
       \/ /\ Here = "inert"
          /\ Step("040", "trial", "trial", [sut EXCEPT !.trial = @ + 1])

(* stop finds no entry; the delivery then returns and binds one.           *)
StopAndRelease040 ==
    Step("040", "parked", "trial", TrialOver040(IF Here = "fixed" THEN 1 ELSE 0))

Totals040 ==
    /\ At("040", "trial") /\ sut.trial = Trials
    /\ Report("040", "trial",
              [trials |-> Trials, unbound |-> sut.unbound, leaks |-> sut.leaks])

(* Variant of Post040: a head build that never unbinds.                    *)
Post040AnyHead(wo, wf) ==
    Verdict(Bad(wo) \/ Bad(wf),
            wo.leaks >= wo.trials \div 2 /\ wo.unbound = 0 /\ wf.leaks = 0)

Most(n) == IF n < 2 THEN 1 ELSE n \div 2
Pre040(m) == Verdict(Bad(m), m.leaks >= Most(m.trials) /\ m.unbound = 0)
Post040(wo, wf) ==
    Verdict(Bad(wo) \/ Bad(wf),
            /\ wo.leaks >= Most(wf.trials) /\ wo.unbound = 0
            /\ wf.leaks = 0 /\ wf.unbound >= wf.trials)

Run040 == Launch("040", "trial", Fresh040) \/ LastLine("040")
Scenario040 ==
    \/ Run040 \/ HandleRequested040 \/ StopAndRelease040 \/ Totals040
    \/ Judge("040", Pre040(Before), Post040(Before, After))

-----------------------------------------------------------------------------
(* proof-CAND-039-e2e: a delivery is seeded and a gateway started; when it *)
(* is ready it gets SIGTERM, and its log tells whether it recovered the    *)
(* delivery or skipped that because it was closing.                        *)
Fresh039E2e == [trial |-> 0, fire |-> 0, skip |-> 0, notReady |-> 0, log |-> "none"]

SeedAndSpawn039E2e ==
    /\ At("039-e2e", "seed") /\ sut.trial < Trials
    /\ Act("039-e2e", "seed", "boot", [sut EXCEPT !.log = "none"],
           left \cup {"gateway", "logs"})

EndTrial039E2e(from, next) ==
    Act("039-e2e", from, "seed", [next EXCEPT !.trial = @ + 1],
        left \ {"gateway", "logs"})

Ready039E2e ==
    \/ Step("039-e2e", "boot", "ready", sut)
    \/ /\ At("039-e2e", "boot")
       /\ EndTrial039E2e("boot", [sut EXCEPT !.notReady = @ + 1])

(* The gateway starts its recovery some time after the ready line.         *)
Activate039E2e ==
    /\ scenario = "039-e2e" /\ pc \in {"ready", "closing"}
    /\ sut.log = "none" /\ Here # "inert"
    /\ Step("039-e2e", pc, pc,
            [sut EXCEPT !.log = IF Here = "fixed" /\ pc = "closing"
                                THEN "skip" ELSE "fire"])

Sigterm039E2e == Step("039-e2e", "ready", "closing", sut)

(* It exits, or is killed after a wait.                                    *)
SearchLog039E2e ==
    /\ At("039-e2e", "closing")
    /\ EndTrial039E2e("closing",
                      [sut EXCEPT !.fire = @ + IF sut.log = "fire" THEN 1 ELSE 0,
                                  !.skip = @ + IF sut.log = "skip" THEN 1 ELSE 0])

(* Variant of NoneReady: off by one.                                       *)
NoneReadyAbove(m) == m.notReady > m.trials

NoneReady(m) == m.notReady = m.trials
Pre039E2e(m) == Verdict(Bad(m) \/ NoneReady(m), m.fire > 0)
Post039E2e(wo, wf) ==
    IF Bad(wo) \/ Bad(wf) \/ NoneReady(wo) \/ NoneReady(wf) THEN "blocked-env"
    ELSE IF wo.fire = 0 THEN "blocked-external-dep"
    ELSE Verdict(FALSE, wf.skip > 0 \/ wf.fire < wo.fire)

Run039E2e ==
    \/ Step("039-e2e", "launch", "seed", Fresh039E2e)
    \/ /\ At("039-e2e", "seed") /\ sut.trial = Trials
       /\ Report("039-e2e", "seed",
                 [trials |-> Trials, fire |-> sut.fire, skip |-> sut.skip,
                  notReady |-> sut.notReady, failed |-> sut.notReady])
    \/ Return("039-e2e", Reading(out), {})

Scenario039E2e ==
    \/ Run039E2e \/ SeedAndSpawn039E2e \/ Ready039E2e \/ Activate039E2e
    \/ Sigterm039E2e \/ SearchLog039E2e \/ Judge("039-e2e", Pre039E2e(Before), Post039E2e(Before, After))

-----------------------------------------------------------------------------
(* cron-manual-run: a job that a model runs for longer than the grace of   *)
(* the gateway's sweeper; its row in task_runs is read until it is final.  *)
(* A trial whose job could not be added or started, or whose row is not    *)
(* final in time, counts as one in which the task was not lost.            *)
FinalRows == {"lost", "failed", "completed"}

AddJob ==
    /\ At("cron-manual-run", "add") /\ sut.trial < Trials
    /\ \/ Step("cron-manual-run", "add", "poll", [sut EXCEPT !.row = "none"])
       \/ Step("cron-manual-run", "add", "add", [sut EXCEPT !.trial = @ + 1])
       \/ Exit("cron-manual-run", "add", Ended("timeout"))

(* The row, which the audited program keeps: a job that the model ends     *)
(* early is not lost in any build.                                         *)
TaskRow ==
    /\ At("cron-manual-run", "poll")
    /\ \E row \in IF sut.row = "none" THEN {"running"}
                  ELSE IF sut.row = "running" THEN FinalRows ELSE {} :
          /\ row = "lost" => Here = "defect"
          /\ Step("cron-manual-run", "poll", "poll", [sut EXCEPT !.row = row])

(* The row is final, or the deadline has passed.                           *)
Finalize ==
    /\ At("cron-manual-run", "poll")
    /\ Step("cron-manual-run", "poll", "add",
            [trial |-> sut.trial + 1, row |-> sut.row,
             lost |-> sut.lost + IF sut.row = "lost" THEN 1 ELSE 0])

PreCron(m) == Verdict(m.trials = 0, m.lost > 0)
PostCron(wo, wf) == Verdict(wo.trials = 0 \/ wf.trials = 0, wo.lost > 0 /\ wf.lost = 0)

RunCron ==
    \/ Step("cron-manual-run", "launch", "add",
            [trial |-> 0, row |-> "none", lost |-> 0])
    \/ /\ At("cron-manual-run", "add") /\ sut.trial = Trials
       /\ Report("cron-manual-run", "add", [trials |-> Trials, lost |-> sut.lost])
    \/ /\ At("cron-manual-run", "collect")
       /\ IF out.end = "timeout" THEN Raise("cron-manual-run", {})
          ELSE Return("cron-manual-run", Reading(out), {})

CronManualRun ==
    \/ RunCron \/ AddJob \/ TaskRow \/ Finalize
    \/ Judge("cron-manual-run", PreCron(Before), PostCron(Before, After))

GatewayScenarios == Scenario039 \/ Scenario040 \/ Scenario039E2e \/ CronManualRun
=============================================================================
