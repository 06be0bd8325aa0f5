--------------------------- MODULE SignalScenarios ---------------------------
(***************************************************************************)
(* Scenarios whose probe calls one function of the build once and looks    *)
(* for what the function should have passed on, cleared or released.       *)
(***************************************************************************)
EXTENDS Scenario

(* gateway-map-size: the caller must name the map to measure, and run.py   *)
(* hands over only the trials and the two timeouts.                        *)
RunMapSize ==
    \/ PrerequisiteMissing({"gateway-map-size"})
    \/ LastLine("gateway-map-size")

PreMapSize(m) == Verdict(Bad(m), m.delta >= m.trials)
PostMapSize(wo, wf) ==
    Verdict(Bad(wo) \/ Bad(wf), wo.delta >= wf.trials /\ wf.delta < wf.trials)

MapSize == RunMapSize \/ Judge("gateway-map-size", PreMapSize(Before), PostMapSize(Before, After))

-----------------------------------------------------------------------------
(* proof-CAND-026: is the AbortSignal of callTool handed to the tool?      *)
Handlers026 ==
    \/ Here = "inert" /\ Skip("026", "handlers")
    \/ Step("026", "handlers", "call", sut)

CallTool026 ==
    LET invoked == IF Here = "inert" THEN 0 ELSE 1
    IN  \/ Here = "inert" /\ Report("026", "call", Failed)
        \/ Report("026", "call",
                  [trials |-> Trials, invoked |-> invoked,
                   received |-> Here = "fixed", same |-> Here = "fixed"])

Pre026(m) == Verdict(Bad(m) \/ m.invoked = 0, ~m.received)
Post026(wo, wf) ==
    Verdict(Bad(wo) \/ Bad(wf), ~wo.received /\ wf.received /\ wf.same)

Run026 ==
    \/ Launch("026", "handlers", Idle)
    \/ LastLine("026")

Scenario026 ==
    \/ Run026 \/ Handlers026 \/ CallTool026 \/ Judge("026", Pre026(Before), Post026(Before, After))

-----------------------------------------------------------------------------
(* proof-CAND-030: does the termination of a run clear the marker of its   *)
(* pending timeout?  The hooks come from a patch of the worktree.          *)
Instrument030 == Launch("030", "install", [before |-> 0])

Install030 ==
    Step("030", "install", "terminate",
         [before |-> IF Here = "inert" THEN 0 ELSE 1])

Terminate030 ==
    Report("030", "terminate",
           [trials |-> Trials, before |-> sut.before,
            after |-> IF Here = "fixed" THEN 0 ELSE sut.before])

Pre030(m) == Verdict(Bad(m) \/ m.before = 0, m.after >= m.before)
Post030(wo, wf) ==
    Verdict(Bad(wo) \/ Bad(wf), wo.after >= wo.before /\ wf.after = 0)

Run030 == LastLine("030")
Scenario030 ==
    \/ Instrument030 \/ Install030 \/ Terminate030 \/ Run030
    \/ Judge("030", Pre030(Before), Post030(Before, After))

-----------------------------------------------------------------------------
(* proof-CAND-032: is the rejection of a queued message caught?  Each      *)
(* trial queues a message that a fake run rejects; the rejections that     *)
(* nobody caught reach the listener during the grace period.               *)
Instrument032 == Launch("032", "queue", [trial |-> 0, rejected |-> 0])

Queue032 ==
    /\ At("032", "queue") /\ sut.trial < Trials
    /\ Step("032", "queue", "queue",
            [trial |-> sut.trial + 1,
             rejected |-> sut.rejected + IF Here = "defect" THEN 1 ELSE 0])

Grace032 ==
    /\ At("032", "queue") /\ sut.trial = Trials
    /\ Report("032", "queue", [trials |-> Trials, unhandled |-> sut.rejected])

Pre032(m) == Verdict(Bad(m), m.unhandled >= 1)
Post032(wo, wf) ==
    Verdict(Bad(wo) \/ Bad(wf), wo.unhandled >= 1 /\ wf.unhandled = 0)

Run032 == LastLine("032")
Scenario032 ==
    \/ Instrument032 \/ Queue032 \/ Grace032 \/ Run032
    \/ Judge("032", Pre032(Before), Post032(Before, After))

-----------------------------------------------------------------------------
(* proof-CAND-037: is a context engine disposed of when its contract check *)
(* fails?  The branch in which the factory throws has no engine.           *)
Resolve037 ==
    \/ Step("037", "factory-throw", "contract-error", [disposed |-> {}])
    \/ Step("037", "contract-error", "count",
            [disposed |-> sut.disposed \cup
                (IF Here = "fixed" THEN {"contract-error"} ELSE {})])
    \/ Report("037", "count",
              [trials |-> 2, branches |-> Cardinality(sut.disposed)])

Pre037(m) == Verdict(Bad(m), m.branches = 0)
Post037(wo, wf) ==
    Verdict(Bad(wo) \/ Bad(wf), wo.branches = 0 /\ wf.branches >= 2)

Run037 ==
    \/ Launch("037", "factory-throw", [disposed |-> {}])
    \/ LastLine("037")

Scenario037 == Run037 \/ Resolve037 \/ Judge("037", Pre037(Before), Post037(Before, After))

-----------------------------------------------------------------------------
(* proof-CAND-038: are the chat runs of a connection aborted when it       *)
(* closes?  The probe registers two runs under ids of its own; the gateway *)
(* gives the connection that the probe opens and closes another one.       *)
Register038 ==
    Step("038", "register", "connect",
         [owner |-> [a |-> "conn-A", b |-> "conn-B"], conn |-> "none"])

Connect038 ==
    \/ Here = "inert" /\ Report("038", "connect", Failed)
    \/ Step("038", "connect", "close", [sut EXCEPT !.conn = "generated"])

Aborts038(run) == Here = "fixed" /\ sut.owner[run] = sut.conn

Close038 ==
    Report("038", "close",
           [trials |-> Trials, a |-> Aborts038("a"), b |-> Aborts038("b")])

Pre038(m) == Verdict(Bad(m), ~m.a /\ ~m.b)
Post038(wo, wf) == Verdict(Bad(wo) \/ Bad(wf), ~wo.a /\ wf.a /\ ~wf.b)

Run038 ==
    \/ Launch("038", "register", Idle)
    \/ LastLine("038")

Scenario038 ==
    \/ Run038 \/ Register038 \/ Connect038 \/ Close038
    \/ Judge("038", Pre038(Before), Post038(Before, After))

-----------------------------------------------------------------------------
(* mcp-pending-ttl: does a sweeper drain the pending requests?  The sleep  *)
(* is an option of run.py, and may be shorter than their time to live.     *)
SetPending ==
    \/ Here = "inert" /\ Report("mcp-pending-ttl", "set", Failed)
    \/ Step("mcp-pending-ttl", "set", "sleep",
            [sut EXCEPT !.set = IF Here = "inert" THEN 0 ELSE Trials])

SleepPastTtl ==
    Report("mcp-pending-ttl", "sleep",
           [trials |-> Trials, sleep |-> sut.sleep, set |-> sut.set,
            after |-> IF Here = "fixed" /\ sut.sleep = "long" THEN 0 ELSE sut.set])

NothingSet(m) == "error" \in DOMAIN m \/ m.trials = 0 \/ m.set <= 0
PreTtl(m) == Verdict(NothingSet(m), m.after >= m.set)
PostTtl(wo, wf) ==
    Verdict(NothingSet(wo) \/ NothingSet(wf), wo.after >= wo.set /\ wf.after < wf.set)

(* Both builds get the same option.                                        *)
SleepOption ==
    IF "sleep" \in DOMAIN measured["base"] THEN {measured["base"].sleep}
    ELSE {"short", "long"}

RunTtl ==
    \/ \E sleep \in SleepOption :
          Launch("mcp-pending-ttl", "set", [sleep |-> sleep, set |-> 0])
    \/ MarkedLine("mcp-pending-ttl")

PendingTtl ==
    RunTtl \/ SetPending \/ SleepPastTtl \/ Judge("mcp-pending-ttl", PreTtl(Before), PostTtl(Before, After))

SignalScenarios ==
    \/ MapSize \/ Scenario026 \/ Scenario030 \/ Scenario032
    \/ Scenario037 \/ Scenario038 \/ PendingTtl
=============================================================================
