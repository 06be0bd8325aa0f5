----------------------------- MODULE E2eScenarios -----------------------------
(***************************************************************************)
(* Scenarios in which the probe is a client of a server that a trial       *)
(* starts: an MCP server (026-e2e), a gateway with a mock of the model     *)
(* behind it (038-e2e), a gateway with a stub of a channel (040-e2e).  The *)
(* server's steps interleave with those of the probe.                      *)
(***************************************************************************)
EXTENDS Scenario

(* proof-CAND-026-e2e: the tool writes what it saw of the AbortSignal to a *)
(* file when it ends, and the parent reads the file some time later; one   *)
(* that it cannot parse says that there was no signal.                     *)
Fresh026E2e ==
    [tool |-> "idle", aborted |-> FALSE, signal |-> FALSE,
     observed |-> FALSE, log |-> "missing"]

Payload026E2e ==
    LET complete == sut.log = "complete"
    IN  [trials |-> Trials, invoked |-> 1,
         signal |-> complete /\ sut.signal, observed |-> complete /\ sut.observed]

Parent026E2e ==
    \/ Step("026-e2e", "connect", "call", sut)
    \/ Step("026-e2e", "connect", "close", sut)
    \/ Step("026-e2e", "call", "settle", [sut EXCEPT !.aborted = TRUE])
    \/ Step("026-e2e", "settle", "close", sut)
    \/ /\ At("026-e2e", "close") /\ sut.log = "missing"
       /\ Report("026-e2e", "close", Failed)
    \/ /\ At("026-e2e", "close") /\ sut.log # "missing"
       /\ Report("026-e2e", "close", Payload026E2e)

(* The tool, in the child's process: a late one may be cut off by the end  *)
(* of the child, or be read while it writes.                               *)
Wrapper026E2e ==
    /\ scenario = "026-e2e" /\ Here # "inert"
    /\ \/ /\ pc \in {"call", "settle"} /\ sut.tool = "idle"
          /\ Step("026-e2e", pc, pc,
                  [sut EXCEPT !.tool = "executing", !.signal = Here = "fixed"])
       \/ /\ pc \in {"call", "settle", "close"} /\ sut.tool = "executing"
          /\ \E log \in {"partial", "complete"} :
                Step("026-e2e", pc, pc,
                     [sut EXCEPT !.tool = IF log = "complete" THEN "ended" ELSE @,
                                 !.log = log,
                                 !.observed = sut.signal /\ sut.aborted])

Pre026E2e(m) == Verdict(Bad(m) \/ m.invoked = 0, ~m.signal)
Post026E2e(wo, wf) ==
    Verdict(Bad(wo) \/ Bad(wf), ~wo.signal /\ wf.signal /\ wf.observed)

Run026E2e ==
    \/ Launch("026-e2e", "connect", Fresh026E2e)
    \/ LastLine("026-e2e")

Scenario026E2e ==
    \/ Run026E2e \/ Parent026E2e \/ Wrapper026E2e
    \/ Judge("026-e2e", Pre026E2e(Before), Post026E2e(Before, After))

-----------------------------------------------------------------------------
(* proof-CAND-038-e2e: a chat is sent and its connection closed while the  *)
(* mock of the model holds the answer.                                     *)
Fresh038E2e ==
    [trial |-> 0, acks |-> 0, chains |-> 0, aborts |-> 0, preSend |-> 0,
     ack |-> FALSE, open |-> TRUE, cancelled |-> FALSE, request |-> "none"]

OneIf(condition) == IF condition THEN 1 ELSE 0

StartMock038E2e ==
    /\ At("038-e2e", "trial") /\ sut.trial < Trials
    /\ Act("038-e2e", "trial", "mock", sut, left \cup {"mock", "logs"})

(* A trial that ends early leaves its logs in the directory for temporary  *)
(* files.                                                                  *)
NotReady038E2e(from) ==
    Act("038-e2e", from, "trial", [sut EXCEPT !.trial = @ + 1],
        left \ {"mock", "gateway"})

StartGateway038E2e ==
    \/ Act("038-e2e", "mock", "gateway", sut, left \cup {"gateway"})
    \/ NotReady038E2e("mock")

StartProbe038E2e ==
    \/ Act("038-e2e", "gateway", "connect", sut, left \cup {"probe"})
    \/ NotReady038E2e("gateway")

(* The gateway sees the connection close: the fixed code aborts its run.   *)
Closed038E2e ==
    [sut EXCEPT !.open = FALSE,
                !.cancelled = Here = "fixed" /\ sut.ack,
                !.request = IF Here = "fixed" /\ @ = "held" THEN "cut" ELSE @]

Probe038E2e ==
    \/ Step("038-e2e", "connect", "chat", sut)
    \/ Step("038-e2e", "chat", "wait", Closed038E2e)
    \/ /\ At("038-e2e", "wait")
       /\ Act("038-e2e", "wait", "shutdown", sut, left \ {"probe"})

(* It is refused, crashes, or its own timer ends it: the connection closes,*)
(* and the trial counts like any other.                                    *)
Probe038E2eEnds ==
    /\ scenario = "038-e2e" /\ pc \in {"connect", "chat"}
    /\ Act("038-e2e", pc, "shutdown", Closed038E2e, left \ {"probe"})

(* The timeout of subprocess.run is not caught: what runs, runs on.        *)
Probe038E2eHangs ==
    /\ scenario = "038-e2e" /\ pc \in {"connect", "chat", "wait"}
    /\ pc' = "collect"
    /\ out' = Ended("timeout")
    /\ \E survivors \in Survivors : left' = (left \ {"probe"}) \cup survivors
    /\ UNCHANGED <<given, build, sut, measured, status>>

(* The gateway acknowledges the chat, then calls the model.                *)
Gateway038E2e ==
    /\ scenario = "038-e2e" /\ pc \in {"chat", "wait", "shutdown"}
    /\ Here # "inert"
    /\ \/ /\ pc = "chat" /\ ~sut.ack
          /\ Step("038-e2e", pc, pc, [sut EXCEPT !.ack = TRUE])
       \/ /\ sut.ack /\ ~sut.cancelled /\ sut.request = "none"
          /\ Step("038-e2e", pc, pc, [sut EXCEPT !.request = "held"])

(* The mock holds an answer for longer than the connection is open.        *)
Mock038E2e ==
    /\ scenario = "038-e2e" /\ pc \in {"wait", "shutdown"}
    /\ sut.request = "held"
    /\ Step("038-e2e", pc, pc, [sut EXCEPT !.request = "completed"])

(* An answer that the mock still holds is cut by the end of the gateway;   *)
(* the output of the probe may be unreadable.                              *)
Trial038E2e ==
    /\ At("038-e2e", "shutdown")
    /\ \E ack \in {sut.ack, FALSE} :
          Act("038-e2e", "shutdown", "trial",
              [Fresh038E2e EXCEPT
                  !.trial   = sut.trial + 1,
                  !.acks    = sut.acks + OneIf(ack),
                  !.chains  = sut.chains + OneIf(sut.request # "none"),
                  !.aborts  = sut.aborts + OneIf(sut.request \in {"held", "cut"}),
                  !.preSend = sut.preSend + OneIf(ack /\ sut.request = "none")],
              left \ {"gateway", "mock", "logs"})

Pre038E2e(m) ==
    IF Bad(m) THEN "blocked-env"
    ELSE IF m.chains = 0 THEN "blocked-external-dep"
    ELSE Verdict(FALSE, m.aborts = 0)
Post038E2e(wo, wf) ==
    IF Bad(wo) \/ Bad(wf) THEN "blocked-env"
    ELSE IF wo.chains = 0 \/ wf.acks = 0 THEN "blocked-external-dep"
    ELSE Verdict(FALSE, wo.aborts = 0 /\ (wf.aborts > 0 \/ wf.preSend > 0))

Run038E2e ==
    \/ Step("038-e2e", "launch", "trial", Fresh038E2e)
    \/ At("038-e2e", "trial") /\ sut.trial = Trials
       /\ Report("038-e2e", "trial",
                 [trials |-> Trials, acks |-> sut.acks, chains |-> sut.chains,
                  aborts |-> sut.aborts, preSend |-> sut.preSend])
    \/ out.end = "timeout" /\ Raise("038-e2e", {})
    \/ out.end # "timeout" /\ Return("038-e2e", Reading(out), {})

Scenario038E2e ==
    \/ Run038E2e \/ StartMock038E2e \/ StartGateway038E2e \/ StartProbe038E2e
    \/ Probe038E2e \/ Probe038E2eEnds \/ Probe038E2eHangs \/ Gateway038E2e
    \/ Mock038E2e \/ Trial038E2e \/ Judge("038-e2e", Pre038E2e(Before), Post038E2e(Before, After))

-----------------------------------------------------------------------------
(* proof-CAND-040-e2e: the stub parks the delivery of an approval until    *)
(* the probe has let go of the lease of the handler.                       *)
Fresh040E2e ==
    [trial |-> 0, chains |-> 0, reaches |-> 0, leaks |-> 0, fixes |-> 0, preRace |-> 0,
     failed |-> 0,
     delivery |-> "none", lease |-> "held", bound |-> FALSE, unbound |-> FALSE]

InstallStub040E2e ==
    /\ At("040-e2e", "trial") /\ sut.trial < Trials
    /\ \/ Act("040-e2e", "trial", "boot", sut, left \cup {"gateway", "logs"})
       \/ Step("040-e2e", "trial", "trial",
               [sut EXCEPT !.trial = @ + 1, !.failed = @ + 1])

StartProbe040E2e ==
    \/ Act("040-e2e", "boot", "request", sut, left \cup {"probe"})
    \/ Act("040-e2e", "boot", "trial", [sut EXCEPT !.trial = @ + 1, !.failed = @ + 1],
           left \ {"gateway"})

(* The probe waits for the parked delivery, lets go of the lease and, a    *)
(* second and a half later, of the delivery.                               *)
Probe040E2e ==
    \/ /\ At("040-e2e", "request") /\ sut.delivery = "parked"
       /\ Step("040-e2e", "request", "race", [sut EXCEPT !.lease = "let-go"])
    \/ Step("040-e2e", "race", "observe", [sut EXCEPT !.delivery = "let-go"])
    \/ Act("040-e2e", "observe", "shutdown", sut, left \ {"probe"})

(* It is refused, the delivery does not come, or its own timer ends it.    *)
Probe040E2eEnds ==
    /\ scenario = "040-e2e" /\ pc \in {"request", "race"}
    /\ Act("040-e2e", pc, "shutdown", [sut EXCEPT !.failed = @ + 1], left \ {"probe"})

(* The timeout of subprocess.run is not caught.                            *)
Probe040E2eHangs ==
    /\ scenario = "040-e2e" /\ pc \in {"request", "race", "observe"}
    /\ pc' = "collect"
    /\ out' = Ended("timeout")
    /\ \E survivors \in Survivors : left' = (left \ {"probe"}) \cup survivors
    /\ UNCHANGED <<given, build, sut, measured, status>>

(* The stub: deliverPending is entered, and returns; its handler binds the *)
(* entry, unless the fixed code sees that it has been stopped.             *)
DeliverPending ==
    /\ scenario = "040-e2e" /\ pc \in {"request", "race", "observe", "shutdown"}
    /\ \/ /\ pc = "request" /\ sut.delivery = "none" /\ Here # "inert"
          /\ Step("040-e2e", pc, pc, [sut EXCEPT !.delivery = "parked"])
       \/ /\ sut.delivery = "let-go"
          /\ \E bound \in {Here # "fixed" \/ sut.lease # "disposed", TRUE} :
                Step("040-e2e", pc, pc,
                     [sut EXCEPT !.delivery = "returned",
                                 !.bound = bound,
                                 !.unbound = /\ bound /\ Here = "fixed"
                                             /\ sut.lease = "disposed"])

(* The stub's watcher disposes of the lease: the handler stops, and        *)
(* unbinds the entries it knows.                                           *)
DisposeLease ==
    /\ scenario = "040-e2e" /\ pc \in {"race", "observe", "shutdown"}
    /\ sut.lease = "let-go"
    /\ Step("040-e2e", pc, pc, [sut EXCEPT !.lease = "disposed", !.unbound = sut.bound])

(* The gateway stops, and the handler with it, or is killed.  The counts   *)
(* come from the file of the stub; the logs are kept.                      *)
Trial040E2e ==
    /\ At("040-e2e", "shutdown")
    /\ \E unbound \in {sut.unbound, sut.bound /\ (sut.unbound \/ sut.lease # "disposed")} :
       LET returned == sut.delivery = "returned"
       IN  Act("040-e2e", "shutdown", "trial",
               [Fresh040E2e EXCEPT
                   !.trial   = sut.trial + 1,
                   !.failed  = sut.failed,
                   !.reaches = sut.reaches + OneIf(returned),
                   !.chains  = sut.chains + OneIf(sut.bound),
                   !.leaks   = sut.leaks + OneIf(sut.bound /\ ~unbound),
                   !.fixes   = sut.fixes + OneIf(sut.bound /\ unbound),
                   !.preRace = sut.preRace + OneIf(returned /\ ~sut.bound)],
               left \ {"gateway"})

Pre040E2e(m) ==
    IF Bad(m) THEN "blocked-env"
    ELSE IF m.chains = 0 THEN "blocked-external-dep"
    ELSE Verdict(FALSE, m.leaks > 0)
Post040E2e(wo, wf) ==
    IF Bad(wo) \/ Bad(wf) THEN "blocked-env"
    ELSE IF wo.chains = 0 \/ wf.reaches = 0 THEN "blocked-external-dep"
    ELSE Verdict(FALSE, wo.leaks > 0 /\ (wf.fixes > 0 \/ wf.preRace > 0))

Run040E2e ==
    \/ Step("040-e2e", "launch", "trial", Fresh040E2e)
    \/ At("040-e2e", "trial") /\ sut.trial = Trials
       /\ Report("040-e2e", "trial",
                 [trials |-> Trials, reaches |-> sut.reaches, chains |-> sut.chains,
                  leaks |-> sut.leaks, fixes |-> sut.fixes, preRace |-> sut.preRace,
                  failed |-> sut.failed])
    \/ out.end = "timeout" /\ Raise("040-e2e", {})
    \/ out.end # "timeout" /\ Return("040-e2e", Reading(out), {})

Scenario040E2e ==
    \/ Run040E2e \/ InstallStub040E2e \/ StartProbe040E2e \/ Probe040E2e
    \/ Probe040E2eEnds \/ Probe040E2eHangs \/ DeliverPending \/ DisposeLease
    \/ Trial040E2e \/ Judge("040-e2e", Pre040E2e(Before), Post040E2e(Before, After))

E2eScenarios == Scenario026E2e \/ Scenario038E2e \/ Scenario040E2e
=============================================================================
