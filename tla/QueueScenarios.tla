---------------------------- MODULE QueueScenarios ----------------------------
(***************************************************************************)
(* Scenarios about queues of the audited program: what it retries, what it *)
(* still sends after a stop, and what it sends again after a crash.        *)
(***************************************************************************)
EXTENDS Scenario

CONSTANT Retries    \* bound on the calls in the window of 031, at least 8

ASSUME RetriesAssumption == Retries \in Nat /\ Retries >= 8

(* proof-CAND-031: is a run that always fails retried without end?  The    *)
(* window closes by the clock, however few retries fit into it.            *)
MaxAttempts031 == 5
Drain031 ==
    /\ Step("031", "observe", "observe", [calls |-> sut.calls + 1])
    /\ Here # "inert"
    /\ sut.calls < IF Here = "fixed" THEN MaxAttempts031 ELSE Retries
Window031 == Report("031", "observe", [trials |-> Trials, calls |-> sut.calls])

Pre031(m) == Verdict(Bad(m), m.calls >= 8)
Post031(wo, wf) ==
    Verdict(Bad(wo) \/ Bad(wf),
            wo.calls >= 8 /\ wf.calls <= MaxAttempts031 + 1)

Run031 == Launch("031", "observe", [calls |-> 0]) \/ LastLine("031")
Scenario031 ==
    \/ Run031 \/ Drain031 \/ Window031 \/ Judge("031", Pre031(Before), Post031(Before, After))

-----------------------------------------------------------------------------
(* proof-CAND-033: does a drain go on with sender Y after the queue was    *)
(* cleared while the run of sender X was in progress?  A drain that is not *)
(* started when the probe clears the queue sends nothing.                  *)
Enqueue033 ==
    /\ At("033", "trial") /\ sut.trial < Trials
    /\ \/ Here # "inert" /\ Step("033", "trial", "parked", sut)
       \/ Step("033", "trial", "trial", [sut EXCEPT !.trial = @ + 1])

ClearAndRelease033 ==
    /\ At("033", "parked")
    /\ Step("033", "parked", "trial",
            [trial |-> sut.trial + 1,
             leaks |-> sut.leaks + IF Here = "defect" THEN 1 ELSE 0])

Results033 ==
    /\ At("033", "trial") /\ sut.trial = Trials
    /\ Report("033", "trial", [trials |-> Trials, leaks |-> sut.leaks])

Half(n) == IF n < 2 THEN 1 ELSE n \div 2
Pre033(m) == Verdict(Bad(m), m.leaks >= Half(m.trials))
Post033(wo, wf) ==
    Verdict(Bad(wo) \/ Bad(wf), wo.leaks >= Half(wo.trials) /\ wf.leaks = 0)

Run033 == Launch("033", "trial", [trial |-> 0, leaks |-> 0]) \/ LastLine("033")
Scenario033 ==
    \/ Run033 \/ Enqueue033 \/ ClearAndRelease033 \/ Results033
    \/ Judge("033", Pre033(Before), Post033(Before, After))

-----------------------------------------------------------------------------
(* proof-CAND-050 and proof-CAND-056: is a delivery repeated after a crash *)
(* between its end and its acknowledgement?  The first pass delivers and   *)
(* stops there; the second is the recovery of the audited program.  The    *)
(* fixed build has functions that mark an entry, and the probe calls them  *)
(* as its queue would.                                                     *)
HasMarkerApi == Here = "fixed"

Enqueue(s) ==
    \/ Here = "inert" /\ Report(s, "enqueue", Failed)
    \/ Step(s, "enqueue", "attempt",
            [pending |-> TRUE, marker |-> "none", delivered |-> 0])

SendAttemptStarted(s) ==
    Step(s, "attempt", "deliver",
         [sut EXCEPT !.marker = IF HasMarkerApi THEN "attempt-started" ELSE @])

(* The recovery of the other code that does not deliver puts it off.       *)
Recover(s) ==
    LET blind == Here = "defect"
    IN  Report(s, "recover",
               [trials |-> 1, delivered |-> sut.delivered + IF blind THEN 1 ELSE 0,
                pendingAfterCrash |-> sut.pending, marker |-> sut.marker])

DeliverThenUnknown050 ==
    Step("050", "deliver", "recover",
         [sut EXCEPT !.delivered = @ + 1,
                     !.marker = IF HasMarkerApi THEN "outcome-unknown" ELSE @])

Deliver056 == Step("056", "deliver", "recover", [sut EXCEPT !.delivered = @ + 1])

(* Variant of Replayed: one delivery is taken for two.                     *)
ReplayedOnce(m) ==
    Verdict(Bad(m) \/ ~m.pendingAfterCrash, m.delivered >= 1)

Replayed(m) ==
    Verdict(Bad(m) \/ ~m.pendingAfterCrash, m.delivered = 2 /\ m.marker = "none")
Refused(wo, wf) == Verdict(Bad(wo) \/ Bad(wf), wo.delivered = 2 /\ wf.delivered = 1)

Enqueue050 == Enqueue("050")
MarkAttempt050 == SendAttemptStarted("050")
Recover050 == Recover("050")
Pre050(m) == Replayed(m)
Post050(wo, wf) == Refused(wo, wf)
Run050 == Launch("050", "enqueue", Idle) \/ MarkedLine("050")

Enqueue056 == Enqueue("056")
Pass1Of056 == SendAttemptStarted("056") \/ Deliver056
Recover056 == Recover("056")
Pre056(m) == Replayed(m)
Post056(wo, wf) == Refused(wo, wf)

(* The queue needs Node 24; with an older one the probe reports an error.  *)
Run056 ==
    \/ \E node24 \in BOOLEAN : Launch("056", "enqueue", [node24 |-> node24])
    \/ MarkedLine("056")
Node24 ==
    /\ At("056", "enqueue")
    /\ IF sut.node24 THEN Enqueue056 ELSE Report("056", "enqueue", Failed)

Scenario050 ==
    \/ Run050 \/ Enqueue050 \/ MarkAttempt050 \/ DeliverThenUnknown050
    \/ Recover050 \/ Judge("050", Pre050(Before), Post050(Before, After))
Scenario056 ==
    \/ Run056 \/ Node24 \/ Pass1Of056 \/ Recover056
    \/ Judge("056", Pre056(Before), Post056(Before, After))

-----------------------------------------------------------------------------
(* proof-CAND-053: two layers deduplicate the recovery of a stuck session, *)
(* the coordinator by session and generation, the runtime by session.  A   *)
(* sequence makes two requests, the second while the first is in flight.   *)
Fresh053 == [bump |-> TRUE, inflight |-> {}, requests |-> 0, events |-> 0, dup |-> 0]

Key053(generation) == IF Here = "fixed" THEN <<"S">> ELSE <<"S", generation>>

Coordinator053 ==
    LET key == Key053(IF sut.bump THEN sut.requests ELSE 0)
        new == Here # "inert" /\ key \notin sut.inflight
    IN  \/ /\ At("053", "coordinator") /\ sut.requests < 2
           /\ Step("053", "coordinator", "coordinator",
                   [sut EXCEPT !.requests = @ + 1,
                               !.inflight = @ \cup {key},
                               !.events = @ + IF new THEN 1 ELSE 0])
        \/ /\ At("053", "coordinator") /\ sut.requests = 2 /\ sut.bump
           /\ Step("053", "coordinator", "coordinator",
                   [Fresh053 EXCEPT !.bump = FALSE, !.dup = sut.events])
        \/ /\ At("053", "coordinator") /\ sut.requests = 2 /\ ~sut.bump
           /\ Step("053", "coordinator", "runtime",
                   [dup |-> sut.dup, noBump |-> sut.events,
                    inflight |-> {}, absorbed |-> FALSE, requests |-> 0])

(* The drain of the first recovery is open until the second has returned.  *)
Runtime053 ==
    /\ At("053", "runtime") /\ sut.requests < 2
    /\ Step("053", "runtime", "runtime",
            [sut EXCEPT !.requests = @ + 1,
                        !.inflight = IF Here = "inert" THEN @ ELSE {"S"},
                        !.absorbed = "S" \in sut.inflight])

Asymmetry053 ==
    /\ At("053", "runtime") /\ sut.requests = 2
    /\ Report("053", "runtime",
              [trials |-> Trials, dup |-> sut.dup,
               asymmetry |-> sut.dup >= 2 /\ sut.noBump <= 1 /\ sut.absorbed])

(* Variant of Post053: the head build is not compared.                     *)
Post053BaseOnly(wo, wf) ==
    Verdict(Bad(wo) \/ Bad(wf), wo.asymmetry /\ wo.dup >= 2)

Pre053(m) == Verdict(Bad(m), m.asymmetry)
Post053(wo, wf) ==
    Verdict(Bad(wo) \/ Bad(wf), wo.asymmetry /\ wo.dup >= 2 /\ wf.dup <= 1)

Run053 == Launch("053", "coordinator", Fresh053) \/ MarkedLine("053")
Scenario053 ==
    \/ Run053 \/ Coordinator053 \/ Runtime053 \/ Asymmetry053
    \/ Judge("053", Pre053(Before), Post053(Before, After))

QueueScenarios ==
    \/ Scenario031 \/ Scenario033 \/ Scenario050 \/ Scenario053 \/ Scenario056
=============================================================================
