--------------------------- MODULE StoreScenarios ---------------------------
(***************************************************************************)
(* Scenarios about state that the audited program keeps twice: in memory   *)
(* and in a store, in two stores, in an old store and its replacement.     *)
(***************************************************************************)
EXTENDS Scenario

(* proof-CAND-047: the task registry keeps a task in memory and a row in a *)
(* store.  The probe's store throws on the write under test, so that only  *)
(* the memory can change.                                                  *)
Fresh047 == [mem |-> "old", row |-> "old", diverged |-> 0, resurrected |-> 0]

ThrowingStore047(written) == sut.row

(* One mutation: the code with the defect changes the memory before the    *)
(* store throws.                                                           *)
Mutate047(written) ==
    [sut EXCEPT !.mem = IF Here = "defect" THEN written ELSE @,
                !.row = ThrowingStore047(written)]

Delete047 == Step("047", "delete", "reload", Mutate047("gone"))

(* Variant of Reload047: the store is loaded before the count.             *)
ReloadFirst047 ==
    Step("047", "reload", "update",
         [Fresh047 EXCEPT !.resurrected = IF sut.row = "old" THEN 1 ELSE 0])

(* The divergence is counted, and the store is loaded again.               *)
Reload047 ==
    Step("047", "reload", "update",
         [Fresh047 EXCEPT
             !.diverged = sut.diverged +
                          IF sut.mem = "gone" /\ sut.row = "old" THEN 1 ELSE 0,
             !.resurrected = IF sut.row = "old" THEN 1 ELSE 0])

Update047 == Step("047", "update", "count", Mutate047("new"))

Count047 ==
    Report("047", "count",
           [trials |-> 2, resurrected |-> sut.resurrected,
            diverged |-> sut.diverged +
                         IF sut.mem = "new" /\ sut.row = "old" THEN 1 ELSE 0])

Pre047(m) == Verdict(Bad(m), m.diverged >= 2 /\ m.resurrected >= 1)
Post047(wo, wf) == Verdict(Bad(wo) \/ Bad(wf), wo.diverged >= 1 /\ wf.diverged = 0)

Run047 == Launch("047", "delete", Fresh047) \/ LastLine("047")
Scenario047 ==
    \/ Run047 \/ Delete047 \/ Reload047 \/ Update047 \/ Count047
    \/ Judge("047", Pre047(Before), Post047(Before, After))

-----------------------------------------------------------------------------
(* proof-CAND-048: a plan migrates two credential stores.  In the second   *)
(* trial the first write into the directory of store b fails, and so does  *)
(* the second into that of store a.                                        *)
Dirs048 == {"a", "b"}
Fresh048(fault, control) ==
    [fault |-> fault, store |-> [d \in Dirs048 |-> "plaintext"],
     writes |-> [d \in Dirs048 |-> 0], threw |-> FALSE, control |-> control]

(* The layout of a trial, in a home of its own.                            *)
Setup048 == Step("048", "setup", "first", Fresh048(FALSE, {}))

Fault048(d) ==
    sut.fault /\ <<d, sut.writes[d] + 1>> \in {<<"b", 1>>, <<"a", 2>>}

(* A private write: the fixed code only stages it.                         *)
Written048(d, value) ==
    [sut EXCEPT !.writes[d] = @ + 1,
                !.threw = @ \/ Fault048(d),
                !.store[d] = IF Fault048(d) \/ Here # "defect" THEN @ ELSE value]

WriteFirst048 == Step("048", "first", "second", Written048("a", "ref"))

WriteSecond048 ==
    Step("048", "second",
         IF ~Fault048("b") THEN "commit"
         ELSE IF Here = "defect" THEN "rollback" ELSE "classify",
         Written048("b", "ref"))

(* The code with the defect writes store a back, if it can.                *)
RollBack048 == Step("048", "rollback", "classify", Written048("a", "plaintext"))

(* Without a fault the fixed code renames what it has staged.              *)
Commit048 ==
    Step("048", "commit", "classify",
         [sut EXCEPT !.store = IF Here = "fixed" THEN [d \in Dirs048 |-> "ref"]
                               ELSE @])

(* Code that does not get as far as a write leaves the stores alone.       *)
Idle048 ==
    /\ Here = "inert"
    /\ \E threw \in BOOLEAN :
          Step("048", "first", "classify", [sut EXCEPT !.threw = threw])

Migrated048 == {d \in Dirs048 : sut.store[d] = "ref"}
Diverges048(migrated) == migrated # {} /\ migrated # Dirs048

Classify048 ==
    \/ /\ At("048", "classify") /\ ~sut.fault
       /\ Step("048", "classify", "first", Fresh048(TRUE, Migrated048))
    \/ /\ At("048", "classify") /\ sut.fault
       /\ Report("048", "classify",
                 [trials |-> 2, control |-> Diverges048(sut.control),
                  threw |-> sut.threw, diverged |-> Diverges048(Migrated048)])

(* The plan cannot be built.                                               *)
ProbeThrows048 == Report("048", "setup", [trials |-> 0, error |-> TRUE])

Pre048(m) == Verdict(Bad(m), ~m.control /\ m.threw /\ m.diverged)
Post048(wo, wf) ==
    Verdict(Bad(wo) \/ Bad(wf),
            /\ ~wo.control /\ ~wf.control
            /\ wo.threw /\ wo.diverged
            /\ ~wf.diverged)

(* The exit code of the probe is not looked at, only its last line.        *)
Run048 == Launch("048", "setup", Idle) \/ LastLine("048")
Scenario048 ==
    \/ Run048 \/ Setup048 \/ ProbeThrows048
    \/ (Here # "inert" /\ WriteFirst048) \/ Idle048
    \/ WriteSecond048 \/ RollBack048 \/ Commit048 \/ Classify048
    \/ Judge("048", Pre048(Before), Post048(Before, After))

-----------------------------------------------------------------------------
(* proof-CAND-049: the migration of a legacy session store finds a target  *)
(* that is corrupt, with a record that a human could still save.           *)
Layout049 ==
    Step("049", "layout", "migrate",
         [target |-> "corrupt", warned |-> FALSE, threw |-> FALSE])

(* The code with the defect replaces the target; the fixed code warns.     *)
Migrate049 ==
    Step("049", "migrate", "observe",
         [target |-> IF Here = "defect" THEN "legacy-only" ELSE "corrupt",
          warned |-> Here = "fixed",
          threw  |-> Here = "inert"])

Observe049 ==
    Report("049", "observe",
           [trials |-> Trials, sentinel |-> TRUE,
            overwritten |-> sut.target = "legacy-only",
            survived |-> sut.target = "corrupt",
            warned |-> sut.warned])

Bad049(m) == Bad(m) \/ ~m.sentinel
Pre049(m) == Verdict(Bad049(m), m.overwritten /\ ~m.survived /\ ~m.warned)
Post049(wo, wf) ==
    Verdict(Bad049(wo) \/ Bad049(wf),
            /\ wo.overwritten /\ ~wo.survived
            /\ (~wf.overwritten \/ wf.survived))

Run049 == Launch("049", "layout", Idle) \/ LastLine("049")
Scenario049 ==
    \/ Run049 \/ Layout049 \/ Migrate049 \/ Observe049
    \/ Judge("049", Pre049(Before), Post049(Before, After))

StoreScenarios == Scenario047 \/ Scenario048 \/ Scenario049
=============================================================================
