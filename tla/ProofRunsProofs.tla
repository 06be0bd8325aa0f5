---------------------------- MODULE ProofRunsProofs ----------------------------
(***************************************************************************)
(* What runs of the proof runner guarantee for any number of runs at the   *)
(* same time, any ports, targets, command lines and bounds: types, what is *)
(* removed, that a verdict has a gateway of the run's own behind it, and   *)
(* what record, card, transition and store have to do with each other.     *)
(***************************************************************************)
EXTENDS ProofRuns, TLAPS

LEMMA JobTypes ==
  ASSUME TypeOK, NEW r \in Runs
  PROVE  /\ Target(r) \in Targets /\ Phase(r) \in Phases
         /\ job[r].keep \in BOOLEAN /\ job[r].trials \in Nat
         /\ Pre(r) <=> Phase(r) = "pre"
         /\ ~Pre(r) <=> Phase(r) = "post"
<1>1. job[r] \in Line
  BY DEF TypeOK
<1>2. QED
  BY <1>1 DEF Line, Target, Phase, Pre, Phases

LEMMA EntryTypes ==
  ASSUME TypeOK, NEW r \in Runs, result[r] \in Statuses
  PROVE  /\ <<result[r], clock, r>> \in Entry
         /\ <<result[r], clock, r>> # None
BY NoneAssumption DEF TypeOK, Entry

(* A persisting run has a status.                                          *)
HasResult ==
    \A r \in Runs :
        /\ pc[r] \in {"record", "read", "write", "transition", "save"} => result[r] \in Statuses
        /\ pc[r] \in {"read", "write", "transition", "save"} => entry[r] # None
        /\ pc[r] = "cleanup" => result[r] \in Statuses
        /\ pc[r] = "close" /\ Pre(r) => result[r] \in Statuses

TypeInv == TypeOK /\ HasResult

(* The steps up to the record.                                             *)
LEMMA WorkTypes ==
  ASSUME TypeInv, NEW r \in Runs, Start(r) \/ Refuse(r) \/ Work(r)
  PROVE  TypeInv'
<1> USE DEF TypeInv, TypeOK, Goto, Fault, Fails, progress, trials, disk, ledger, marks, Labels, Pre
<1>1. CASE Start(r)
  BY <1>1 DEF Start, HasResult
<1>2. CASE Refuse(r)
  BY <1>2 DEF Refuse, HasResult
<1>3. CASE CreateWorktree(r)
  BY <1>3 DEF CreateWorktree, HasResult
<1>4. CASE BuildOne(r)
  BY <1>4 DEF BuildOne, HasResult, Builds
<1>5. CASE BuildFails(r)
  BY <1>5 DEF BuildFails, HasResult, Statuses, Blocked
<1>6. CASE OpenHome(r)
  BY <1>6 DEF OpenHome, HasResult
<1>7. CASE NoFreePort(r)
  <2>1. TypeOK'
    BY <1>7 DEF NoFreePort, Statuses, Blocked
  <2>2. HasResult'
    BY <1>7 DEF NoFreePort, HasResult, Statuses, Blocked
  <2>3. QED
    BY <2>1, <2>2
<1>8. CASE CloseHome(r)
  <2>1. TypeOK'
    BY <1>8 DEF CloseHome, Builds
  <2>2. HasResult'
    BY <1>8 DEF CloseHome, HasResult
  <2>3. QED
    BY <2>1, <2>2
<1>9. CASE StartTrial(r)
  <2>1. build[r] \in Builds /\ trial[r] \in Nat
    OBVIOUS
  <2>2. QED
    BY <1>9, <2>1 DEF StartTrial, HasResult
<1>10. Released(r) \in [Ports -> Runs \cup {None}]
  BY DEF Released
<1>11. Judgements(r) \subseteq Statuses
  BY OutcomesAssumption DEF Judgements
<1>17. CASE EndTrial(r)
  BY <1>10, <1>17 DEF EndTrial, HasResult
<1>12. CASE Measure(r)
  BY <1>10, <1>11, <1>12 DEF Measure, HasResult
<1>13. CASE ScenarioRaises(r)
  BY <1>10, <1>13 DEF ScenarioRaises, HasResult, Statuses, Blocked
<1>14. CASE Judge(r)
  BY <1>11, <1>14 DEF Judge, HasResult, Statuses, Blocked
<1>15. CASE Cleanup(r)
  BY <1>15 DEF Cleanup, HasResult
<1>16. QED
  BY <1>1, <1>2, <1>3, <1>4, <1>5, <1>6, <1>7, <1>8, <1>9, <1>12, <1>13, <1>14, <1>15,
     <1>17 DEF Work

(* The steps of _persist, kills and the clock.                             *)
LEMMA PersistTypes ==
  ASSUME TypeInv, NEW r \in Runs, Persist(r) \/ Kill(r)
  PROVE  TypeInv'
<1> USE DEF TypeInv, Goto, Fault, Fails, progress, trials, disk, ledger, marks, Labels, Pre
<1>0. Target(r) \in Targets /\ Phase(r) \in Phases
  BY JobTypes
<1>1. CASE WriteRecord(r)
  <2> DEFINE e == <<result[r], clock, r>>
             name == <<Target(r), Phase(r), clock>>
  <2>1. e \in Entry /\ e # None
    BY <1>1, EntryTypes DEF WriteRecord, HasResult
  <2>2. name \in Name
    BY <1>0 DEF Name, TypeOK
  <2>3. /\ entry' = [entry EXCEPT ![r] = e]
        /\ proofs' = [proofs EXCEPT ![name] = e]
    BY <1>1 DEF WriteRecord
  <2>4. /\ entry' \in [Runs -> Entry \cup {None}]
        /\ proofs' \in [Name -> Entry \cup {None}]
        /\ entry'[r] # None
        /\ \A q \in Runs \ {r} : entry'[q] = entry[q]
    <3> HIDE DEF e, name
    <3>1. QED
      BY <2>1, <2>2, <2>3 DEF TypeOK
  <2> HIDE DEF e, name
  <2>5. TypeOK'
    BY <1>0, <1>1, <2>4 DEF WriteRecord, TypeOK
  <2>6. HasResult'
    BY <1>1, <2>4 DEF WriteRecord, HasResult, TypeOK
  <2>7. QED
    BY <2>5, <2>6
<1>2. CASE ReadCard(r)
  BY <1>0, <1>2 DEF ReadCard, HasResult, TypeOK
<1>3. CASE CardMalformed(r)
  BY <1>0, <1>3 DEF CardMalformed, HasResult, TypeOK
<1>4. CASE WriteCard(r)
  <2>1. text[r] \in Card /\ entry[r] \in Entry \cup {None} /\ BlankCard \in Card
    BY DEF TypeOK, Card, BlankCard
  <2>2. [text[r] EXCEPT ![Phase(r)] = entry[r]] \in Card
    BY <1>0, <2>1 DEF Card
  <2>3. QED
    BY <1>0, <1>4, <2>1, <2>2 DEF WriteCard, HasResult, TypeOK
<1>5. Nothing \in Store
  BY DEF Nothing, Store
<1>6. CASE Kill(r)
  BY <1>0, <1>5, <1>6 DEF Kill, HasResult, TypeOK, Released
<1>7. CASE LoadStore(r)
  <2> DEFINE st == <<Short(result[r]), Phase(r), r>>
             new == [states EXCEPT ![Target(r)] = st]
  <2>1. st \in Transition
    BY <1>0, <1>7 DEF LoadStore, HasResult, Short, Statuses, Blocked, Transition
  <2> HIDE DEF st
  <2>2. new \in Store
    BY <1>0, <2>1 DEF TypeOK, Store
  <2>3. /\ mem' = [mem EXCEPT ![r] = new] /\ pc[r] = "transition"
        /\ pc' = [pc EXCEPT ![r] = "save"]
        /\ UNCHANGED <<job, build, port, trials, result, entry, text, faults, disk, ledger, clock,
                       disturbed>>
    BY <1>7 DEF LoadStore, st
  <2>4. raced' \subseteq Targets
    <3>1. \A q \in Runs : Target(q) \in Targets
      BY JobTypes
    <3>2. QED
      BY <1>7, <3>1 DEF LoadStore, InStore, TypeOK
  <2> HIDE DEF new
  <2>5. QED
    BY <2>2, <2>3, <2>4 DEF HasResult, TypeOK
<1>8. CASE SaveStore(r)
  <2>1. states' \in Store
    BY <1>8 DEF SaveStore, TypeOK
  <2>2. QED
    BY <1>5, <1>8, <2>1 DEF SaveStore, HasResult, TypeOK
<1>9. CASE StoreFails(r)
  BY <1>0, <1>5, <1>9 DEF StoreFails, HasResult, TypeOK
<1>10. QED
  BY <1>1, <1>2, <1>3, <1>4, <1>6, <1>7, <1>8, <1>9 DEF Persist

LEMMA TickTypes ==
  ASSUME TypeInv, Tick
  PROVE  TypeInv'
<1>1. clock' \in 0..MaxClock
  BY ClockAssumption DEF Tick, TypeInv, TypeOK
<1>2. QED
  BY <1>1 DEF Tick, TypeInv, TypeOK, HasResult, progress, trials, disk, ledger, marks, Pre

(* No step of any run leaves the types.                                    *)
LEMMA RunTypeStep == TypeInv /\ [Next]_vars => TypeInv'
<1> SUFFICES ASSUME TypeInv, [Next]_vars PROVE TypeInv'
  OBVIOUS
<1>1. CASE UNCHANGED vars
  BY <1>1 DEF vars, progress, trials, disk, ledger, marks, TypeInv, TypeOK, HasResult, Pre
<1>2. ASSUME NEW r \in Runs, Start(r) \/ Refuse(r) \/ Work(r) PROVE TypeInv'
  BY <1>2, WorkTypes
<1>3. ASSUME NEW r \in Runs, Persist(r) \/ Kill(r) PROVE TypeInv'
  BY <1>3, PersistTypes
<1>4. CASE Tick
  BY <1>4, TickTypes
<1>5. QED
  BY <1>1, <1>2, <1>3, <1>4 DEF Next

LEMMA RunTypeInit == Init => TypeInv
<1> SUFFICES ASSUME Init PROVE TypeInv
  OBVIOUS
<1>1. BlankCard \in Card
  BY DEF BlankCard, Card
<1>2. 0 \in 0..MaxClock /\ Nothing \in Store
  BY ClockAssumption DEF Nothing, Store
<1>3. QED
  BY <1>1, <1>2, JobsAssumption DEF Init, TypeInv, TypeOK, HasResult, Labels, Builds

LEMMA RunTypes == Spec => []TypeInv
<1>1. QED
  BY RunTypeInit, RunTypeStep, PTL DEF Spec

(* The variables have their types, whatever runs, ports, targets, command  *)
(* lines and bounds there are, with runs at the same time and kills.       *)
THEOREM RunTypeCorrect == Spec => []TypeOK
<1>1. TypeInv => TypeOK
  BY DEF TypeInv
<1>2. QED
  BY <1>1, RunTypes, PTL

-----------------------------------------------------------------------------
(* Where a run that lets its builds go has no worktree: before it makes    *)
(* one, and after the cleanup.                                             *)
NoWorktree(r) ==
    \/ pc[r] \in {"start", "record", "read", "write", "transition", "save", "ended", "died"}
    \/ Pre(r) /\ pc[r] \in {"home", "close"}

(* There it has none, unless it is told to keep them, one of its builds    *)
(* failed, or git did not remove them.                                     *)
WorktreeInv ==
    \A r \in Runs, b \in Builds :
        <<r, b>> \in worktrees /\ NoWorktree(r) =>
           job[r].keep \/ faults[r] \cap {"build", "remove"} # {}

LEMMA WorktreeWork ==
  ASSUME TypeOK, WorktreeInv, NEW r \in Runs,
         Start(r) \/ Refuse(r) \/ Work(r) \/ Persist(r) \/ Kill(r)
  PROVE  WorktreeInv'
<1> USE DEF TypeOK, Goto, Fault, Fails, progress, trials, disk, ledger, marks, WorktreeInv, NoWorktree, Pre
<1>1. CASE Start(r)
  BY <1>1 DEF Start
<1>2. CASE Refuse(r)
  BY <1>2 DEF Refuse
<1>3. CASE CreateWorktree(r)
  BY <1>3 DEF CreateWorktree
<1>4. CASE BuildOne(r)
  BY <1>4 DEF BuildOne
<1>5. CASE BuildFails(r)
  BY <1>5 DEF BuildFails
<1>6. CASE OpenHome(r)
  BY <1>6 DEF OpenHome
<1>7. CASE NoFreePort(r)
  BY <1>7 DEF NoFreePort
<1>8. CASE CloseHome(r)
  BY <1>8 DEF CloseHome
<1>9. CASE StartTrial(r) \/ EndTrial(r)
  BY <1>9 DEF StartTrial, EndTrial
<1>10. CASE Measure(r)
  BY <1>10 DEF Measure
<1>11. CASE ScenarioRaises(r)
  BY <1>11 DEF ScenarioRaises
<1>12. CASE Judge(r)
  BY <1>12 DEF Judge
<1>13. CASE Cleanup(r)
  <2>1. /\ \A q \in Runs : faults[q] \subseteq faults'[q]
        /\ \A q \in Runs \ {r} : pc'[q] = pc[q]
        /\ worktrees' \subseteq worktrees /\ UNCHANGED job
    BY <1>13 DEF Cleanup
  <2>2. \A b \in Builds :
           <<r, b>> \in worktrees' => job[r].keep \/ "remove" \in faults'[r]
    BY <1>13 DEF Cleanup
  <2>3. QED
    BY <2>1, <2>2
<1>14. CASE Persist(r)
  BY <1>14 DEF Persist, WriteRecord, ReadCard, CardMalformed, WriteCard, LoadStore, SaveStore,
               StoreFails
<1>15. CASE Kill(r)
  BY <1>15 DEF Kill
<1>16. QED
  BY <1>1, <1>2, <1>3, <1>4, <1>5, <1>6, <1>7, <1>8, <1>9, <1>10, <1>11, <1>12, <1>13,
     <1>14, <1>15 DEF Work

LEMMA WorktreeStep == TypeOK /\ WorktreeInv /\ [Next]_vars => WorktreeInv'
<1> SUFFICES ASSUME TypeOK, WorktreeInv, [Next]_vars PROVE WorktreeInv'
  OBVIOUS
<1>1. CASE UNCHANGED vars \/ Tick
  BY <1>1 DEF vars, Tick, progress, trials, disk, ledger, marks, WorktreeInv, NoWorktree, Pre
<1>2. ASSUME NEW r \in Runs,
             Start(r) \/ Refuse(r) \/ Work(r) \/ Persist(r) \/ Kill(r)
      PROVE  WorktreeInv'
  BY <1>2, WorktreeWork
<1>3. QED
  BY <1>1, <1>2 DEF Next

(* A run that is over has removed its worktrees, unless it was killed, was *)
(* told to keep them, one of its builds failed, or git could not remove    *)
(* them, however many runs build at the same time.                         *)
THEOREM WorktreesGo == Spec => []WorktreesAreRemoved
<1>1. Init => WorktreeInv
  BY DEF Init, WorktreeInv
<1>2. TypeOK /\ WorktreeInv => WorktreesAreRemoved
  BY DEF TypeOK, WorktreeInv, WorktreesAreRemoved, NoWorktree, Over
<1>3. QED
  BY <1>1, <1>2, WorktreeStep, RunTypeCorrect, PTL DEF Spec

-----------------------------------------------------------------------------
(* Where a run is inside an isolated home.                                 *)
AtHome(r) ==
    \/ pc[r] \in {"scenario", "measure", "close"}
    \/ Pre(r) /\ pc[r] \in {"worktree", "build", "cleanup"}

(* A run has only the home that it is inside of, and a gateway only while  *)
(* its scenario runs.                                                      *)
HomeInv ==
    /\ \A r \in Runs, b \in Builds :
          <<r, b>> \in homes =>
             \/ pc[r] = "killed" \/ faults[r] \cap {"port", "home"} # {}
             \/ AtHome(r) /\ build[r] = b
    /\ \A p \in Ports :
          listening[p] # None =>
             \/ pc[listening[p]] \in {"killed", "measure"}
             \/ "gateway" \in faults[listening[p]]

LEMMA HomeWork ==
  ASSUME TypeOK, HomeInv, NEW r \in Runs,
         Start(r) \/ Refuse(r) \/ Work(r) \/ Persist(r) \/ Kill(r)
  PROVE  HomeInv'
<1> USE DEF TypeOK, Goto, Fault, Fails, progress, trials, disk, ledger, marks, HomeInv, AtHome, Pre
<1>1. CASE Start(r)
  BY <1>1 DEF Start
<1>2. CASE Refuse(r)
  BY <1>2 DEF Refuse
<1>3. CASE CreateWorktree(r)
  BY <1>3 DEF CreateWorktree
<1>4. CASE BuildOne(r)
  BY <1>4 DEF BuildOne
<1>5. CASE BuildFails(r)
  BY <1>5 DEF BuildFails
<1>6. CASE OpenHome(r)
  BY <1>6 DEF OpenHome
<1>7. CASE NoFreePort(r)
  <2>1. /\ \A q \in Runs : faults[q] \subseteq faults'[q] /\ (q # r => pc'[q] = pc[q])
        /\ "port" \in faults'[r] /\ pc[r] = "home"
        /\ homes' = homes \cup {<<r, build[r]>>}
        /\ UNCHANGED <<listening, build, job>>
    BY <1>7 DEF NoFreePort
  <2>2. \A q \in Runs, b \in Builds :
           <<q, b>> \in homes' =>
             \/ pc'[q] = "killed" \/ faults'[q] \cap {"port", "home"} # {}
             \/ AtHome(q)' /\ build'[q] = b
    BY <2>1
  <2>3. \A p \in Ports :
           listening'[p] # None =>
             \/ pc'[listening'[p]] \in {"killed", "measure"}
             \/ "gateway" \in faults'[listening'[p]]
    BY <2>1
  <2>4. QED
    BY <2>2, <2>3
<1>8. CASE CloseHome(r)
  <2>1. /\ \A q \in Runs : faults[q] \subseteq faults'[q]
        /\ \A q \in Runs \ {r} : pc'[q] = pc[q] /\ build'[q] = build[q]
        /\ pc[r] = "close" /\ homes' \subseteq homes
        /\ UNCHANGED <<job, listening>>
    BY <1>8 DEF CloseHome
  <2>2. <<r, build[r]>> \in homes' => "home" \in faults'[r]
    BY <1>8 DEF CloseHome
  <2>3. \A b \in Builds :
           <<r, b>> \in homes' => faults'[r] \cap {"port", "home"} # {}
    BY <2>1, <2>2
  <2>4. QED
    BY <2>1, <2>3
<1>9. CASE StartTrial(r)
  BY <1>9 DEF StartTrial
<1>10. CASE EndTrial(r) \/ Measure(r)
  BY <1>10 DEF EndTrial, Measure, Released, Mine
<1>11. CASE ScenarioRaises(r)
  BY <1>11 DEF ScenarioRaises, Released, Mine
<1>12. CASE Judge(r)
  BY <1>12 DEF Judge
<1>13. CASE Cleanup(r)
  <2>1. /\ \A q \in Runs : faults[q] \subseteq faults'[q]
        /\ \A q \in Runs \ {r} : pc'[q] = pc[q]
        /\ pc[r] = "cleanup" /\ (Pre(r) => pc'[r] = "close")
        /\ UNCHANGED <<job, build, homes, listening>>
    BY <1>13 DEF Cleanup
  <2>2. QED
    BY <2>1
<1>14. CASE Persist(r)
  BY <1>14 DEF Persist, WriteRecord, ReadCard, CardMalformed, WriteCard, LoadStore, SaveStore,
               StoreFails
<1>15. CASE Kill(r)
  BY <1>15 DEF Kill, Released, Mine
<1>16. QED
  BY <1>1, <1>2, <1>3, <1>4, <1>5, <1>6, <1>7, <1>8, <1>9, <1>10, <1>11, <1>12, <1>13,
     <1>14, <1>15 DEF Work

LEMMA HomeStep == TypeOK /\ HomeInv /\ [Next]_vars => HomeInv'
<1> SUFFICES ASSUME TypeOK, HomeInv, [Next]_vars PROVE HomeInv'
  OBVIOUS
<1>1. CASE UNCHANGED vars \/ Tick
  BY <1>1 DEF vars, Tick, progress, trials, disk, ledger, marks, HomeInv, AtHome, Pre
<1>2. ASSUME NEW r \in Runs,
             Start(r) \/ Refuse(r) \/ Work(r) \/ Persist(r) \/ Kill(r)
      PROVE  HomeInv'
  BY <1>2, HomeWork
<1>3. QED
  BY <1>1, <1>2 DEF Next

(* A run that is over has removed its homes and ended its gateways, unless *)
(* it was killed, found no port, its scenario left a gateway running, or a *)
(* home could not be removed.                                              *)
THEOREM HomesGo == Spec => []HomesAreRemoved
<1>1. Init => HomeInv
  BY DEF Init, HomeInv
<1>2. TypeOK /\ HomeInv => HomesAreRemoved
  BY NoneAssumption DEF TypeOK, HomeInv, HomesAreRemoved, AtHome, Over, Mine
<1>3. QED
  BY <1>1, <1>2, HomeStep, RunTypeCorrect, PTL DEF Spec

-----------------------------------------------------------------------------
(* The trials of a run: none before its builds are done; those on a build  *)
(* one after another, and none on the head before its turn.                *)
TrialInv ==
    \A r \in Runs :
        /\ pc[r] \in {"start", "worktree", "build"} \/ (pc[r] = "home" /\ build[r] = "base") =>
              ready[r] = {} /\ stolen[r] = {}
        /\ \/ pc[r] \in {"start", "worktree", "build", "home"}
           \/ ~Pre(r) /\ pc[r] = "close" /\ result[r] = "pending"
           => trial[r] = 1
        /\ Pre(r) \/ pc[r] = "start" => build[r] = "base"
        /\ ~Pre(r) /\ pc[r] \in {"home", "scenario", "measure", "close"} /\ build[r] = "base" =>
              "head" \notin ready[r] /\ \A i \in Nat : <<"head", i>> \notin stolen[r]
        /\ pc[r] = "home" => build[r] \notin ready[r]
        /\ pc[r] \in {"home", "scenario"} =>
              \A i \in Nat : i >= trial[r] => <<build[r], i>> \notin stolen[r]
        /\ pc[r] \in {"scenario", "measure"} =>
              /\ 1 <= trial[r] /\ (job[r].trials > 0 => trial[r] <= job[r].trials)
              /\ \A i \in Nat : i > trial[r] => <<build[r], i>> \notin stolen[r]

(* A build has been seen ready in a trial that did not find the port taken.*)
Seen(r, b) ==
    \E i \in 1..job[r].trials :
        /\ <<b, i>> \notin stolen[r]
        /\ b = build[r] /\ pc[r] = "scenario" => i < trial[r]
        /\ b = build[r] /\ pc[r] = "measure" => i <= trial[r]
ReadyInv == \A r \in Runs : \A b \in ready[r] : Seen(r, b)

LEMMA TrialWork ==
  ASSUME TypeOK, TrialInv, NEW r \in Runs,
         Start(r) \/ Refuse(r) \/ Work(r) \/ Persist(r) \/ Kill(r)
  PROVE  TrialInv'
<1> USE DEF TypeOK, Goto, Fault, Fails, progress, trials, disk, ledger, marks, TrialInv, Pre
<1>0. job[r].trials \in Nat /\ trial[r] \in Nat /\ build[r] \in Builds
  BY JobTypes
<1>1. CASE Start(r)
  BY <1>1 DEF Start
<1>2. CASE Refuse(r)
  BY <1>2 DEF Refuse
<1>3. CASE CreateWorktree(r)
  BY <1>3 DEF CreateWorktree
<1>4. CASE BuildOne(r)
  BY <1>0, <1>4 DEF BuildOne, Builds
<1>5. CASE BuildFails(r)
  BY <1>5 DEF BuildFails
<1>6. CASE OpenHome(r)
  BY <1>0, <1>6 DEF OpenHome
<1>7. CASE NoFreePort(r)
  BY <1>7 DEF NoFreePort
<1>8. CASE CloseHome(r)
  BY <1>0, <1>8 DEF CloseHome
<1>9. CASE StartTrial(r)
  BY <1>0, <1>9 DEF StartTrial, Builds
<1>10. CASE EndTrial(r)
  BY <1>0, <1>10 DEF EndTrial, LastTrial
<1>11. CASE Measure(r)
  BY <1>11 DEF Measure
<1>12. CASE ScenarioRaises(r)
  BY <1>12 DEF ScenarioRaises
<1>13. CASE Judge(r)
  BY <1>13 DEF Judge
<1>14. CASE Cleanup(r)
  <2>1. /\ \A q \in Runs \ {r} : pc'[q] = pc[q]
        /\ (IF Pre(r) THEN pc'[r] = "close" ELSE pc'[r] = "record")
        /\ UNCHANGED <<job, build, trials, result>>
    BY <1>14 DEF Cleanup
  <2>2. QED
    BY <2>1
<1>15. CASE Persist(r)
  BY <1>15 DEF Persist, WriteRecord, ReadCard, CardMalformed, WriteCard, LoadStore, SaveStore,
               StoreFails
<1>16. CASE Kill(r)
  BY <1>16 DEF Kill
<1>17. QED
  BY <1>1, <1>2, <1>3, <1>4, <1>5, <1>6, <1>7, <1>8, <1>9, <1>10, <1>11, <1>12, <1>13,
     <1>14, <1>15, <1>16 DEF Work

LEMMA TrialStep == TypeOK /\ TrialInv /\ [Next]_vars => TrialInv'
<1> SUFFICES ASSUME TypeOK, TrialInv, [Next]_vars PROVE TrialInv'
  OBVIOUS
<1>1. CASE UNCHANGED vars \/ Tick
  BY <1>1 DEF vars, Tick, progress, trials, disk, ledger, marks, TrialInv, Pre
<1>2. ASSUME NEW r \in Runs,
             Start(r) \/ Refuse(r) \/ Work(r) \/ Persist(r) \/ Kill(r)
      PROVE  TrialInv'
  BY <1>2, TrialWork
<1>3. QED
  BY <1>1, <1>2 DEF Next

(* A step that starts and ends no trial of the scenario.                   *)
LEMMA ReadyKept ==
  ASSUME ReadyInv, UNCHANGED <<job, ready, stolen>>,
         \A q \in Runs :
            \/ build'[q] = build[q] /\ trial'[q] = trial[q] /\ pc'[q] = pc[q]
            \/ ready[q] = {}
            \/ pc'[q] \notin {"scenario", "measure"}
            \/ pc'[q] = "scenario" /\ build'[q] \notin ready[q]
  PROVE  ReadyInv'
<1> SUFFICES ASSUME NEW q \in Runs, NEW b \in ready[q] PROVE Seen(q, b)'
  BY DEF ReadyInv
<1>1. PICK i \in 1..job[q].trials :
         /\ <<b, i>> \notin stolen[q]
         /\ b = build[q] /\ pc[q] = "scenario" => i < trial[q]
         /\ b = build[q] /\ pc[q] = "measure" => i <= trial[q]
  BY DEF ReadyInv, Seen
<1>2. QED
  BY <1>1 DEF Seen

LEMMA ReadyWork ==
  ASSUME TypeOK, TrialInv, ReadyInv, NEW r \in Runs,
         Start(r) \/ Refuse(r) \/ Work(r) \/ Persist(r) \/ Kill(r)
  PROVE  ReadyInv'
<1>0. job[r].trials \in Nat /\ trial[r] \in Nat /\ build[r] \in Builds
  BY JobTypes DEF TypeOK
<1>1. CASE StartTrial(r)
  <2>1. /\ pc[r] = "scenario" /\ pc'[r] = "measure"
        /\ \A q \in Runs \ {r} : /\ pc'[q] = pc[q] /\ ready'[q] = ready[q]
                                 /\ stolen'[q] = stolen[q]
        /\ UNCHANGED <<job, build, trial>>
    BY <1>1 DEF StartTrial, Goto, TypeOK
  <2>2. \/ ready'[r] = ready[r] /\ stolen'[r] \subseteq stolen[r] \cup {<<build[r], trial[r]>>}
        \/ /\ ready'[r] = ready[r] \cup {build[r]} /\ stolen'[r] = stolen[r]
           /\ job[r].trials > 0
    BY <1>1 DEF StartTrial, TypeOK
  <2>3. ASSUME NEW b \in ready'[r] PROVE Seen(r, b)'
    <3>1. CASE b \in ready[r]
      <4>1. PICK i \in 1..job[r].trials :
               /\ <<b, i>> \notin stolen[r]
               /\ b = build[r] => i < trial[r]
        BY <2>1, <3>1 DEF ReadyInv, Seen
      <4>2. <<b, i>> # <<build[r], trial[r]>>
        BY <1>0, <4>1
      <4>3. QED
        BY <1>0, <2>1, <2>2, <4>1, <4>2 DEF Seen
    <3>2. CASE b \notin ready[r]
      <4>1. b = build[r] /\ stolen'[r] = stolen[r] /\ job[r].trials > 0
        BY <2>2, <2>3, <3>2
      <4>2. trial[r] \in 1..job[r].trials /\ <<b, trial[r]>> \notin stolen[r]
        BY <1>0, <2>1, <4>1 DEF TrialInv
      <4>3. QED
        BY <1>0, <2>1, <4>1, <4>2 DEF Seen
    <3>3. QED
      BY <3>1, <3>2
  <2>4. ASSUME NEW q \in Runs \ {r}, NEW b \in ready'[q] PROVE Seen(q, b)'
    BY <2>1, <2>4 DEF ReadyInv, Seen
  <2>5. QED
    BY <2>3, <2>4 DEF ReadyInv
<1>2. CASE EndTrial(r)
  <2>1. /\ pc[r] = "measure" /\ pc'[r] = "scenario" /\ trial'[r] = trial[r] + 1
        /\ \A q \in Runs \ {r} : pc'[q] = pc[q] /\ trial'[q] = trial[q]
        /\ UNCHANGED <<job, build, ready, stolen>>
    BY <1>2 DEF EndTrial, Goto, TypeOK
  <2>2. ASSUME NEW b \in ready[r] PROVE Seen(r, b)'
    <3>1. PICK i \in 1..job[r].trials :
             <<b, i>> \notin stolen[r] /\ (b = build[r] => i <= trial[r])
      BY <2>1 DEF ReadyInv, Seen
    <3>2. QED
      BY <1>0, <2>1, <3>1 DEF Seen
  <2>3. ASSUME NEW q \in Runs \ {r}, NEW b \in ready[q] PROVE Seen(q, b)'
    BY <2>1, <2>3 DEF ReadyInv, Seen
  <2>4. QED
    BY <2>1, <2>2, <2>3 DEF ReadyInv
<1>3. CASE ~StartTrial(r) /\ ~EndTrial(r)
  <2>1. UNCHANGED <<job, ready, stolen>>
    BY <1>3 DEF Start, Refuse, Work, Persist, Kill, CreateWorktree, BuildOne, BuildFails, OpenHome,
           NoFreePort, CloseHome, Measure, ScenarioRaises, Judge, Cleanup, WriteRecord, ReadCard,
           CardMalformed, WriteCard, LoadStore, SaveStore, StoreFails, progress, trials
  <2>2. \A q \in Runs \ {r} :
           build'[q] = build[q] /\ trial'[q] = trial[q] /\ pc'[q] = pc[q]
    BY <1>3 DEF TypeOK, Start, Refuse, Work, Persist, Kill, CreateWorktree, BuildOne, BuildFails,
           OpenHome, NoFreePort, CloseHome, Measure, ScenarioRaises, Judge, Cleanup, WriteRecord,
           ReadCard, CardMalformed, WriteCard, LoadStore, SaveStore, StoreFails, progress, trials,
           Goto
  <2>3. \/ pc'[r] \notin {"scenario", "measure"}
        \/ BuildOne(r) \/ OpenHome(r)
    BY <1>3 DEF TypeOK, Start, Refuse, Work, Persist, Kill, CreateWorktree, BuildFails,
           NoFreePort, CloseHome, Measure, ScenarioRaises, Judge, Cleanup, WriteRecord, ReadCard,
           CardMalformed, WriteCard, LoadStore, SaveStore, StoreFails, Goto
  <2>4. BuildOne(r) => ready[r] = {}
    BY DEF BuildOne, TrialInv
  <2>5. OpenHome(r) => build'[r] = build[r] /\ (ready[r] = {} \/ build[r] \notin ready[r])
                       /\ pc'[r] # "measure"
    BY DEF OpenHome, TrialInv, Goto, TypeOK
  <2>6. QED
    BY <2>1, <2>2, <2>3, <2>4, <2>5, ReadyKept
<1>4. QED
  BY <1>1, <1>2, <1>3

LEMMA ReadyStep == TypeOK /\ TrialInv /\ ReadyInv /\ [Next]_vars => ReadyInv'
<1> SUFFICES ASSUME TypeOK, TrialInv, ReadyInv, [Next]_vars PROVE ReadyInv'
  OBVIOUS
<1>1. CASE UNCHANGED vars \/ Tick
  <2>1. UNCHANGED <<pc, job, build, trial, ready, stolen>>
    BY <1>1 DEF vars, Tick, progress, trials
  <2>2. QED
    BY <2>1, ReadyKept
<1>2. ASSUME NEW r \in Runs,
             Start(r) \/ Refuse(r) \/ Work(r) \/ Persist(r) \/ Kill(r)
      PROVE  ReadyInv'
  BY <1>2, ReadyWork
<1>3. QED
  BY <1>1, <1>2 DEF Next

(* A run has no result until it measures, evaluates or fails; a verdict    *)
(* has a ready gateway on every build behind it; and the record, which a   *)
(* run writes once, has its result.                                        *)
VerdictInv ==
    \A r \in Runs :
        /\ pc[r] \in {"start", "worktree", "build", "home", "scenario", "measure", "judge"}
           => result[r] = "pending"
        /\ result[r] \notin Blocked \cup {"pending"} /\ job[r].trials > 0 =>
              Measured(r) \subseteq ready[r]
        /\ entry[r] # None =>
              /\ entry[r][1] = result[r]
              /\ pc[r] \in {"read", "write", "transition", "save", "ended", "died", "killed"}

LEMMA VerdictWork ==
  ASSUME TypeOK, VerdictInv, NEW r \in Runs,
         Start(r) \/ Refuse(r) \/ Work(r) \/ Persist(r) \/ Kill(r)
  PROVE  VerdictInv'
<1> USE DEF TypeOK, Goto, Fault, Fails, progress, trials, disk, ledger, marks, VerdictInv, Pre, Blocked
<1>1. CASE Start(r) \/ Refuse(r)
  BY <1>1 DEF Start, Refuse, Measured
<1>2. CASE CreateWorktree(r) \/ BuildOne(r) \/ BuildFails(r)
  BY <1>2 DEF CreateWorktree, BuildOne, BuildFails, Measured
<1>3. CASE OpenHome(r) \/ NoFreePort(r) \/ CloseHome(r)
  BY <1>3 DEF OpenHome, NoFreePort, CloseHome, Measured
<1>4. CASE StartTrial(r) \/ EndTrial(r)
  BY <1>4 DEF StartTrial, EndTrial, Measured
<1>5. CASE Measure(r)
  <2>1. /\ Measured(r)' = Measured(r) /\ UNCHANGED <<job, ready, entry>>
        /\ \A q \in Runs \ {r} : pc'[q] = pc[q] /\ result'[q] = result[q]
        /\ \A q \in Runs : Measured(q)' = Measured(q)
    BY <1>5 DEF Measure, Measured
  <2>2. /\ pc[r] = "measure" /\ result[r] = "pending" /\ pc'[r] \in {"cleanup", "close"}
        /\ result'[r] \in Judgements(r) \cup {"pending"}
    BY <1>5 DEF Measure
  <2>3. QED
    BY <2>1, <2>2 DEF Judgements
<1>6. CASE ScenarioRaises(r)
  BY <1>6 DEF ScenarioRaises, Measured
<1>7. CASE Judge(r)
  <2>1. /\ Measured(r)' = Measured(r) /\ UNCHANGED <<job, ready, entry>>
        /\ \A q \in Runs \ {r} : pc'[q] = pc[q] /\ result'[q] = result[q]
        /\ \A q \in Runs : Measured(q)' = Measured(q)
    BY <1>7 DEF Judge, Measured
  <2>2. /\ pc[r] = "judge" /\ result[r] = "pending" /\ pc'[r] = "cleanup"
        /\ result'[r] \in Judgements(r) \cup {"blocked-env"}
    BY <1>7 DEF Judge
  <2>3. QED
    BY <2>1, <2>2 DEF Judgements
<1>8. CASE Cleanup(r)
  BY <1>8 DEF Cleanup, Measured
<1>9. CASE WriteRecord(r)
  BY <1>9 DEF WriteRecord, Measured
<1>10. CASE Persist(r) /\ ~WriteRecord(r)
  BY <1>10 DEF Persist, ReadCard, CardMalformed, WriteCard, LoadStore, SaveStore, StoreFails,
               Measured
<1>11. CASE Kill(r)
  BY <1>11 DEF Kill, Measured
<1>12. QED
  BY <1>1, <1>2, <1>3, <1>4, <1>5, <1>6, <1>7, <1>8, <1>9, <1>10, <1>11 DEF Work

LEMMA VerdictStep == TypeOK /\ VerdictInv /\ [Next]_vars => VerdictInv'
<1> SUFFICES ASSUME TypeOK, VerdictInv, [Next]_vars PROVE VerdictInv'
  OBVIOUS
<1>1. CASE UNCHANGED vars \/ Tick
  BY <1>1 DEF vars, Tick, progress, trials, disk, ledger, marks, VerdictInv, Pre, Measured
<1>2. ASSUME NEW r \in Runs,
             Start(r) \/ Refuse(r) \/ Work(r) \/ Persist(r) \/ Kill(r)
      PROVE  VerdictInv'
  BY <1>2, VerdictWork
<1>3. QED
  BY <1>1, <1>2 DEF Next

LEMMA VerdictRuns == Spec => [](TrialInv /\ ReadyInv /\ VerdictInv)
<1>1. Init => TrialInv /\ ReadyInv /\ VerdictInv
  BY DEF Init, TrialInv, ReadyInv, VerdictInv, Blocked
<1>2. QED
  BY <1>1, TrialStep, ReadyStep, VerdictStep, RunTypeCorrect, PTL DEF Spec

(* A run whose proof has a verdict has had the port in at least one trial  *)
(* on every build it measured, however many runs and trials meet at the    *)
(* ports, and whatever fails or is killed.                                 *)
THEOREM StolenPortsBlock == Spec => []StolenPortBlocks
<1>1. TypeOK /\ ReadyInv /\ VerdictInv => StolenPortBlocks
  <2> SUFFICES ASSUME TypeOK, ReadyInv, VerdictInv, NEW r \in Runs,
                      job[r].trials > 0, entry[r] # None, entry[r][1] \notin Blocked,
                      NEW b \in Measured(r)
               PROVE  \E i \in 1..job[r].trials : <<b, i>> \notin stolen[r]
    BY DEF StolenPortBlocks
  <2>1. entry[r][1] \in Statuses
    BY DEF TypeOK, Entry
  <2>2. b \in ready[r]
    BY <2>1 DEF VerdictInv, Statuses, Blocked
  <2>3. QED
    BY <2>2 DEF ReadyInv, Seen
<1>2. QED
  BY <1>1, VerdictRuns, RunTypeCorrect, PTL

-----------------------------------------------------------------------------
(* A transition of a target that is, or is about to be, in the store: that *)
(* of a run on this target that has a record, with its phase and status.   *)
Genuine(t, v) ==
    /\ v[3] \in Runs /\ entry[v[3]] # None /\ Target(v[3]) = t
    /\ v = <<Short(entry[v[3]][1]), Phase(v[3]), v[3]>>

(* What the runs have of the store.  Two that have it at the same time are *)
(* marked; and as long as none are, each saves what it has loaded and its  *)
(* own transition.                                                         *)
StoreInv ==
    /\ \A t \in Targets :
          /\ states[t] # None => Genuine(t, states[t])
          /\ \A q \in Runs : mem[q][t] # None => Genuine(t, mem[q][t])
    /\ \A q \in Runs :
          /\ pc[q] # "save" => mem[q] = Nothing
          /\ pc[q] = "save" => mem[q][Target(q)] = <<Short(entry[q][1]), Phase(q), q>>
          /\ \A r \in Runs : q # r /\ pc[q] = "save" /\ pc[r] = "save" => Target(q) \in raced
    /\ raced = {} =>
          \A q \in Runs :
             /\ pc[q] = "ended" => states[Target(q)] # None
             /\ pc[q] = "save" => \A t \in Targets : states[t] # None => mem[q][t] # None

(* Steps outside of the store.                                             *)
LEMMA StoreUntouched ==
  ASSUME TypeInv, StoreInv,
         UNCHANGED <<job, states, raced>>,
         \A q \in Runs : entry[q] # None => entry'[q] = entry[q],
         \A q \in Runs :
            \/ pc'[q] = pc[q] /\ mem'[q] = mem[q]
            \/ pc'[q] \notin {"save", "ended"} /\ mem'[q] = Nothing
  PROVE  StoreInv'
<1>1. \A q \in Runs : /\ Target(q)' = Target(q) /\ Phase(q)' = Phase(q)
                      /\ Target(q) \in Targets
  BY JobTypes DEF Target, Phase, TypeInv
<1>2. ASSUME NEW t \in Targets, NEW v, Genuine(t, v) PROVE Genuine(t, v)'
  BY <1>1, <1>2 DEF Genuine
<1>3. \A t \in Targets : Nothing[t] = None
  BY DEF Nothing
<1>4. ASSUME NEW q \in Runs, pc'[q] = "save"
      PROVE  pc[q] = "save" /\ mem'[q] = mem[q] /\ entry'[q] = entry[q]
  BY <1>4 DEF TypeInv, HasResult
<1>5. \A t \in Targets :
         /\ states'[t] # None => Genuine(t, states[t])'
         /\ \A q \in Runs : mem'[q][t] # None => Genuine(t, mem[q][t])'
  <2>1. ASSUME NEW t \in Targets, states[t] # None PROVE Genuine(t, states[t])'
    <3>1. Genuine(t, states[t])
      BY <2>1 DEF StoreInv
    <3>2. states' = states
      OBVIOUS
    <3>3. QED
      BY <1>1, <3>1, <3>2 DEF Genuine
  <2>2. ASSUME NEW t \in Targets, NEW q \in Runs, mem'[q][t] # None
        PROVE  Genuine(t, mem[q][t])'
    <3>1. mem'[q] = mem[q] /\ Genuine(t, mem[q][t])
      BY <1>3, <2>2 DEF StoreInv
    <3>2. QED
      BY <1>1, <3>1 DEF Genuine
  <2>3. QED
    BY <2>1, <2>2
<1>6. \A q \in Runs :
         /\ pc'[q] # "save" => mem'[q] = Nothing
         /\ pc'[q] = "save" => mem'[q][Target(q)] = <<Short(entry'[q][1]), Phase(q), q>>
         /\ \A r \in Runs : q # r /\ pc'[q] = "save" /\ pc'[r] = "save" => Target(q) \in raced
  BY <1>4 DEF StoreInv
<1>7. raced = {} =>
         \A q \in Runs :
            /\ pc'[q] = "ended" => states[Target(q)] # None
            /\ pc'[q] = "save" => \A t \in Targets : states[t] # None => mem'[q][t] # None
  BY <1>4 DEF StoreInv
<1>8. QED
  BY <1>1, <1>5, <1>6, <1>7 DEF StoreInv

LEMMA TransitionTypes ==
  ASSUME TypeOK, NEW r \in Runs, entry[r] # None
  PROVE  <<Short(entry[r][1]), Phase(r), r>> # None
<1>1. entry[r][1] \in Statuses /\ Phase(r) \in Phases
  BY JobTypes DEF TypeOK, Entry
<1>2. Short(entry[r][1]) \in {"blocked", "collected", "unreproducible"}
  BY <1>1 DEF Short, Statuses, Blocked
<1>3. <<Short(entry[r][1]), Phase(r), r>> \in Transition
  BY <1>1, <1>2 DEF Transition
<1>4. QED
  BY <1>3, NoneAssumption

LEMMA StoreLoad ==
  ASSUME TypeInv, VerdictInv, StoreInv, NEW r \in Runs, LoadStore(r)
  PROVE  StoreInv'
<1> DEFINE st == <<Short(entry[r][1]), Phase(r), r>>
<1>1. TypeOK /\ Target(r) \in Targets /\ \A q \in Runs : Target(q) \in Targets
  BY JobTypes DEF TypeInv
<1>2. /\ pc[r] = "transition" /\ pc' = [pc EXCEPT ![r] = "save"]
      /\ entry[r] # None /\ entry[r][1] = result[r]
      /\ mem' = [mem EXCEPT ![r] = [states EXCEPT ![Target(r)] = st]]
      /\ raced' = IF InStore(r) = {} THEN raced
                  ELSE raced \cup {Target(q) : q \in InStore(r) \cup {r}}
      /\ UNCHANGED <<job, entry, states>>
  BY DEF LoadStore, Goto, ledger, TypeInv, HasResult, VerdictInv
<1>3. st[3] = r /\ Genuine(Target(r), st) /\ st # None
  BY <1>1, <1>2, TransitionTypes DEF Genuine
<1> HIDE DEF st
<1>4. /\ mem'[r][Target(r)] = st
      /\ \A t \in Targets \ {Target(r)} : mem'[r][t] = states[t]
      /\ \A q \in Runs \ {r} : mem'[q] = mem[q] /\ pc'[q] = pc[q]
      /\ pc'[r] = "save"
  BY <1>1, <1>2 DEF TypeOK, Store
<1>5. \A q \in Runs : Target(q)' = Target(q) /\ Phase(q)' = Phase(q)
  BY <1>2 DEF Target, Phase
<1>6. ASSUME NEW t, NEW v, Genuine(t, v) PROVE Genuine(t, v)'
  BY <1>2, <1>5, <1>6 DEF Genuine
<1>7. ASSUME NEW t \in Targets, NEW q \in Runs, mem'[q][t] # None
      PROVE  Genuine(t, mem'[q][t])
  BY <1>3, <1>4, <1>7 DEF StoreInv
<1>8. ASSUME NEW q \in Runs, pc'[q] = "save"
      PROVE  mem'[q][Target(q)] = <<Short(entry[q][1]), Phase(q), q>>
  BY <1>4, <1>8 DEF StoreInv, st
<1>9. ASSUME NEW p \in Runs, NEW q \in Runs, p # q, pc'[p] = "save", pc'[q] = "save"
      PROVE  Target(p) \in raced'
  <2>1. CASE p # r /\ q # r
    BY <1>2, <1>4, <1>9, <2>1 DEF StoreInv
  <2>2. CASE p = r \/ q = r
    <3>1. {p, q} \subseteq InStore(r) \cup {r} /\ InStore(r) # {}
      BY <1>4, <1>9, <2>2 DEF InStore
    <3>2. QED
      BY <1>2, <3>1
  <2>3. QED
    BY <2>1, <2>2
<1>10. raced' = {} => raced = {} /\ InStore(r) = {}
  BY <1>2
<1>11. ASSUME raced' = {}, NEW q \in Runs
       PROVE  /\ pc'[q] = "ended" => states[Target(q)] # None
              /\ pc'[q] = "save" => \A t \in Targets : states[t] # None => mem'[q][t] # None
  BY <1>3, <1>4, <1>10, <1>11 DEF StoreInv
<1>12. ASSUME NEW q \in Runs, pc'[q] # "save" PROVE mem'[q] = Nothing
  BY <1>4, <1>12 DEF StoreInv
<1>13. ASSUME NEW t \in Targets
       PROVE  /\ states'[t] # None => Genuine(t, states[t])'
              /\ \A q \in Runs : mem'[q][t] # None => Genuine(t, mem[q][t])'
  <2>1. ASSUME states[t] # None PROVE Genuine(t, states[t])'
    <3>1. Genuine(t, states[t]) /\ states' = states
      BY <1>2, <2>1 DEF StoreInv
    <3>2. QED
      BY <1>2, <1>5, <3>1 DEF Genuine
  <2>2. ASSUME NEW q \in Runs, mem'[q][t] # None PROVE Genuine(t, mem[q][t])'
    BY <1>2, <1>5, <1>7, <2>2 DEF Genuine
  <2>3. QED
    BY <1>2, <2>1, <2>2
<1>14. QED
  BY <1>2, <1>5, <1>8, <1>9, <1>11, <1>12, <1>13 DEF StoreInv

LEMMA StoreSave ==
  ASSUME TypeInv, StoreInv, NEW r \in Runs, SaveStore(r)
  PROVE  StoreInv'
<1>1. TypeOK /\ \A q \in Runs : Target(q) \in Targets
  BY JobTypes DEF TypeInv
<1>2. /\ pc[r] = "save" /\ pc' = [pc EXCEPT ![r] = "ended"]
      /\ mem' = [mem EXCEPT ![r] = Nothing]
      /\ UNCHANGED <<job, entry, raced>>
  BY DEF SaveStore, Goto, marks
<1>3. \A t \in Targets : \/ states'[t] = None
                         \/ \E q \in Runs : states'[t] = mem[q][t]
  BY DEF SaveStore, InStore
<1>4. /\ \A q \in Runs \ {r} : mem'[q] = mem[q] /\ pc'[q] = pc[q]
      /\ mem'[r] = Nothing /\ pc'[r] = "ended"
      /\ \A t \in Targets : Nothing[t] = None
  BY <1>1, <1>2 DEF TypeOK, Nothing
<1>5. \A q \in Runs : Target(q)' = Target(q) /\ Phase(q)' = Phase(q)
  BY <1>2 DEF Target, Phase
<1>6. ASSUME NEW t \in Targets
      PROVE  /\ states'[t] # None => Genuine(t, states[t])'
             /\ \A q \in Runs : mem'[q][t] # None => Genuine(t, mem[q][t])'
  <2>1. \A q \in Runs : mem[q][t] # None => Genuine(t, mem[q][t])
    BY DEF StoreInv
  <2>2. ASSUME states'[t] # None PROVE Genuine(t, states[t])'
    <3>1. PICK q \in Runs : states'[t] = mem[q][t]
      BY <1>3, <2>2
    <3>2. Genuine(t, states'[t])
      BY <2>1, <2>2, <3>1
    <3>3. QED
      BY <1>2, <1>5, <3>2 DEF Genuine
  <2>3. ASSUME NEW q \in Runs, mem'[q][t] # None PROVE Genuine(t, mem[q][t])'
    <3>1. Genuine(t, mem'[q][t])
      BY <1>4, <2>1, <2>3
    <3>2. QED
      BY <1>2, <1>5, <3>1 DEF Genuine
  <2>4. QED
    BY <2>2, <2>3
<1>7. ASSUME raced = {}
      PROVE  /\ states' = mem[r]
             /\ \A q \in Runs \ {r} : pc[q] # "save"
  <2>1. \A q \in Runs \ {r} : pc[q] # "save"
    BY <1>2, <1>7 DEF StoreInv
  <2>2. InStore(r) = {}
    BY <2>1 DEF InStore
  <2>3. QED
    BY <2>1, <2>2 DEF SaveStore
<1>8. ASSUME raced = {}, NEW q \in Runs
      PROVE  /\ pc'[q] = "ended" => states'[Target(q)] # None
             /\ pc'[q] # "save"
  <2>1. pc'[q] # "save"
    BY <1>4, <1>7, <1>8
  <2>2. CASE q = r
    <3>1. mem[r][Target(r)] = <<Short(entry[r][1]), Phase(r), r>>
      BY <1>2 DEF StoreInv
    <3>2. mem[r][Target(r)] # None
      BY <1>1, <3>1, <1>2, TransitionTypes DEF TypeInv, HasResult
    <3>3. QED
      BY <1>7, <1>8, <2>1, <2>2, <3>2
  <2>3. CASE q # r
    BY <1>1, <1>2, <1>4, <1>7, <1>8, <2>1, <2>3 DEF StoreInv
  <2>4. QED
    BY <2>2, <2>3
<1>9. \A q \in Runs :
         /\ pc'[q] # "save" => mem'[q] = Nothing
         /\ pc'[q] = "save" => mem'[q][Target(q)] = <<Short(entry[q][1]), Phase(q), q>>
         /\ \A p \in Runs : q # p /\ pc'[q] = "save" /\ pc'[p] = "save" => Target(q) \in raced
  BY <1>4 DEF StoreInv
<1>10. QED
  BY <1>2, <1>5, <1>6, <1>8, <1>9 DEF StoreInv

LEMMA StoreStep == TypeInv /\ VerdictInv /\ StoreInv /\ [Next]_vars => StoreInv'
<1> SUFFICES ASSUME TypeInv, VerdictInv, StoreInv, [Next]_vars
             PROVE  StoreInv'
  OBVIOUS
<1>1. CASE UNCHANGED vars \/ Tick
  <2>1. UNCHANGED <<pc, job, entry, states, mem, raced>>
    BY <1>1 DEF vars, Tick, progress, ledger, marks
  <2>2. QED
    BY <2>1, StoreUntouched
<1>2. ASSUME NEW r \in Runs,
             Start(r) \/ Refuse(r) \/ Work(r) \/ Persist(r) \/ Kill(r),
             ~LoadStore(r), ~SaveStore(r)
      PROVE  StoreInv'
  <2>1. UNCHANGED <<job, states, raced>>
    BY <1>2 DEF Work, Persist, Start, Refuse, CardMalformed, Kill, CreateWorktree, BuildOne,
           BuildFails, OpenHome, NoFreePort, CloseHome, StartTrial, EndTrial, Measure,
           ScenarioRaises, Judge, Cleanup, WriteRecord, ReadCard, WriteCard, StoreFails, ledger,
           marks
  <2>2. \A q \in Runs \ {r} : pc'[q] = pc[q] /\ mem'[q] = mem[q]
    BY <1>2 DEF TypeInv, TypeOK, Goto, Work, Persist, Start, Refuse, CardMalformed, Kill,
           CreateWorktree, BuildOne, BuildFails, OpenHome, NoFreePort, CloseHome, StartTrial,
           EndTrial, Measure, ScenarioRaises, Judge, Cleanup, WriteRecord, ReadCard, WriteCard,
           StoreFails
  <2>3. pc'[r] \notin {"save", "ended"} /\ mem'[r] \in {mem[r], Nothing}
    BY <1>2 DEF TypeInv, TypeOK, Goto, Work, Persist, Start, Refuse, CardMalformed, Kill,
           CreateWorktree, BuildOne, BuildFails, OpenHome, NoFreePort, CloseHome, StartTrial,
           EndTrial, Measure, ScenarioRaises, Judge, Cleanup, WriteRecord, ReadCard, WriteCard,
           StoreFails
  <2>4. pc[r] # "save" => mem[r] = Nothing
    BY DEF StoreInv
  <2>5. pc[r] = "save" => StoreFails(r) \/ Kill(r)
    BY <1>2 DEF Work, Persist, Start, Refuse, CardMalformed, CreateWorktree, BuildOne,
           BuildFails, OpenHome, NoFreePort, CloseHome, StartTrial, EndTrial, Measure,
           ScenarioRaises, Judge, Cleanup, WriteRecord, ReadCard, WriteCard
  <2>6. StoreFails(r) \/ Kill(r) => mem'[r] = Nothing
    BY DEF StoreFails, Kill, TypeInv, TypeOK
  <2>7. \A q \in Runs : entry[q] # None => entry'[q] = entry[q]
    <3>1. WriteRecord(r) => entry[r] = None
      BY DEF WriteRecord, VerdictInv
    <3>2. WriteRecord(r) => \A q \in Runs \ {r} : entry'[q] = entry[q]
      BY DEF WriteRecord, TypeInv, TypeOK
    <3>3. ~WriteRecord(r) => UNCHANGED entry
      BY <1>2 DEF Work, Persist, Start, Refuse, CardMalformed, Kill, CreateWorktree, BuildOne,
           BuildFails, OpenHome, NoFreePort, CloseHome, StartTrial, EndTrial, Measure,
           ScenarioRaises, Judge, Cleanup, ReadCard, WriteCard, StoreFails
    <3>4. QED
      BY <3>1, <3>2, <3>3
  <2>8. mem'[r] = Nothing
    BY <2>3, <2>4, <2>5, <2>6
  <2>9. QED
    BY <2>1, <2>2, <2>3, <2>7, <2>8, StoreUntouched
<1>3. QED
  BY <1>1, <1>2, StoreLoad, StoreSave DEF Next, Persist

-----------------------------------------------------------------------------
(* Whatever a card says, or a run has recorded or is about to write on the *)
(* card, has a record.                                                     *)
RecordInv ==
    /\ \A t \in Targets, ph \in Phases :
          cards[t][ph] # None => Recorded(t, ph, cards[t][ph])
    /\ \A r \in Runs :
          /\ entry[r] # None => Recorded(Target(r), Phase(r), entry[r])
          /\ \A ph \in Phases :
                text[r][ph] # None => Recorded(Target(r), ph, text[r][ph])

(* Record and card of a run, as it has left them.                          *)
Agreement(t, r) ==
    /\ proofs[<<t, Phase(r), entry[r][2]>>] = entry[r]
    /\ HasCard(r) => cards[t][Phase(r)] = entry[r]

(* On a target that is not disturbed, one run at a time persists; it has   *)
(* its record, has read the card as it is, and has written its proof there *)
(* before the transition; and between the runs, if none of them has raced  *)
(* another, the transition that is in the store, or that a run on another  *)
(* target is about to save, is that of the run that the places agree on.   *)
PlacesInv ==
    \A t \in Targets \ disturbed :
        /\ \A q, r \in Runs :
              Target(q) = t /\ Target(r) = t /\ Persisting(q) /\ Persisting(r) => q = r
        /\ \A r \in Runs : Target(r) = t /\ Persisting(r) =>
              /\ entry[r] # None /\ entry[r][3] = r
              /\ proofs[<<t, Phase(r), entry[r][2]>>] = entry[r]
              /\ pc[r] = "write" => text[r] = cards[t]
              /\ pc[r] \in {"transition", "save"} /\ HasCard(r) => cards[t][Phase(r)] = entry[r]
        /\ (\A r \in Runs : Target(r) = t => ~Persisting(r)) /\ t \notin raced =>
              /\ states[t] # None => Agreement(t, states[t][3])
              /\ \A q \in Runs : mem[q][t] # None => Agreement(t, mem[q][t][3])

(* Steps of a run that is not persisting or stops to, and of the clock.    *)
LEMMA LedgerUntouched ==
  ASSUME RecordInv, PlacesInv, StoreInv,
         UNCHANGED <<job, entry, text, proofs, cards, states, raced>>,
         disturbed \subseteq disturbed',
         \A q \in Runs : mem'[q] \in {mem[q], Nothing},
         \A q \in Runs :
            \/ pc'[q] = pc[q]
            \/ /\ pc'[q] \notin {"read", "write", "transition", "save"}
               /\ Persisting(q) => Target(q) \in disturbed'
  PROVE  RecordInv' /\ PlacesInv'
<1>1. \A q \in Runs : /\ Target(q)' = Target(q) /\ Phase(q)' = Phase(q)
                      /\ HasCard(q)' <=> HasCard(q)
  BY DEF Target, Phase, HasCard, Pre
<1>2. \A q \in Runs : Persisting(q)' => Persisting(q) /\ pc'[q] = pc[q]
  BY DEF Persisting
<1>3. \A q \in Runs : Persisting(q) /\ ~Persisting(q)' => Target(q) \in disturbed'
  BY DEF Persisting
<1>4. RecordInv'
  BY <1>1 DEF RecordInv, Recorded
<1>5. \A t \in Targets : Nothing[t] = None
  BY DEF Nothing
<1>6. ASSUME NEW t \in Targets \ disturbed'
      PROVE  /\ \A q, r \in Runs :
                   Target(q) = t /\ Target(r) = t /\ Persisting(q)' /\ Persisting(r)' => q = r
             /\ \A r \in Runs : Target(r) = t /\ Persisting(r)' =>
                   /\ entry[r] # None /\ entry[r][3] = r
                   /\ proofs[<<t, Phase(r), entry[r][2]>>] = entry[r]
                   /\ pc'[r] = "write" => text[r] = cards[t]
                   /\ pc'[r] \in {"transition", "save"} /\ HasCard(r) =>
                         cards[t][Phase(r)] = entry[r]
  BY <1>2 DEF PlacesInv
<1>7. ASSUME NEW t \in Targets \ disturbed', t \notin raced,
             \A r \in Runs : Target(r) = t => ~Persisting(r)'
      PROVE  /\ states[t] # None => Agreement(t, states[t][3])
             /\ \A q \in Runs : mem'[q][t] # None => Agreement(t, mem'[q][t][3])
  <2>1. \A r \in Runs : Target(r) = t => ~Persisting(r)
    BY <1>3, <1>7
  <2>2. /\ states[t] # None => Agreement(t, states[t][3])
        /\ \A q \in Runs : mem[q][t] # None => Agreement(t, mem[q][t][3])
    BY <1>7, <2>1 DEF PlacesInv
  <2>3. QED
    BY <1>5, <2>2
<1>8. ASSUME NEW t \in Targets \ disturbed', t \notin raced,
             \A r \in Runs : Target(r) = t => ~Persisting(r)'
      PROVE  /\ states[t] # None => Agreement(t, states[t][3])'
             /\ \A q \in Runs : mem'[q][t] # None => Agreement(t, mem[q][t][3])'
  BY <1>7, <1>8 DEF Agreement, Phase, HasCard, Target, Pre
<1>9. PlacesInv'
  BY <1>1, <1>6, <1>8 DEF PlacesInv
<1>10. QED
  BY <1>4, <1>9

LEMMA LedgerWork ==
  ASSUME TypeInv, RecordInv, PlacesInv, StoreInv, NEW r \in Runs,
         Start(r) \/ Refuse(r) \/ Work(r) \/ CardMalformed(r) \/ StoreFails(r) \/ Kill(r)
  PROVE  RecordInv' /\ PlacesInv'
<1>1. TypeOK
  BY DEF TypeInv
<1>2. UNCHANGED <<job, entry, text, proofs, cards, states, raced>>
  BY DEF Work, Start, Refuse, CardMalformed, StoreFails, Kill, CreateWorktree, BuildOne, BuildFails,
         OpenHome, NoFreePort, CloseHome, StartTrial, EndTrial, Measure, ScenarioRaises, Judge,
         Cleanup, ledger, marks
<1>3. disturbed \subseteq disturbed'
  BY DEF Work, Start, Refuse, CardMalformed, StoreFails, Kill, CreateWorktree, BuildOne, BuildFails,
         OpenHome, NoFreePort, CloseHome, StartTrial, EndTrial, Measure, ScenarioRaises, Judge,
         Cleanup, marks
<1>4. \A q \in Runs \ {r} : pc'[q] = pc[q]
  BY <1>1 DEF TypeOK, Work, Start, Refuse, CardMalformed, StoreFails, Kill, CreateWorktree, BuildOne,
         BuildFails, OpenHome, NoFreePort, CloseHome, StartTrial, EndTrial, Measure,
         ScenarioRaises, Judge, Cleanup, Goto
<1>5. pc'[r] \notin {"read", "write", "transition", "save"}
  BY <1>1 DEF TypeOK, Work, Start, Refuse, CardMalformed, StoreFails, Kill, CreateWorktree, BuildOne,
         BuildFails, OpenHome, NoFreePort, CloseHome, StartTrial, EndTrial, Measure,
         ScenarioRaises, Judge, Cleanup, Goto
<1>6. Persisting(r) => Target(r) \in disturbed'
  BY DEF Persisting, Work, Start, Refuse, CardMalformed, StoreFails, Kill, CreateWorktree, BuildOne,
         BuildFails, OpenHome, NoFreePort, CloseHome, StartTrial, EndTrial, Measure,
         ScenarioRaises, Judge, Cleanup
<1>7. \A q \in Runs : mem'[q] \in {mem[q], Nothing}
  BY <1>1 DEF TypeOK, Work, Start, Refuse, CardMalformed, StoreFails, Kill, CreateWorktree, BuildOne,
         BuildFails, OpenHome, NoFreePort, CloseHome, StartTrial, EndTrial, Measure,
         ScenarioRaises, Judge, Cleanup
<1>8. QED
  BY <1>2, <1>3, <1>4, <1>5, <1>6, <1>7, LedgerUntouched

LEMMA LedgerRecord ==
  ASSUME TypeInv, VerdictInv, StoreInv, RecordInv, PlacesInv, NEW r \in Runs, WriteRecord(r)
  PROVE  RecordInv' /\ PlacesInv'
<1> DEFINE e == <<result[r], clock, r>>
           name == <<Target(r), Phase(r), clock>>
<1>1. TypeOK /\ e # None /\ e[1] = result[r] /\ e[2] = clock /\ e[3] = r
  BY EntryTypes DEF TypeInv, HasResult, WriteRecord
<1>2. /\ Target(r) \in Targets /\ Phase(r) \in Phases /\ clock \in 0..MaxClock
      /\ name \in Name
  BY <1>1, JobTypes DEF TypeOK, Name
<1>3. /\ entry' = [entry EXCEPT ![r] = e]
      /\ proofs' = [proofs EXCEPT ![name] = e]
      /\ pc' = [pc EXCEPT ![r] = "read"] /\ pc[r] = "record"
      /\ disturbed' = IF Others(r) = {} THEN disturbed ELSE disturbed \cup {Target(r)}
      /\ UNCHANGED <<job, text, mem, cards, states, raced>> /\ entry[r] = None
  BY DEF WriteRecord, Goto, VerdictInv
<1> HIDE DEF e
<1>4. /\ \A q \in Runs : /\ Target(q)' = Target(q) /\ Phase(q)' = Phase(q)
                         /\ HasCard(q)' <=> HasCard(q)
                         /\ q # r => (Persisting(q)' <=> Persisting(q)) /\ entry'[q] = entry[q]
      /\ entry'[r] = e /\ pc'[r] = "read"
      /\ Persisting(r)' /\ ~Persisting(r)
  BY <1>1, <1>3 DEF Target, Phase, HasCard, Pre, Persisting, TypeOK
<1>5. \A n \in Name : proofs'[n] = (IF n = name THEN e ELSE proofs[n])
  BY <1>1, <1>2, <1>3 DEF TypeOK
<1>6. /\ proofs'[name] = e
      /\ \A n \in Name : proofs[n] # None => proofs'[n] # None
  BY <1>1, <1>2, <1>3 DEF TypeOK
<1>7. RecordInv'
  <2>1. ASSUME NEW t \in Targets, NEW ph \in Phases, NEW x \in Entry \cup {None},
               x # None, Recorded(t, ph, x)
        PROVE  proofs'[<<t, ph, x[2]>>] # None
    <3>1. <<t, ph, x[2]>> \in Name
      BY <2>1 DEF Entry, Name
    <3>2. QED
      BY <1>6, <2>1, <3>1 DEF Recorded
  <2>2. ASSUME NEW t \in Targets, NEW ph \in Phases, cards'[t][ph] # None
        PROVE  Recorded(t, ph, cards[t][ph])'
    <3>1. cards[t][ph] # None /\ cards[t][ph] \in Entry \cup {None} /\ cards' = cards
      BY <1>1, <1>3, <2>2 DEF TypeOK, Card
    <3>2. proofs'[<<t, ph, cards[t][ph][2]>>] # None
      BY <2>1, <3>1 DEF RecordInv
    <3>3. QED
      BY <3>1, <3>2 DEF Recorded
  <2>3. ASSUME NEW q \in Runs, entry'[q] # None
        PROVE  Recorded(Target(q), Phase(q), entry[q])'
    <3>1. CASE q = r
      BY <1>1, <1>2, <1>4, <1>6, <3>1 DEF Recorded
    <3>2. CASE q # r
      <4>1. entry'[q] = entry[q] /\ entry[q] # None /\ entry[q] \in Entry \cup {None}
        BY <1>1, <1>4, <2>3, <3>2 DEF TypeOK
      <4>2. Target(q) \in Targets /\ Phase(q) \in Phases
        BY <1>1, JobTypes
      <4>3. proofs'[<<Target(q), Phase(q), entry[q][2]>>] # None
        BY <2>1, <4>1, <4>2 DEF RecordInv
      <4>4. QED
        BY <1>4, <4>1, <4>3 DEF Recorded
    <3>3. QED
      BY <3>1, <3>2
  <2>4. ASSUME NEW q \in Runs, NEW ph \in Phases, text'[q][ph] # None
        PROVE  Recorded(Target(q), ph, text[q][ph])'
    <3>1. Target(q) \in Targets /\ text[q][ph] \in Entry \cup {None}
      BY <1>1, JobTypes DEF TypeOK, Card
    <3>2. Recorded(Target(q), ph, text[q][ph]) /\ text[q][ph] # None
      BY <1>3, <2>4 DEF RecordInv
    <3>3. proofs'[<<Target(q), ph, text[q][ph][2]>>] # None
      BY <2>1, <3>1, <3>2
    <3>4. QED
      BY <1>3, <1>4, <3>3 DEF Recorded
  <2>5. QED
    BY <2>2, <2>3, <2>4 DEF RecordInv
<1>8. ASSUME NEW t \in Targets \ disturbed', Target(r) = t
      PROVE  \A q \in Runs \ {r} : Target(q) = t => ~Persisting(q)
  BY <1>3, <1>8 DEF Others
<1>9. ASSUME NEW t \in Targets, NEW ph, NEW k, t # Target(r)
      PROVE  proofs'[<<t, ph, k>>] = proofs[<<t, ph, k>>]
  BY <1>3, <1>9 DEF TypeOK
<1>10. ASSUME NEW t \in Targets \ disturbed'
       PROVE  /\ \A q, s \in Runs :
                    Target(q) = t /\ Target(s) = t /\ Persisting(q)' /\ Persisting(s)' => q = s
              /\ \A q \in Runs : Target(q) = t /\ Persisting(q)' =>
                    /\ entry'[q] # None /\ entry'[q][3] = q
                    /\ proofs'[<<t, Phase(q), entry'[q][2]>>] = entry'[q]
                    /\ pc'[q] = "write" => text[q] = cards[t]
                    /\ pc'[q] \in {"transition", "save"} /\ HasCard(q) =>
                          cards[t][Phase(q)] = entry'[q]
  <2>0. t \in Targets \ disturbed
    BY <1>3
  <2>1. CASE Target(r) = t
    BY <1>1, <1>3, <1>4, <1>6, <1>8, <2>1
  <2>2. CASE Target(r) # t
    <3>1. \A q \in Runs : Target(q) = t =>
             /\ Persisting(q)' <=> Persisting(q)
             /\ entry'[q] = entry[q] /\ pc'[q] = pc[q]
      BY <1>1, <1>3, <1>4, <2>2 DEF TypeOK
    <3>2. /\ \A q, s \in Runs :
                Target(q) = t /\ Target(s) = t /\ Persisting(q) /\ Persisting(s) => q = s
          /\ \A q \in Runs : Target(q) = t /\ Persisting(q) =>
                /\ entry[q] # None /\ entry[q][3] = q
                /\ proofs[<<t, Phase(q), entry[q][2]>>] = entry[q]
                /\ pc[q] = "write" => text[q] = cards[t]
                /\ pc[q] \in {"transition", "save"} /\ HasCard(q) =>
                      cards[t][Phase(q)] = entry[q]
      BY <2>0 DEF PlacesInv
    <3>3. QED
      BY <1>9, <2>2, <3>1, <3>2
  <2>3. QED
    BY <2>1, <2>2
<1>11. ASSUME NEW t \in Targets \ disturbed', t \notin raced,
              \A q \in Runs : Target(q) = t => ~Persisting(q)'
       PROVE  /\ states[t] # None => Agreement(t, states[t][3])'
              /\ \A q \in Runs : mem[q][t] # None => Agreement(t, mem[q][t][3])'
  <2>1. t # Target(r) /\ \A q \in Runs : Target(q) = t => ~Persisting(q)
    BY <1>4, <1>11
  <2>2. ASSUME NEW s \in Runs, entry[s] # None, Agreement(t, s)
        PROVE  /\ proofs'[<<t, Phase(s), entry'[s][2]>>] = entry'[s]
               /\ HasCard(s) => cards[t][Phase(s)] = entry'[s]
    <3>1. entry'[s] = entry[s]
      BY <1>1, <1>3, <2>2 DEF TypeOK
    <3>2. QED
      BY <1>9, <2>1, <2>2, <3>1 DEF Agreement
  <2>3. ASSUME states[t] # None PROVE Agreement(t, states[t][3])'
    <3>1. states[t][3] \in Runs /\ entry[states[t][3]] # None /\ Agreement(t, states[t][3])
      BY <1>3, <1>11, <2>1, <2>3 DEF PlacesInv, StoreInv, Genuine
    <3>2. QED
      BY <1>3, <2>2, <3>1 DEF Agreement, Phase, HasCard, Target, Pre
  <2>4. ASSUME NEW q \in Runs, mem[q][t] # None PROVE Agreement(t, mem[q][t][3])'
    <3>1. mem[q][t][3] \in Runs /\ entry[mem[q][t][3]] # None /\ Agreement(t, mem[q][t][3])
      BY <1>3, <1>11, <2>1, <2>4 DEF PlacesInv, StoreInv, Genuine
    <3>2. QED
      BY <1>3, <2>2, <3>1 DEF Agreement, Phase, HasCard, Target, Pre
  <2>5. QED
    BY <2>3, <2>4
<1>12. PlacesInv'
  BY <1>3, <1>4, <1>10, <1>11 DEF PlacesInv
<1>13. QED
  BY <1>7, <1>12

LEMMA LedgerRead ==
  ASSUME TypeInv, RecordInv, PlacesInv, NEW r \in Runs, ReadCard(r)
  PROVE  RecordInv' /\ PlacesInv'
<1>1. TypeOK /\ Target(r) \in Targets /\ Phase(r) \in Phases
  BY JobTypes DEF TypeInv
<1>2. /\ pc[r] = "read"
      /\ \/ pc' = [pc EXCEPT ![r] = "write"] /\ text' = [text EXCEPT ![r] = cards[Target(r)]]
         \/ ~HasCard(r) /\ pc' = [pc EXCEPT ![r] = "transition"] /\ UNCHANGED text
      /\ UNCHANGED <<job, entry, mem, proofs, cards, states, marks>>
  BY DEF ReadCard, Goto, ledger
<1>3. \A q \in Runs : /\ Target(q)' = Target(q) /\ Phase(q)' = Phase(q)
                      /\ HasCard(q)' <=> HasCard(q)
                      /\ Persisting(q)' <=> Persisting(q)
                      /\ q # r => pc'[q] = pc[q] /\ text'[q] = text[q]
  BY <1>1, <1>2 DEF Target, Phase, HasCard, Pre, Persisting, TypeOK
<1>4. /\ text'[r] \in {text[r], cards[Target(r)]}
      /\ pc'[r] = "write" => text'[r] = cards[Target(r)]
      /\ pc'[r] = "transition" => ~HasCard(r)
      /\ pc'[r] # "read"
  BY <1>1, <1>2 DEF TypeOK
<1>5. RecordInv'
  BY <1>1, <1>2, <1>3, <1>4 DEF RecordInv, Recorded
<1>6. ASSUME NEW t \in Targets \ disturbed, t \notin raced,
             \A q \in Runs : Target(q) = t => ~Persisting(q)'
      PROVE  /\ states[t] # None => Agreement(t, states[t][3])'
             /\ \A q \in Runs : mem[q][t] # None => Agreement(t, mem[q][t][3])'
  <2>1. \A q \in Runs : Target(q) = t => ~Persisting(q)
    BY <1>3, <1>6
  <2>2. /\ states[t] # None => Agreement(t, states[t][3])
        /\ \A q \in Runs : mem[q][t] # None => Agreement(t, mem[q][t][3])
    BY <1>6, <2>1 DEF PlacesInv
  <2>3. QED
    BY <1>2, <2>2 DEF Agreement, Phase, HasCard, Target, Pre
<1>7. ASSUME NEW t \in Targets \ disturbed
      PROVE  /\ \A q, s \in Runs :
                   Target(q) = t /\ Target(s) = t /\ Persisting(q)' /\ Persisting(s)' => q = s
             /\ \A q \in Runs : Target(q) = t /\ Persisting(q)' =>
                   /\ entry[q] # None /\ entry[q][3] = q
                   /\ proofs[<<t, Phase(q), entry[q][2]>>] = entry[q]
                   /\ pc'[q] = "write" => text'[q] = cards[t]
                   /\ pc'[q] \in {"transition", "save"} /\ HasCard(q) =>
                         cards[t][Phase(q)] = entry[q]
  <2>1. /\ \A q, s \in Runs :
              Target(q) = t /\ Target(s) = t /\ Persisting(q) /\ Persisting(s) => q = s
        /\ \A q \in Runs : Target(q) = t /\ Persisting(q) =>
              /\ entry[q] # None /\ entry[q][3] = q
              /\ proofs[<<t, Phase(q), entry[q][2]>>] = entry[q]
              /\ pc[q] = "write" => text[q] = cards[t]
              /\ pc[q] \in {"transition", "save"} /\ HasCard(q) =>
                    cards[t][Phase(q)] = entry[q]
    BY DEF PlacesInv
  <2>2. pc'[r] \in {"write", "transition"}
    BY <1>1, <1>2 DEF TypeOK
  <2>3. QED
    BY <1>3, <1>4, <2>1, <2>2
<1>8. PlacesInv'
  BY <1>2, <1>3, <1>6, <1>7 DEF PlacesInv, marks
<1>9. QED
  BY <1>5, <1>8

LEMMA LedgerWrite ==
  ASSUME TypeInv, RecordInv, PlacesInv, NEW r \in Runs, WriteCard(r)
  PROVE  RecordInv' /\ PlacesInv'
<1> DEFINE card == [text[r] EXCEPT ![Phase(r)] = entry[r]]
<1>1. TypeOK /\ Target(r) \in Targets /\ Phase(r) \in Phases
  BY JobTypes DEF TypeInv
<1>2. /\ pc[r] = "write" /\ pc' = [pc EXCEPT ![r] = "transition"]
      /\ cards' = [cards EXCEPT ![Target(r)] = card]
      /\ text' = [text EXCEPT ![r] = BlankCard]
      /\ UNCHANGED <<job, entry, mem, proofs, states, marks>>
  BY DEF WriteCard, Goto
<1>3. /\ card[Phase(r)] = entry[r]
      /\ \A ph \in Phases : ph # Phase(r) => card[ph] = text[r][ph]
  BY <1>1 DEF TypeOK, Card
<1> HIDE DEF card
<1>4. /\ \A q \in Runs : /\ Target(q)' = Target(q) /\ Phase(q)' = Phase(q)
                         /\ HasCard(q)' <=> HasCard(q)
                         /\ Persisting(q)' <=> Persisting(q)
                         /\ q # r => pc'[q] = pc[q] /\ text'[q] = text[q]
      /\ Persisting(r) /\ pc'[r] = "transition"
      /\ \A ph \in Phases : text'[r][ph] = None
  BY <1>1, <1>2 DEF Target, Phase, HasCard, Pre, Persisting, TypeOK, BlankCard
<1>5. /\ cards'[Target(r)] = card
      /\ \A t \in Targets \ {Target(r)} : cards'[t] = cards[t]
  BY <1>1, <1>2 DEF TypeOK
<1>6. RecordInv'
  <2>1. Recorded(Target(r), Phase(r), entry[r])
    BY <1>2 DEF RecordInv, TypeInv, HasResult
  <2>2. ASSUME NEW t \in Targets, NEW ph \in Phases, cards'[t][ph] # None
        PROVE  Recorded(t, ph, cards'[t][ph])
    <3>1. CASE t = Target(r) /\ ph = Phase(r)
      BY <1>3, <1>5, <2>1, <3>1
    <3>2. CASE t = Target(r) /\ ph # Phase(r)
      BY <1>3, <1>5, <2>2, <3>2 DEF RecordInv
    <3>3. CASE t # Target(r)
      BY <1>5, <2>2, <3>3 DEF RecordInv
    <3>4. QED
      BY <3>1, <3>2, <3>3
  <2>3. QED
    BY <1>2, <1>4, <2>2 DEF RecordInv, Recorded
<1>7. ASSUME NEW t \in Targets \ disturbed, NEW q \in Runs, Target(q) = t, Persisting(q), q # r
      PROVE  Target(r) # t
  BY <1>4, <1>7 DEF PlacesInv
<1>8. ASSUME NEW t \in Targets \ disturbed, t \notin raced,
             \A q \in Runs : Target(q) = t => ~Persisting(q)'
      PROVE  /\ states[t] # None => Agreement(t, states[t][3])'
             /\ \A q \in Runs : mem[q][t] # None => Agreement(t, mem[q][t][3])'
  <2>1. t # Target(r) /\ \A q \in Runs : Target(q) = t => ~Persisting(q)
    BY <1>4, <1>8
  <2>2. /\ states[t] # None => Agreement(t, states[t][3])
        /\ \A q \in Runs : mem[q][t] # None => Agreement(t, mem[q][t][3])
    BY <1>8, <2>1 DEF PlacesInv
  <2>3. cards'[t] = cards[t]
    BY <1>5, <2>1
  <2>4. QED
    BY <1>2, <2>2, <2>3 DEF Agreement, Phase, HasCard, Target, Pre
<1>9. PlacesInv'
  BY <1>1, <1>2, <1>3, <1>4, <1>5, <1>7, <1>8 DEF PlacesInv, marks
<1>10. QED
  BY <1>6, <1>9

(* The store is read and written with the card and the record in place.    *)
LEMMA LedgerLoad ==
  ASSUME TypeInv, StoreInv, RecordInv, PlacesInv, NEW r \in Runs, LoadStore(r)
  PROVE  RecordInv' /\ PlacesInv'
<1>1. TypeOK /\ Target(r) \in Targets
  BY JobTypes DEF TypeInv
<1>2. /\ pc[r] = "transition" /\ pc' = [pc EXCEPT ![r] = "save"]
      /\ UNCHANGED <<job, entry, text, proofs, cards, states, disturbed>>
      /\ raced \subseteq raced'
  BY DEF LoadStore, Goto, ledger
<1>3. /\ \A q \in Runs \ {r} : mem'[q] = mem[q]
      /\ \A t \in Targets \ {Target(r)} : mem'[r][t] = states[t]
  BY <1>1 DEF LoadStore, TypeOK, Store
<1>4. \A q \in Runs : /\ Target(q)' = Target(q) /\ Phase(q)' = Phase(q)
                      /\ HasCard(q)' <=> HasCard(q)
                      /\ Persisting(q)' <=> Persisting(q)
                      /\ q # r => pc'[q] = pc[q]
  BY <1>1, <1>2 DEF Target, Phase, HasCard, Pre, Persisting, TypeOK
<1>5. pc'[r] = "save" /\ Persisting(r)
  BY <1>1, <1>2 DEF TypeOK, Persisting
<1>6. RecordInv'
  BY <1>2, <1>4 DEF RecordInv, Recorded
<1>7. ASSUME NEW t \in Targets \ disturbed, t \notin raced',
             \A q \in Runs : Target(q) = t => ~Persisting(q)'
      PROVE  /\ states[t] # None => Agreement(t, states[t][3])'
             /\ \A q \in Runs : mem'[q][t] # None => Agreement(t, mem[q][t][3])'
  <2>1. t # Target(r) /\ t \notin raced /\ \A q \in Runs : Target(q) = t => ~Persisting(q)
    BY <1>2, <1>4, <1>5, <1>7
  <2>2. /\ states[t] # None => Agreement(t, states[t][3])
        /\ \A q \in Runs : mem[q][t] # None => Agreement(t, mem[q][t][3])
    BY <1>7, <2>1 DEF PlacesInv
  <2>3. /\ states[t] # None => Agreement(t, states[t][3])
        /\ \A q \in Runs : mem'[q][t] # None => Agreement(t, mem'[q][t][3])
    BY <1>3, <2>1, <2>2
  <2>4. QED
    BY <1>2, <2>3 DEF Agreement, Phase, HasCard, Target, Pre
<1>8. PlacesInv'
  BY <1>2, <1>4, <1>5, <1>7 DEF PlacesInv
<1>9. QED
  BY <1>6, <1>8

LEMMA LedgerSave ==
  ASSUME TypeInv, StoreInv, RecordInv, PlacesInv, NEW r \in Runs, SaveStore(r)
  PROVE  RecordInv' /\ PlacesInv'
<1>1. TypeOK /\ Target(r) \in Targets
  BY JobTypes DEF TypeInv
<1>2. /\ pc[r] = "save" /\ pc' = [pc EXCEPT ![r] = "ended"]
      /\ mem' = [mem EXCEPT ![r] = Nothing]
      /\ UNCHANGED <<job, entry, text, proofs, cards, marks>>
  BY DEF SaveStore, Goto
<1>3. /\ \A q \in Runs : /\ Target(q)' = Target(q) /\ Phase(q)' = Phase(q)
                         /\ HasCard(q)' <=> HasCard(q)
                         /\ q # r => pc'[q] = pc[q] /\ (Persisting(q)' <=> Persisting(q))
      /\ Persisting(r) /\ ~Persisting(r)' /\ pc'[r] = "ended"
  BY <1>1, <1>2 DEF Target, Phase, HasCard, Pre, Persisting, TypeOK
<1>4. /\ \A q \in Runs \ {r} : mem'[q] = mem[q]
      /\ \A t \in Targets : mem'[r][t] = None
  BY <1>1, <1>2 DEF TypeOK, Nothing
<1>5. RecordInv'
  BY <1>2, <1>3 DEF RecordInv, Recorded
<1>6. ASSUME NEW t \in Targets \ disturbed, t \notin raced,
             \A q \in Runs : Target(q) = t => ~Persisting(q)'
      PROVE  /\ states'[t] # None => Agreement(t, states'[t][3])
             /\ \A q \in Runs : mem'[q][t] # None => Agreement(t, mem'[q][t][3])
  <2>1. CASE t = Target(r)
    <3>1. \A q \in Runs \ {r} : pc[q] # "save" /\ mem[q] = Nothing
      BY <1>2, <1>6, <2>1 DEF StoreInv
    <3>2. states' = mem[r]
      <4>1. InStore(r) = {}
        BY <3>1 DEF InStore
      <4>2. QED
        BY <4>1 DEF SaveStore
    <3>3. mem[r][t][3] = r
      BY <1>2, <2>1 DEF StoreInv
    <3>4. Agreement(t, r)
      <4>1. t \in Targets \ disturbed /\ Target(r) = t /\ Persisting(r) /\ pc[r] = "save"
        BY <1>2, <1>3, <1>6, <2>1
      <4>2. /\ proofs[<<t, Phase(r), entry[r][2]>>] = entry[r]
            /\ HasCard(r) => cards[t][Phase(r)] = entry[r]
        BY <4>1 DEF PlacesInv
      <4>3. QED
        BY <4>2 DEF Agreement
    <3>5. \A q \in Runs : mem'[q][t] = None
      BY <1>4, <3>1 DEF Nothing
    <3>6. QED
      BY <3>2, <3>3, <3>4, <3>5
  <2>2. CASE t # Target(r)
    <3>1. \A q \in Runs : Target(q) = t => ~Persisting(q)
      BY <1>3, <1>6, <2>2
    <3>2. \A q \in Runs : mem[q][t] # None => Agreement(t, mem[q][t][3])
      BY <1>6, <3>1 DEF PlacesInv
    <3>3. states'[t] = None \/ \E q \in Runs : states'[t] = mem[q][t]
      BY DEF SaveStore, InStore
    <3>4. QED
      BY <1>4, <3>2, <3>3
  <2>3. QED
    BY <2>1, <2>2
<1>7. ASSUME NEW t \in Targets \ disturbed, t \notin raced,
             \A q \in Runs : Target(q) = t => ~Persisting(q)'
      PROVE  /\ states'[t] # None => Agreement(t, states[t][3])'
             /\ \A q \in Runs : mem'[q][t] # None => Agreement(t, mem[q][t][3])'
  <2>1. ASSUME states'[t] # None PROVE Agreement(t, states[t][3])'
    <3>1. Agreement(t, states'[t][3])
      BY <1>6, <1>7, <2>1
    <3>2. QED
      BY <1>2, <3>1 DEF Agreement, Phase, HasCard, Target, Pre
  <2>2. ASSUME NEW q \in Runs, mem'[q][t] # None PROVE Agreement(t, mem[q][t][3])'
    <3>1. Agreement(t, mem'[q][t][3])
      BY <1>6, <1>7, <2>2
    <3>2. QED
      BY <1>2, <3>1 DEF Agreement, Phase, HasCard, Target, Pre
  <2>3. QED
    BY <2>1, <2>2
<1>8. PlacesInv'
  BY <1>2, <1>3, <1>7 DEF PlacesInv, marks
<1>9. QED
  BY <1>5, <1>8

LEMMA LedgerStep ==
  TypeInv /\ VerdictInv /\ StoreInv /\ RecordInv /\ PlacesInv /\ [Next]_vars
  => RecordInv' /\ PlacesInv'
<1> SUFFICES ASSUME TypeInv, VerdictInv, StoreInv, RecordInv, PlacesInv, [Next]_vars
             PROVE  RecordInv' /\ PlacesInv'
  OBVIOUS
<1>1. CASE UNCHANGED vars \/ Tick
  <2>1. UNCHANGED <<pc, job, entry, text, mem, proofs, cards, states, disturbed, raced>>
    BY <1>1 DEF vars, Tick, progress, ledger, marks
  <2>2. QED
    BY <2>1, LedgerUntouched
<1>2. ASSUME NEW r \in Runs,
             Start(r) \/ Refuse(r) \/ Work(r) \/ Persist(r) \/ Kill(r)
      PROVE  RecordInv' /\ PlacesInv'
  BY <1>2, LedgerWork, LedgerRecord, LedgerRead, LedgerWrite, LedgerLoad, LedgerSave
     DEF Persist
<1>3. QED
  BY <1>1, <1>2 DEF Next

LEMMA LedgerRuns == Spec => [](StoreInv /\ RecordInv /\ PlacesInv)
<1>1. ASSUME Init PROVE StoreInv /\ RecordInv /\ PlacesInv
  <2>1. /\ \A r \in Runs : /\ pc[r] = "start" /\ text[r] = BlankCard /\ mem[r] = Nothing
                           /\ entry[r] = None /\ Target(r) \in Targets
        /\ \A t \in Targets : cards[t] = BlankCard /\ states[t] = None /\ Nothing[t] = None
        /\ \A ph \in Phases : BlankCard[ph] = None
    BY <1>1, JobTypes, RunTypeInit DEF Init, BlankCard, Nothing, TypeInv
  <2>2. StoreInv
    BY <2>1 DEF StoreInv
  <2>3. RecordInv
    BY <2>1 DEF RecordInv
  <2>4. PlacesInv
    BY <2>1 DEF PlacesInv, Persisting
  <2>5. QED
    BY <2>2, <2>3, <2>4
<1>2. QED
  BY <1>1, StoreStep, LedgerStep, RunTypes, VerdictRuns, PTL DEF Spec

(* The record that a card points to exists, and so does that of the run    *)
(* whose transition is in the store, whatever runs race in it; when the    *)
(* runs on a target have ended one after another and raced nobody in the   *)
(* store, record, card and transition are of one run; and without a race   *)
(* no run ends without a transition.                                       *)
THEOREM PlacesAlwaysAgree == Spec => []PlacesAgree
<1>1. ASSUME StoreInv, RecordInv, PlacesInv PROVE PlacesAgree
  <2>1. ASSUME NEW t \in Targets, states[t] # None
        PROVE  /\ entry[states[t][3]] # None /\ Target(states[t][3]) = t
               /\ states[t] = <<Short(entry[states[t][3]][1]), Phase(states[t][3]), states[t][3]>>
               /\ Recorded(t, Phase(states[t][3]), entry[states[t][3]])
               /\ Settled(t) /\ t \notin raced =>
                     /\ proofs[<<t, Phase(states[t][3]), entry[states[t][3]][2]>>]
                        = entry[states[t][3]]
                     /\ HasCard(states[t][3]) =>
                           cards[t][Phase(states[t][3])] = entry[states[t][3]]
    <3>1. Genuine(t, states[t]) /\ states[t][3] \in Runs
      BY <1>1, <2>1 DEF StoreInv, Genuine
    <3>2. Recorded(t, Phase(states[t][3]), entry[states[t][3]])
      BY <1>1, <3>1 DEF RecordInv, Genuine
    <3>3. Settled(t) /\ t \notin raced => Agreement(t, states[t][3])
      BY <1>1, <2>1 DEF PlacesInv, Settled
    <3>4. QED
      BY <3>1, <3>2, <3>3 DEF Genuine, Agreement
  <2>2. \A t \in Targets, ph \in Phases : cards[t][ph] # None => Recorded(t, ph, cards[t][ph])
    BY <1>1 DEF RecordInv
  <2>3. raced = {} => \A r \in Runs : pc[r] = "ended" => states[Target(r)] # None
    BY <1>1 DEF StoreInv
  <2>4. QED
    BY <2>1, <2>2, <2>3 DEF PlacesAgree
<1>2. QED
  BY <1>1, LedgerRuns, PTL

(* As long as runs on a target persist their results one after another,    *)
(* its card loses no proof, and each is replaced by one of its phase only. *)
THEOREM ProofsStay == Spec => ProofsAreKept
<1> DEFINE Keep(t, ph) ==
        t \notin disturbed' /\ cards[t][ph] # None /\ cards'[t][ph] # cards[t][ph] =>
           cards'[t][ph] # None /\ Phase(cards'[t][ph][3]) = ph
<1>1. ASSUME TypeInv, PlacesInv, [Next]_vars, NEW t \in Targets, NEW ph \in Phases
      PROVE  Keep(t, ph)
  <2>1. ASSUME NEW r \in Runs, WriteCard(r) PROVE Keep(t, ph)
    <3>1. /\ cards' = [cards EXCEPT ![Target(r)] = [text[r] EXCEPT ![Phase(r)] = entry[r]]]
          /\ pc[r] = "write" /\ disturbed' = disturbed
      BY <2>1 DEF WriteCard, marks
    <3>2. TypeOK /\ Target(r) \in Targets /\ Phase(r) \in Phases
      BY <1>1, JobTypes DEF TypeInv
    <3>3. /\ t # Target(r) => cards'[t] = cards[t]
          /\ t = Target(r) /\ ph # Phase(r) => cards'[t][ph] = text[r][ph]
          /\ t = Target(r) /\ ph = Phase(r) => cards'[t][ph] = entry[r]
      BY <3>1, <3>2 DEF TypeOK, Card
    <3>4. t = Target(r) /\ t \notin disturbed =>
             text[r] = cards[t] /\ entry[r] # None /\ entry[r][3] = r
      BY <1>1, <3>1 DEF PlacesInv, Persisting
    <3>5. QED
      BY <3>1, <3>3, <3>4
  <2>2. ASSUME NEW r \in Runs,
               Start(r) \/ Refuse(r) \/ Work(r) \/ Kill(r) \/ (Persist(r) /\ ~WriteCard(r))
        PROVE  UNCHANGED cards
    BY <2>2 DEF Work, Persist, Start, Refuse, CardMalformed, Kill, CreateWorktree, BuildOne,
           BuildFails, OpenHome, NoFreePort, CloseHome, StartTrial, EndTrial, Measure,
           ScenarioRaises, Judge, Cleanup, WriteRecord, ReadCard, LoadStore, SaveStore,
           StoreFails, ledger
  <2>3. CASE UNCHANGED vars \/ Tick
    BY <2>3 DEF vars, Tick, ledger
  <2>4. QED
    BY <1>1, <2>1, <2>2, <2>3 DEF Next, Persist
<1>2. TypeInv /\ PlacesInv /\ [Next]_vars =>
         [\A t \in Targets \ disturbed', ph \in Phases :
             cards[t][ph] # None /\ cards'[t][ph] # cards[t][ph] =>
                /\ cards'[t][ph] # None
                /\ Phase(cards'[t][ph][3]) = ph]_vars
  BY <1>1
<1>3. QED
  BY <1>2, LedgerRuns, RunTypes, PTL DEF Spec, ProofsAreKept
=============================================================================
