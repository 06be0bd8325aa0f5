--------------------------- MODULE CandidatesProofs ---------------------------
(***************************************************************************)
(* What the life of a candidate guarantees for any candidates, findings,   *)
(* verdict files and bounds.  Under any interleaving of commands and of    *)
(* their saves: types, that an approval has its grounded verdict and its   *)
(* fingerprint, that a published candidate has an issue, and that a search *)
(* overlooks no issue that it could see.  With one command at a time: that *)
(* no finding gets two issues while GitHub's search answers.               *)
(***************************************************************************)
EXTENDS Candidates, SequenceTheorems, TLAPS

(* A counter that is below its bound stays within it.                      *)
LEMMA CountTypes ==
  ASSUME NEW max \in Nat, NEW n \in 0..max, n < max
  PROVE  n + 1 \in 0..max
OBVIOUS

Labels == {"idle", "approving", "deferring", "demoting", "checking", "searching",
           "creating", "recording", "saving"}

(* The part of TypeOK that is about the commands.                          *)
RunTypes ==
    /\ pc \in [Commands -> Labels]
    /\ cand \in [Commands -> Cands]
    /\ held \in [Commands -> {Null} \cup Verdicts]
    /\ \A p \in Commands : Applying(p) => held[p] \in Verdicts
    /\ print \in [Commands -> {Null} \cup Fingerprint]
    /\ loaded \in [Commands -> SUBSET Finds]
    /\ force \in [Commands -> BOOLEAN]
    /\ answer \in [Commands -> Answers]
    /\ mem \in [Commands -> Store]
    /\ search \in [Commands -> Search]
    /\ clashed \subseteq Commands /\ raced \in BOOLEAN

LEMMA TypesOfRuns == TypeOK => RunTypes
BY DEF TypeOK, RunTypes, Labels

LEMMA RunsStay == ASSUME TypeOK, UNCHANGED running PROVE RunTypes'
BY DEF TypeOK, RunTypes, Labels, running, locals, Applying

LEMMA BlankTypes == Blank \in Item /\ Nothing \in Store /\ NoSearch \in Search
<1>1. Blank \in Item
  BY DEF Blank, Item, CandStates
<1>2. NoSearch \in Search
  BY DEF NoSearch, Search
<1>3. QED
  BY <1>1, <1>2 DEF Nothing, Store

LEMMA ExitTypes ==
  ASSUME TypeOK, NEW p \in Commands, Exit(p)
  PROVE  RunTypes'
<1> USE DEF Exit, Goto
<1>1. mem' \in [Commands -> Store] /\ search' \in [Commands -> Search]
  BY BlankTypes DEF TypeOK
<1>2. /\ held' \in [Commands -> {Null} \cup Verdicts]
      /\ print' \in [Commands -> {Null} \cup Fingerprint]
      /\ loaded' \in [Commands -> SUBSET Finds]
      /\ force' \in [Commands -> BOOLEAN]
      /\ answer' \in [Commands -> Answers]
  BY DEF TypeOK, Answers
<1>3. \A q \in Commands : Applying(q)' => held'[q] \in Verdicts
  BY DEF TypeOK, Applying
<1>4. /\ pc' \in [Commands -> Labels] /\ cand' \in [Commands -> Cands]
      /\ clashed' \subseteq Commands /\ raced' \in BOOLEAN
  BY DEF TypeOK, Labels
<1>5. QED
  BY <1>1, <1>2, <1>3, <1>4 DEF RunTypes

(* A command starts, goes on or loads.                                     *)
LEMMA MoveTypes ==
  ASSUME TypeOK, NEW p \in Commands, NEW label \in Labels,
         pc' = [pc EXCEPT ![p] = label], cand' \in [Commands -> Cands]
  PROVE  /\ pc' \in [Commands -> Labels] /\ cand' \in [Commands -> Cands]
         /\ UNCHANGED held /\ label \notin {"approving", "deferring"} =>
               \A q \in Commands : Applying(q)' => held'[q] \in Verdicts
BY DEF TypeOK, Labels, Applying

LEMMA BeginTypes ==
  ASSUME TypeOK, NEW p \in Commands, NEW c \in Cands, NEW label \in Labels,
         Begin(p, c, label)
  PROVE  /\ pc' = [pc EXCEPT ![p] = label] /\ cand' \in [Commands -> Cands]
         /\ commands' \in 0..MaxCommands
         /\ UNCHANGED <<drifts, outages, crashes>>
<1>1. commands' \in 0..MaxCommands
  BY BoundsAssumption, CountTypes DEF Begin, TypeOK
<1>2. QED
  BY <1>1 DEF Begin, TypeOK

LEMMA LoadTypes ==
  ASSUME TypeOK, NEW p \in Commands, NEW c \in Cands, NEW item \in Item,
         mem' = [mem EXCEPT ![p] = [store EXCEPT ![c] = item]],
         clashed' = IF Savers(p) = {} THEN clashed ELSE clashed \cup Savers(p) \cup {p},
         raced' = (raced \/ Savers(p) # {})
  PROVE  mem' \in [Commands -> Store] /\ clashed' \subseteq Commands /\ raced' \in BOOLEAN
BY DEF TypeOK, Store, Savers

(* The fingerprint of the claims of a verdict file is a fingerprint.       *)
LEMMA FingerprintTypes ==
  ASSUME TypeOK, NEW v \in Verdicts, v.paths # Null
  PROVE  /\ FingerprintOf(v.paths) \in Fingerprint
         /\ DOMAIN FingerprintOf(v.paths) = v.paths
<1>1. v.paths \in SUBSET Claims
  BY VerdictsAssumption DEF Verdict
<1>2. FingerprintOf(v.paths) \in [v.paths -> Contents \cup {Missing}]
  BY <1>1 DEF FingerprintOf, TypeOK
<1>3. QED
  BY <1>1, <1>2 DEF Fingerprint, FingerprintOf

(* What a command makes of the item of a candidate.                        *)
LEMMA ItemTypes ==
  ASSUME TypeOK, NEW p \in Commands, NEW c \in Cands, NEW st \in CandStates
  PROVE  /\ [store[c] EXCEPT !.state = st] \in Item
         /\ Applying(p) => Judged(p, st) \in Item
         /\ Published(p) \in Item
<1>1. store[c] \in Item /\ cand[p] \in Cands /\ store[cand[p]] \in Item
  BY DEF TypeOK, Store
<1>2. [store[c] EXCEPT !.state = st] \in Item
  BY <1>1 DEF Item
<1>3. Judged(p, st) \in Item
  <2>1. held[p] \in {Null} \cup Verdicts /\ print[p] \in {Null} \cup Fingerprint
    BY DEF TypeOK
  <2>2. QED
    BY <1>1, <2>1 DEF Judged, Item
<1>4. Published(p) \in Item
  <2>1. "published" \in CandStates /\ (answer[p] = "number") \in BOOLEAN
    BY DEF CandStates
  <2>2. QED
    BY <1>1, <2>1 DEF Published, Item
<1>5. QED
  BY <1>2, <1>3, <1>4

(* What is left of the store when commands save at the same time.          *)
LEMMA MixtureTypes ==
  ASSUME TypeOK, NEW p \in Commands
  PROVE  Mixtures(p) \subseteq Store
<1>1. \A c \in Cands : Found(p, c) \subseteq Item
  BY BlankTypes DEF Found, Savers, TypeOK, Store
<1>2. \A s \in Mixtures(p) : s = [c \in Cands |-> s[c]] /\ \A c \in Cands : s[c] \in Found(p, c)
  BY DEF Mixtures
<1>3. QED
  BY <1>1, <1>2 DEF Store

(* An issue that a command files is one of its candidate.                  *)
LEMMA NewIssueTypes ==
  ASSUME TypeOK, NEW p \in Commands, NEW a \in Answers
  PROVE  /\ NewIssue(p, a) \in Issue
         /\ Append(issues, NewIssue(p, a)) \in Seq(Issue)
<1>1. NewIssue(p, a) \in Issue
  BY DEF NewIssue, Issue, TypeOK
<1>2. QED
  BY <1>1, AppendProperties DEF TypeOK

(* Closing an issue changes nothing else about it.                         *)
LEMMA ClosedIssues ==
  ASSUME TypeOK, NEW i \in 1..Len(issues), CloseIssue(i)
  PROVE  /\ issues' \in Seq(Issue)
         /\ Len(issues') = Len(issues)
         /\ \A j \in 1..Len(issues) :
               /\ issues'[j].cand = issues[j].cand
               /\ issues'[j].finds = issues[j].finds
               /\ issues'[j].forced = issues[j].forced
               /\ issues'[j].search = issues[j].search
<1> DEFINE e == [issues[i] EXCEPT !.open = FALSE]
<1>1. issues[i] \in Issue
  BY DEF TypeOK
<1>2. /\ e \in Issue
      /\ e.cand = issues[i].cand /\ e.finds = issues[i].finds
      /\ e.forced = issues[i].forced /\ e.search = issues[i].search
  BY <1>1 DEF Issue
<1>3. issues' = [issues EXCEPT ![i] = e]
  BY DEF CloseIssue
<1>4. issues \in Seq(Issue)
  BY DEF TypeOK
<1> HIDE DEF e
<1>5. /\ [issues EXCEPT ![i] = e] \in Seq(Issue)
      /\ Len([issues EXCEPT ![i] = e]) = Len(issues)
      /\ \A j \in 1..Len(issues) :
            [issues EXCEPT ![i] = e][j] = IF j = i THEN e ELSE issues[j]
  BY <1>2, <1>4, ExceptSeq
<1>6. QED
  BY <1>2, <1>3, <1>5

(* No step, of any number of commands at a time, leaves the types.         *)
LEMMA CandTypeStep == TypeOK /\ [Next]_vars => TypeOK'
<1> SUFFICES ASSUME TypeOK, [Next]_vars PROVE TypeOK'
  OBVIOUS
<1>0. ASSUME RunTypes', code' \in [Claims -> Contents \cup {Missing}],
             onDisk' \subseteq Finds, store' \in Store, issues' \in Seq(Issue),
             gate' \in [Cands -> {"none", "pass", "fail"}],
             commands' \in 0..MaxCommands, drifts' \in 0..MaxDrifts,
             outages' \in 0..MaxOutages, crashes' \in 0..MaxCrashes
      PROVE  TypeOK'
  BY <1>0 DEF RunTypes, TypeOK, Labels, Applying
<1> DEFINE Still == UNCHANGED <<code, onDisk, store, issues, gate, commands, drifts,
                                outages, crashes>>
<1>a. ASSUME RunTypes', Still PROVE TypeOK'
  BY <1>0, <1>a DEF TypeOK
<1>1. CASE UNCHANGED vars
  BY <1>1, <1>a, RunsStay DEF vars, counters
<1>2. ASSUME NEW q \in Claims, Drift(q) PROVE TypeOK'
  <2>1. drifts' \in 0..MaxDrifts
    BY <1>2, BoundsAssumption, CountTypes DEF Drift, TypeOK
  <2>2. code' \in [Claims -> Contents \cup {Missing}]
    BY <1>2 DEF Drift, TypeOK
  <2>3. QED
    BY <1>0, <1>2, <2>1, <2>2, RunsStay DEF Drift, TypeOK
<1>3. ASSUME NEW f \in Finds, Retract(f) PROVE TypeOK'
  <2>1. drifts' \in 0..MaxDrifts
    BY <1>3, BoundsAssumption, CountTypes DEF Retract, TypeOK
  <2>2. QED
    BY <1>0, <1>3, <2>1, RunsStay DEF Retract, TypeOK
<1>4. ASSUME NEW i \in 1..Len(issues), CloseIssue(i) PROVE TypeOK'
  <2>1. issues' \in Seq(Issue)
    BY <1>4, ClosedIssues
  <2>2. QED
    BY <1>0, <1>4, <2>1, RunsStay DEF CloseIssue, TypeOK, counters
<1> SUFFICES ASSUME NEW p \in Commands, Start(p) \/ Step(p) \/ Crash(p)
             PROVE  TypeOK'
  BY <1>1, <1>2, <1>3, <1>4 DEF Next, World
<1> DEFINE Kept == UNCHANGED <<code, onDisk, store, issues, drifts, outages, crashes>>
<1>b. ASSUME RunTypes', Kept, commands' \in 0..MaxCommands,
             gate' \in [Cands -> {"none", "pass", "fail"}]
      PROVE  TypeOK'
  BY <1>0, <1>b DEF TypeOK
<1>5. ASSUME NEW c \in Cands, NEW v \in Verdicts, ReadVerdict(p, c, v) PROVE TypeOK'
  <2>1. PICK label \in {"approving", "deferring"} : Begin(p, c, label)
    BY <1>5 DEF ReadVerdict
  <2>2. /\ pc' = [pc EXCEPT ![p] = label] /\ cand' \in [Commands -> Cands]
        /\ commands' \in 0..MaxCommands /\ UNCHANGED <<drifts, outages, crashes>>
    BY <2>1, BeginTypes DEF Labels
  <2>3. pc' \in [Commands -> Labels] /\ held' \in [Commands -> {Null} \cup Verdicts]
    BY <1>5, <2>2 DEF ReadVerdict, TypeOK, Labels
  <2>4. \A q \in Commands : Applying(q)' => held'[q] \in Verdicts
    BY <1>5, <2>2 DEF ReadVerdict, TypeOK, Applying
  <2>5. RunTypes'
    BY <1>5, <2>2, <2>3, <2>4 DEF ReadVerdict, TypeOK, RunTypes
  <2>6. QED
    BY <1>5, <1>b, <2>2, <2>5 DEF ReadVerdict, TypeOK
<1>6. ASSUME NEW c \in Cands, NEW b \in BOOLEAN, DrafterGate(p, c, b) PROVE TypeOK'
  <2>1. PICK label \in {"idle", "demoting"} : Begin(p, c, label)
    BY <1>6 DEF DrafterGate
  <2>2. /\ gate' \in [Cands -> {"none", "pass", "fail"}]
        /\ UNCHANGED <<code, onDisk, store, issues, locals, clashed, raced>>
    BY <1>6 DEF DrafterGate, TypeOK
  <2>3. /\ pc' = [pc EXCEPT ![p] = label] /\ cand' \in [Commands -> Cands]
        /\ commands' \in 0..MaxCommands /\ UNCHANGED <<drifts, outages, crashes>>
    BY <2>1, BeginTypes DEF Labels
  <2>4. RunTypes'
    BY <2>2, <2>3, MoveTypes DEF TypeOK, RunTypes, locals, Labels
  <2>5. QED
    BY <1>b, <2>2, <2>3, <2>4
<1>7. ASSUME NEW c \in Cands, NEW b \in BOOLEAN, StartPublish(p, c, b) PROVE TypeOK'
  <2>1. Whitelist(c) \subseteq Finds
    BY DEF Whitelist, TypeOK
  <2>2. /\ pc' = [pc EXCEPT ![p] = "checking"] /\ cand' \in [Commands -> Cands]
        /\ commands' \in 0..MaxCommands /\ UNCHANGED <<drifts, outages, crashes>>
    BY <1>7, BeginTypes DEF StartPublish, Labels
  <2>3. RunTypes'
    BY <1>7, <2>1, <2>2, MoveTypes DEF StartPublish, TypeOK, RunTypes, Labels
  <2>4. QED
    BY <1>7, <1>b, <2>2, <2>3 DEF StartPublish, TypeOK
<1>8. ASSUME NEW c \in Cands, RecordProof(p, c) PROVE TypeOK'
  <2>1. /\ pc' = [pc EXCEPT ![p] = "saving"] /\ cand' \in [Commands -> Cands]
        /\ commands' \in 0..MaxCommands /\ UNCHANGED <<drifts, outages, crashes>>
    BY <1>8, BeginTypes DEF RecordProof, Labels
  <2>2. [store[c] EXCEPT !.state = "proof-pre"] \in Item
    BY ItemTypes DEF CandStates
  <2>3. mem' \in [Commands -> Store] /\ clashed' \subseteq Commands /\ raced' \in BOOLEAN
    BY <1>8, <2>2, LoadTypes DEF RecordProof, Load
  <2>4. RunTypes'
    BY <1>8, <2>1, <2>3, MoveTypes DEF RecordProof, Load, TypeOK, RunTypes, Labels
  <2>5. QED
    BY <1>8, <1>b, <2>1, <2>4 DEF RecordProof, TypeOK
<1>9. CASE TakeFingerprint(p)
  <2>1. held[p] \in Verdicts
    BY <1>9 DEF TakeFingerprint, TypeOK, Applying
  <2>2. FingerprintOf(held[p].paths) \in Fingerprint
    BY <1>9, <2>1, FingerprintTypes DEF TakeFingerprint
  <2>3. print' \in [Commands -> {Null} \cup Fingerprint]
    BY <1>9, <2>2 DEF TakeFingerprint, TypeOK
  <2>4. RunTypes'
    BY <1>9, <2>3 DEF TakeFingerprint, TypeOK, RunTypes, Applying, Labels
  <2>5. QED
    BY <1>9, <1>a, <2>4 DEF TakeFingerprint, counters
<1>10. CASE NothingToFingerprint(p) \/ StopPublish(p) \/ LoadFails(p)
  BY <1>10, <1>a, ExitTypes DEF NothingToFingerprint, StopPublish, LoadFails, counters
<1>11. CASE ApplyVerdict(p)
  <2>1. Applying(p) /\ cand[p] \in Cands
    BY <1>11 DEF ApplyVerdict, Applying, TypeOK
  <2>2. PICK st \in {"gatekeeper-approved", "needs-human-review"} :
           Load(p, cand[p], Judged(p, st))
    BY <1>11 DEF ApplyVerdict
  <2>3. Judged(p, st) \in Item
    BY <2>1, ItemTypes DEF CandStates
  <2>4. mem' \in [Commands -> Store] /\ clashed' \subseteq Commands /\ raced' \in BOOLEAN
    BY <2>1, <2>2, <2>3, LoadTypes DEF Load
  <2>5. RunTypes'
    BY <1>11, <2>2, <2>4, MoveTypes DEF ApplyVerdict, Goto, Load, TypeOK, RunTypes, Labels
  <2>6. QED
    BY <1>11, <1>a, <2>5 DEF ApplyVerdict, counters
<1>12. CASE Demote(p) \/ RecordIssue(p)
  <2>1. cand[p] \in Cands
    BY DEF TypeOK
  <2>2. PICK item \in Item : Load(p, cand[p], item)
    BY <1>12, <2>1, ItemTypes DEF Demote, RecordIssue, CandStates
  <2>3. mem' \in [Commands -> Store] /\ clashed' \subseteq Commands /\ raced' \in BOOLEAN
    BY <2>1, <2>2, LoadTypes DEF Load
  <2>4. RunTypes'
    BY <1>12, <2>2, <2>3, MoveTypes
       DEF Demote, RecordIssue, Goto, Load, TypeOK, RunTypes, Labels
  <2>5. QED
    BY <1>12, <1>a, <2>4 DEF Demote, RecordIssue, counters
<1>13. CASE Save(p)
  BY <1>0, <1>13, ExitTypes DEF Save, TypeOK, counters
<1>14. CASE SaveClashes(p)
  BY <1>0, <1>14, ExitTypes, MixtureTypes DEF SaveClashes, TypeOK, counters
<1>15. CASE CheckState(p)
  <2>1. RunTypes'
    BY <1>15, MoveTypes DEF CheckState, Goto, TypeOK, RunTypes, Labels, locals
  <2>2. QED
    BY <1>15, <1>a, <2>1 DEF CheckState, counters
<1>16. CASE SearchIssues(p)
  <2>1. PICK failed \in SUBSET loaded[p] :
          /\ failed # {} => outages < MaxOutages
          /\ outages' = IF failed = {} THEN outages ELSE outages + 1
          /\ Exit(p) \/ Searched(p, failed)
    BY <1>16 DEF SearchIssues
  <2>2. outages' \in 0..MaxOutages
    BY <2>1, BoundsAssumption, CountTypes DEF TypeOK
  <2>3. ASSUME Searched(p, failed) PROVE RunTypes'
    <3>1. Len(issues) \in Nat /\ failed \subseteq Finds
      BY LenProperties DEF TypeOK
    <3>2. [seen |-> Len(issues), blind |-> failed] \in Search
      BY <3>1 DEF Search
    <3>3. search' \in [Commands -> Search]
      BY <2>3, <3>2 DEF Searched, TypeOK
    <3>4. QED
      BY <2>3, <3>3, MoveTypes DEF Searched, Goto, TypeOK, RunTypes, Labels
  <2>4. RunTypes'
    BY <2>1, <2>3, ExitTypes
  <2>5. QED
    BY <1>0, <1>16, <2>2, <2>4 DEF SearchIssues, TypeOK
<1>17. ASSUME NEW a \in {"number", "url"}, CreateIssue(p, a) PROVE TypeOK'
  <2>1. outages' \in 0..MaxOutages
    BY <1>17, BoundsAssumption, CountTypes DEF CreateIssue, TypeOK
  <2>2. issues' \in Seq(Issue)
    BY <1>17, NewIssueTypes DEF CreateIssue, Answers
  <2>3. answer' \in [Commands -> Answers]
    BY <1>17 DEF CreateIssue, TypeOK, Answers
  <2>4. RunTypes'
    BY <1>17, <2>3, MoveTypes DEF CreateIssue, Goto, TypeOK, RunTypes, Labels
  <2>5. QED
    BY <1>0, <1>17, <2>1, <2>2, <2>4 DEF CreateIssue, TypeOK
<1>18. CASE CreateFails(p)
  <2>1. outages' \in 0..MaxOutages
    BY <1>18, BoundsAssumption, CountTypes DEF CreateFails, TypeOK
  <2>2. issues' \in Seq(Issue)
    BY <1>18, NewIssueTypes DEF CreateFails, TypeOK, Answers
  <2>3. QED
    BY <1>0, <1>18, <2>1, <2>2, ExitTypes DEF CreateFails, TypeOK
<1>19. CASE Crash(p)
  <2>1. crashes' \in 0..MaxCrashes
    BY <1>19, BoundsAssumption, CountTypes DEF Crash, TypeOK
  <2>2. store' \in Store
    BY <1>19, MixtureTypes DEF Crash, TypeOK
  <2>3. QED
    BY <1>0, <1>19, <2>1, <2>2, ExitTypes DEF Crash, TypeOK
<1>20. QED
  BY <1>5, <1>6, <1>7, <1>8, <1>9, <1>10, <1>11, <1>12, <1>13, <1>14, <1>15,
     <1>16, <1>17, <1>18, <1>19 DEF Start, Step

LEMMA CandTypeInit == Init => TypeOK
<1> SUFFICES ASSUME Init PROVE TypeOK
  OBVIOUS
<1>1. issues \in Seq(Issue)
  BY DEF Init
<1>2. mem \in [Commands -> Store] /\ search \in [Commands -> Search]
  BY BlankTypes DEF Init
<1>3. store \in Store
  <2>1. [Blank EXCEPT !.state = "pending"] \in Item
    BY BlankTypes DEF Item, CandStates
  <2>2. QED
    BY <2>1, BlankTypes DEF Init, Store
<1>4. RunTypes
  <2>1. "idle" \in Labels /\ "lost" \in Answers
    BY DEF Labels, Answers
  <2>2. \A p \in Commands : ~Applying(p)
    BY DEF Init, Applying
  <2>3. QED
    BY <1>2, <2>1, <2>2 DEF Init, RunTypes
<1>5. /\ code \in [Claims -> Contents \cup {Missing}] /\ onDisk \subseteq Finds
      /\ gate \in [Cands -> {"none", "pass", "fail"}]
      /\ commands \in 0..MaxCommands /\ drifts \in 0..MaxDrifts
      /\ outages \in 0..MaxOutages /\ crashes \in 0..MaxCrashes
  BY BoundsAssumption DEF Init
<1>6. QED
  BY <1>1, <1>3, <1>4, <1>5 DEF RunTypes, TypeOK, Labels

(* Every variable keeps its type, however the commands interleave.         *)
THEOREM CandTypeCorrect == Spec => []TypeOK
<1>1. QED
  BY CandTypeInit, CandTypeStep, PTL DEF Spec

-----------------------------------------------------------------------------
(* What holds of every item of the store, of those that commands are about *)
(* to save and of an item that is not there, holds of every item that a    *)
(* save or a kill leaves, whatever saves at the same time.                 *)
LEMMA SavedFrom ==
  ASSUME TypeOK, NEW G, NEW p \in Commands,
         \A c \in Cands : Blank \in G[c] /\ store[c] \in G[c],
         \A q \in Commands, c \in Cands : mem[q][c] \in G[c],
         store' \in Mixtures(p) \cup {mem[p], store}
  PROVE  \A c \in Cands : store'[c] \in G[c]
<1>1. ASSUME NEW c \in Cands PROVE Found(p, c) \subseteq G[c]
  BY <1>1 DEF Found, Savers
<1>2. ASSUME store' \in Mixtures(p), NEW c \in Cands PROVE store'[c] \in G[c]
  BY <1>1, <1>2 DEF Mixtures
<1>3. QED
  BY <1>2

LEMMA ForgottenFrom ==
  ASSUME TypeOK, NEW G, NEW p \in Commands,
         \A c \in Cands : Blank \in G[c],
         \A q \in Commands, c \in Cands : mem[q][c] \in G[c],
         Exit(p)
  PROVE  \A q \in Commands, c \in Cands : mem'[q][c] \in G[c]
<1>1. mem' = [mem EXCEPT ![p] = Nothing]
  BY DEF Exit
<1>2. \A c \in Cands : Nothing[c] = Blank
  BY DEF Nothing
<1>3. QED
  BY <1>1, <1>2 DEF TypeOK

LEMMA LoadedFrom ==
  ASSUME TypeOK, NEW G, NEW p \in Commands, NEW c \in Cands, NEW item \in G[c],
         \A d \in Cands : store[d] \in G[d],
         \A q \in Commands, d \in Cands : mem[q][d] \in G[d],
         mem' = [mem EXCEPT ![p] = [store EXCEPT ![c] = item]]
  PROVE  \A q \in Commands, d \in Cands : mem'[q][d] \in G[d]
<1>1. store \in [Cands -> Item]
  BY DEF TypeOK, Store
<1>2. \A d \in Cands : [store EXCEPT ![c] = item][d] \in G[d]
  BY <1>1
<1>3. QED
  BY <1>2 DEF TypeOK

-----------------------------------------------------------------------------
(* The verdict that cmd_apply holds is as grounded as the approval that it *)
(* is about to record, and so is the fingerprint.                          *)
ApprovedFor(v, c) ==
    /\ SchemaOK(v)
    /\ v.verdict = "approve" /\ v.confidence = "high"
    /\ v.paths \subseteq FindsOf[c]

HeldInv ==
    \A p \in Commands :
        /\ pc[p] = "approving" => ApprovedFor(held[p], cand[p])
        /\ Applying(p) /\ print[p] # Null => DOMAIN print[p] = held[p].paths
        /\ pc[p] = "idle" => print[p] = Null

(* The items that a candidate may have: those that are approved only with  *)
(* their grounds.                                                          *)
GroundedItem(x, c) ==
    x.state = "gatekeeper-approved" =>
        /\ x.gatekeeper # Null /\ x.stored # Null
        /\ ApprovedFor(x.gatekeeper, c)
        /\ DOMAIN x.stored = x.gatekeeper.paths

GroundedItems == [c \in Cands |-> {x \in Item : GroundedItem(x, c)}]

ItemsInv ==
    /\ \A c \in Cands : store[c] \in GroundedItems[c]
    /\ \A p \in Commands, c \in Cands : mem[p][c] \in GroundedItems[c]

(* A command other than apply neither holds a verdict nor records one.     *)
LEMMA HeldExit ==
  ASSUME TypeOK, HeldInv, NEW p \in Commands, Exit(p)
  PROVE  HeldInv'
BY DEF TypeOK, HeldInv, Exit, Goto, Applying

LEMMA HeldMove ==
  ASSUME TypeOK, HeldInv, NEW p \in Commands,
         NEW label \in {"demoting", "checking", "searching", "creating",
                        "recording", "saving"},
         pc' = [pc EXCEPT ![p] = label],
         \/ cand' = cand
         \/ \E c \in Cands : cand' = [cand EXCEPT ![p] = c],
         UNCHANGED <<held, print>>
  PROVE  HeldInv'
BY DEF TypeOK, HeldInv, Applying

LEMMA HeldSame ==
  ASSUME HeldInv, UNCHANGED running
  PROVE  HeldInv'
BY DEF HeldInv, running, locals, Applying

LEMMA BlankIsGrounded == \A c \in Cands : Blank \in GroundedItems[c]
BY BlankTypes DEF GroundedItems, GroundedItem, Blank

LEMMA ItemsSame ==
  ASSUME ItemsInv, UNCHANGED <<store, mem>>
  PROVE  ItemsInv'
BY DEF ItemsInv, GroundedItems

LEMMA ItemsLeft ==
  ASSUME TypeOK, ItemsInv, NEW p \in Commands, Exit(p),
         store' \in Mixtures(p) \cup {mem[p], store}
  PROVE  ItemsInv'
<1> DEFINE G == GroundedItems
<1>1. G' = G
  BY DEF GroundedItems
<1>2. /\ \A c \in Cands : Blank \in G[c] /\ store[c] \in G[c]
      /\ \A q \in Commands, c \in Cands : mem[q][c] \in G[c]
  BY BlankIsGrounded DEF ItemsInv
<1> HIDE DEF G
<1>3. \A c \in Cands : store'[c] \in G[c]
  BY <1>2, SavedFrom
<1>4. \A q \in Commands, c \in Cands : mem'[q][c] \in G[c]
  BY <1>2, ForgottenFrom
<1>5. QED
  BY <1>1, <1>3, <1>4 DEF ItemsInv, G

LEMMA ItemsLoaded ==
  ASSUME TypeOK, ItemsInv, NEW p \in Commands, NEW c \in Cands,
         NEW item \in GroundedItems[c],
         mem' = [mem EXCEPT ![p] = [store EXCEPT ![c] = item]], UNCHANGED store
  PROVE  ItemsInv'
<1> DEFINE G == GroundedItems
<1>1. G' = G
  BY DEF GroundedItems
<1>2. /\ \A d \in Cands : store[d] \in G[d]
      /\ \A q \in Commands, d \in Cands : mem[q][d] \in G[d]
      /\ item \in G[c]
  BY DEF ItemsInv
<1> HIDE DEF G
<1>3. \A q \in Commands, d \in Cands : mem'[q][d] \in G[d]
  BY <1>2, LoadedFrom
<1>4. QED
  BY <1>1, <1>2, <1>3 DEF ItemsInv, G

(* A transition to another state needs no grounds.                         *)
LEMMA OtherStates ==
  ASSUME TypeOK, NEW p \in Commands, NEW c \in Cands,
         NEW st \in CandStates \ {"gatekeeper-approved"}
  PROVE  /\ [store[c] EXCEPT !.state = st] \in GroundedItems[c]
         /\ Applying(p) => Judged(p, st) \in GroundedItems[cand[p]]
         /\ Published(p) \in GroundedItems[cand[p]]
<1>1. store[c] \in Item /\ cand[p] \in Cands /\ store[cand[p]] \in Item
  BY DEF TypeOK, Store
<1>2. [store[c] EXCEPT !.state = st].state = st
  BY <1>1 DEF Item
<1>3. Judged(p, st).state = st
  BY <1>1 DEF Item, Judged
<1>4. Published(p).state = "published"
  BY <1>1 DEF Item, Published
<1>5. QED
  BY <1>1, <1>2, <1>3, <1>4, ItemTypes DEF GroundedItems, GroundedItem

LEMMA ApprovalStep ==
  TypeOK /\ HeldInv /\ ItemsInv /\ [Next]_vars => HeldInv' /\ ItemsInv'
<1> SUFFICES ASSUME TypeOK, HeldInv, ItemsInv, [Next]_vars
             PROVE  HeldInv' /\ ItemsInv'
  OBVIOUS
<1>1. CASE UNCHANGED vars
  BY <1>1, HeldSame, ItemsSame DEF vars, running, locals
<1>2. CASE World
  BY <1>2, HeldSame, ItemsSame DEF World, Drift, Retract, CloseIssue, running, locals
<1> SUFFICES ASSUME NEW p \in Commands, Start(p) \/ Step(p) \/ Crash(p)
             PROVE  HeldInv' /\ ItemsInv'
  BY <1>1, <1>2 DEF Next
<1>c. cand[p] \in Cands
  BY DEF TypeOK
<1>3. ASSUME NEW c \in Cands, NEW v \in Verdicts, ReadVerdict(p, c, v)
      PROVE  HeldInv' /\ ItemsInv'
  <2>1. Approves(v, c) => ApprovedFor(v, c)
    BY DEF Approves, ApprovedFor, Grounded, Whitelist
  <2>2. /\ pc' = [pc EXCEPT ![p] = IF Approves(v, c) THEN "approving" ELSE "deferring"]
        /\ cand' = [cand EXCEPT ![p] = c]
        /\ held' = [held EXCEPT ![p] = v]
        /\ print' = print
        /\ pc[p] = "idle"
    BY <1>3 DEF ReadVerdict, Begin
  <2>3. print[p] = Null
    BY <2>2 DEF HeldInv
  <2>4. HeldInv'
    BY <2>1, <2>2, <2>3 DEF TypeOK, HeldInv, Applying
  <2>5. QED
    BY <1>3, <2>4, ItemsSame DEF ReadVerdict
<1>4. ASSUME NEW c \in Cands, NEW b \in BOOLEAN, DrafterGate(p, c, b)
      PROVE  HeldInv' /\ ItemsInv'
  <2>1. PICK label \in {"idle", "demoting"} : Begin(p, c, label)
    BY <1>4 DEF DrafterGate
  <2>2. UNCHANGED <<store, held, print, mem>>
    BY <1>4 DEF DrafterGate, locals
  <2>3. HeldInv'
    <3>1. CASE label = "idle"
      BY <2>1, <2>2, <3>1 DEF Begin, TypeOK, HeldInv, Applying
    <3>2. QED
      BY <2>1, <2>2, <3>1, HeldMove DEF Begin
  <2>4. QED
    BY <2>2, <2>3, ItemsSame
<1>5. ASSUME NEW c \in Cands, NEW b \in BOOLEAN, StartPublish(p, c, b)
      PROVE  HeldInv' /\ ItemsInv'
  BY <1>5, HeldMove, ItemsSame DEF StartPublish, Begin
<1>6. ASSUME NEW c \in Cands, RecordProof(p, c)
      PROVE  HeldInv' /\ ItemsInv'
  <2>1. HeldInv'
    BY <1>6, HeldMove DEF RecordProof, Begin, Load
  <2>2. [store[c] EXCEPT !.state = "proof-pre"] \in GroundedItems[c]
    BY OtherStates DEF CandStates
  <2>3. QED
    BY <1>6, <2>1, <2>2, ItemsLoaded DEF RecordProof, Load
<1>7. CASE TakeFingerprint(p)
  <2>1. held[p] \in Verdicts /\ Applying(p)
    BY <1>7 DEF TakeFingerprint, TypeOK, Applying
  <2>2. DOMAIN FingerprintOf(held[p].paths) = held[p].paths
    BY <1>7, <2>1, FingerprintTypes DEF TakeFingerprint
  <2>3. HeldInv'
    BY <1>7, <2>1, <2>2 DEF TakeFingerprint, HeldInv, TypeOK, Applying
  <2>4. QED
    BY <1>7, <2>3, ItemsSame DEF TakeFingerprint
<1>8. CASE ApplyVerdict(p)
  <2>1. HeldInv'
    BY <1>8, HeldMove DEF ApplyVerdict, Goto, Load
  <2>2. held[p] \in Verdicts /\ held[p] # Null /\ Applying(p) /\ print[p] # Null
    BY <1>8, NullAssumption DEF ApplyVerdict, TypeOK, Applying
  <2>3. /\ DOMAIN print[p] = held[p].paths
        /\ pc[p] = "approving" => ApprovedFor(held[p], cand[p])
    BY <2>2 DEF HeldInv
  <2>4. CASE pc[p] = "approving"
    <3> DEFINE item == Judged(p, "gatekeeper-approved")
    <3>1. mem' = [mem EXCEPT ![p] = [store EXCEPT ![cand[p]] = item]] /\ store' = store
      BY <1>8, <2>4 DEF ApplyVerdict, Load
    <3>2. store[cand[p]] \in Item
      BY <1>c DEF TypeOK, Store
    <3>3. item.gatekeeper = held[p] /\ item.stored = print[p]
      BY <3>2 DEF Judged, Item
    <3>4. item \in Item
      BY <2>2, <1>c, ItemTypes DEF CandStates
    <3>5. GroundedItem(item, cand[p])
      BY <2>2, <2>3, <2>4, <3>3 DEF GroundedItem
    <3>6. item \in GroundedItems[cand[p]]
      BY <1>c, <3>4, <3>5 DEF GroundedItems
    <3> HIDE DEF item
    <3>7. QED
      BY <1>c, <2>1, <3>1, <3>6, ItemsLoaded
  <2>5. CASE pc[p] # "approving"
    <3> DEFINE item == Judged(p, "needs-human-review")
    <3>1. mem' = [mem EXCEPT ![p] = [store EXCEPT ![cand[p]] = item]] /\ store' = store
      BY <1>8, <2>5 DEF ApplyVerdict, Load
    <3>2. item \in GroundedItems[cand[p]]
      BY <1>c, <2>2, OtherStates DEF CandStates
    <3> HIDE DEF item
    <3>3. QED
      BY <1>c, <2>1, <3>1, <3>2, ItemsLoaded
  <2>6. QED
    BY <2>4, <2>5
<1>9. CASE Demote(p)
  <2>1. HeldInv'
    BY <1>9, HeldMove DEF Demote, Goto, Load
  <2>2. [store[cand[p]] EXCEPT !.state = "needs-human-review"] \in GroundedItems[cand[p]]
    BY <1>c, OtherStates DEF CandStates
  <2>3. QED
    BY <1>9, <1>c, <2>1, <2>2, ItemsLoaded DEF Demote, Load
<1>10. CASE RecordIssue(p)
  <2>1. HeldInv'
    BY <1>10, HeldMove DEF RecordIssue, Goto, Load
  <2> DEFINE item == Published(p)
  <2>2. mem' = [mem EXCEPT ![p] = [store EXCEPT ![cand[p]] = item]] /\ store' = store
    BY <1>10 DEF RecordIssue, Load
  <2>3. item \in GroundedItems[cand[p]]
    <3>1. "published" \in CandStates \ {"gatekeeper-approved"}
      BY DEF CandStates
    <3>2. QED
      BY <1>c, <3>1, OtherStates
  <2> HIDE DEF item
  <2>4. QED
    BY <1>c, <2>1, <2>2, <2>3, ItemsLoaded
<1>11. CASE NothingToFingerprint(p) \/ StopPublish(p) \/ CreateFails(p) \/ Crash(p)
            \/ LoadFails(p) \/ Save(p) \/ SaveClashes(p)
  <2>1. Exit(p) /\ store' \in Mixtures(p) \cup {mem[p], store}
    BY <1>11 DEF NothingToFingerprint, StopPublish, CreateFails, Crash, LoadFails,
                 Save, SaveClashes
  <2>2. QED
    BY <2>1, HeldExit, ItemsLeft
<1>12. CASE CheckState(p) \/ SearchIssues(p) \/ \E a \in {"number", "url"} : CreateIssue(p, a)
  <2>1. Exit(p) \/ \E label \in {"searching", "creating", "recording"} :
           /\ Goto(p, label)
           /\ UNCHANGED <<held, print, mem>>
    BY <1>12 DEF CheckState, SearchIssues, Searched, CreateIssue, locals
  <2>2. store' = store
    BY <1>12 DEF CheckState, SearchIssues, CreateIssue
  <2>3. CASE Exit(p)
    BY <2>2, <2>3, HeldExit, ItemsLeft
  <2>4. CASE ~Exit(p)
    BY <2>1, <2>2, <2>4, HeldMove, ItemsSame DEF Goto
  <2>5. QED
    BY <2>3, <2>4
<1>13. QED
  BY <1>3, <1>4, <1>5, <1>6, <1>7, <1>8, <1>9, <1>10, <1>11, <1>12 DEF Start, Step

(* A candidate is approved only with an approving verdict about its own    *)
(* findings and the fingerprint of just its claims, whatever commands race *)
(* to re-apply, demote, prove or publish it, whatever their saves make of  *)
(* the store, and wherever they are killed.                                *)
THEOREM ApprovalsAreGrounded == Spec => []ApprovalIsGrounded
<1>1. Init => HeldInv /\ ItemsInv
  <2> SUFFICES ASSUME Init PROVE HeldInv /\ ItemsInv
    OBVIOUS
  <2>1. HeldInv
    BY DEF Init, HeldInv, Applying
  <2>2. \A c \in Cands : [Blank EXCEPT !.state = "pending"] \in GroundedItems[c]
    <3>1. /\ [Blank EXCEPT !.state = "pending"] \in Item
          /\ [Blank EXCEPT !.state = "pending"].state = "pending"
      BY BlankTypes DEF Item, CandStates
    <3>2. QED
      BY <3>1 DEF GroundedItems, GroundedItem
  <2>3. \A p \in Commands, c \in Cands : mem[p][c] = Blank
    BY DEF Init, Nothing
  <2>4. QED
    BY <2>1, <2>2, <2>3, BlankIsGrounded DEF Init, ItemsInv
<1>2. ItemsInv => ApprovalIsGrounded
  BY DEF ItemsInv, GroundedItems, GroundedItem, ApprovedFor, ApprovalIsGrounded
<1>3. QED
  BY <1>1, <1>2, CandTypeCorrect, ApprovalStep, PTL DEF Spec

-----------------------------------------------------------------------------
(* Filing an issue adds it behind the others.                              *)
LEMMA FiledIssues ==
  ASSUME TypeOK, NEW p \in Commands, NEW a \in Answers,
         issues' = Append(issues, NewIssue(p, a))
  PROVE  /\ Len(issues') = Len(issues) + 1
         /\ issues'[Len(issues) + 1] = NewIssue(p, a)
         /\ \A j \in 1..Len(issues) : issues'[j] = issues[j]
BY NewIssueTypes, AppendProperties DEF TypeOK

LEMMA LenTypes == ASSUME TypeOK PROVE Len(issues) \in Nat
BY LenProperties DEF TypeOK

(* Only a command that is about to file an issue adds one.                 *)
LEMMA IssuesChange ==
  ASSUME [Next]_vars
  PROVE  \/ issues' = issues
         \/ \E i \in 1..Len(issues) : CloseIssue(i)
         \/ \E p \in Commands, a \in Answers :
               /\ pc[p] = "creating" /\ issues' = Append(issues, NewIssue(p, a))
               /\ Goto(p, "recording") \/ Goto(p, "idle")
<1>1. CASE UNCHANGED vars
  BY <1>1 DEF vars
<1>2. CASE World
  BY <1>2 DEF World, Drift, Retract
<1> SUFFICES ASSUME NEW p \in Commands, Start(p) \/ Step(p) \/ Crash(p)
             PROVE  \/ issues' = issues
                    \/ \E a \in Answers :
                          /\ pc[p] = "creating" /\ issues' = Append(issues, NewIssue(p, a))
                          /\ Goto(p, "recording") \/ Goto(p, "idle")
  BY <1>1, <1>2 DEF Next
<1>3. CASE CreateFails(p) \/ \E a \in {"number", "url"} : CreateIssue(p, a)
  BY <1>3 DEF CreateFails, CreateIssue, Exit, Answers
<1>4. QED
  BY <1>3 DEF Start, Step, ReadVerdict, DrafterGate, StartPublish, RecordProof,
         TakeFingerprint, NothingToFingerprint, ApplyVerdict, Demote, StopPublish,
         CheckState, SearchIssues, RecordIssue, Save, SaveClashes, LoadFails, Crash

HasIssue(c) == \E i \in 1..Len(issues) : issues[i].cand = c

(* No candidate's issue is ever lost.                                      *)
LEMMA IssuesStay ==
  ASSUME TypeOK, [Next]_vars, NEW c \in Cands, HasIssue(c)
  PROVE  HasIssue(c)'
<1> USE DEF HasIssue
<1>0. Len(issues) \in Nat
  BY LenTypes
<1>1. CASE issues' = issues
  BY <1>1
<1>2. ASSUME NEW i \in 1..Len(issues), CloseIssue(i) PROVE HasIssue(c)'
  BY <1>2, ClosedIssues
<1>3. ASSUME NEW p \in Commands, NEW a \in Answers,
             issues' = Append(issues, NewIssue(p, a))
      PROVE  HasIssue(c)'
  BY <1>0, <1>3, FiledIssues
<1>4. QED
  BY <1>1, <1>2, <1>3, IssuesChange

(* The items that a candidate may have: those that are published, or have  *)
(* a number, only with an issue.                                           *)
IssuedItems ==
    [c \in Cands |-> {x \in Item : x.state = "published" \/ x.number => HasIssue(c)}]

(* What is in the store or about to be recorded has been filed.            *)
IssueInv ==
    /\ \A c \in Cands : store[c] \in IssuedItems[c]
    /\ \A p \in Commands, c \in Cands : mem[p][c] \in IssuedItems[c]
    /\ \A p \in Commands : pc[p] = "recording" => HasIssue(cand[p])

LEMMA BlankIsIssued == \A c \in Cands : Blank \in IssuedItems[c]
BY BlankTypes DEF IssuedItems, Blank

LEMMA IssuedStay ==
  ASSUME TypeOK, [Next]_vars, NEW c \in Cands
  PROVE  IssuedItems[c] \subseteq IssuedItems'[c]
BY IssuesStay DEF IssuedItems

LEMMA IssueStep == TypeOK /\ IssueInv /\ [Next]_vars => IssueInv'
<1> SUFFICES ASSUME TypeOK, IssueInv, [Next]_vars PROVE IssueInv'
  OBVIOUS
<1> DEFINE G == IssuedItems
<1>g. \A c \in Cands : /\ Blank \in G[c] /\ store[c] \in G[c]
                       /\ G[c] \subseteq IssuedItems'[c]
  BY BlankIsIssued, IssuedStay DEF IssueInv
<1>m. \A q \in Commands, c \in Cands : mem[q][c] \in G[c]
  BY DEF IssueInv
<1>i. \A c \in Cands, x \in Item :
         (x.state = "published" \/ x.number => HasIssue(c)) <=> x \in G[c]
  BY DEF IssuedItems
<1> HIDE DEF G
<1>1. ASSUME \A c \in Cands : store'[c] \in G[c],
             \A q \in Commands, c \in Cands : mem'[q][c] \in G[c],
             \A q \in Commands : pc'[q] = "recording" =>
                /\ cand'[q] = cand[q]
                /\ pc[q] = "recording" \/ HasIssue(cand[q])'
      PROVE  IssueInv'
  <2>1. \A q \in Commands : pc'[q] = "recording" => HasIssue(cand[q])'
    BY <1>1, IssuesStay DEF IssueInv, TypeOK
  <2>2. QED
    BY <1>1, <1>g, <2>1 DEF IssueInv, HasIssue
<1>2. CASE UNCHANGED vars
  BY <1>1, <1>2, <1>g, <1>m DEF vars, running, locals
<1>3. CASE World
  BY <1>1, <1>3, <1>g, <1>m DEF World, Drift, Retract, CloseIssue, running, locals
<1> SUFFICES ASSUME NEW p \in Commands, Start(p) \/ Step(p) \/ Crash(p)
             PROVE  IssueInv'
  BY <1>2, <1>3 DEF Next
<1>c. cand[p] \in Cands
  BY DEF TypeOK
<1>4. ASSUME NEW c \in Cands,
             NEW label \in {"idle", "approving", "deferring", "demoting", "checking"},
             Begin(p, c, label), UNCHANGED <<store, mem>>
      PROVE  IssueInv'
  BY <1>1, <1>4, <1>g, <1>m DEF Begin, TypeOK
<1>5. ASSUME NEW c \in Cands, NEW v \in Verdicts, ReadVerdict(p, c, v) PROVE IssueInv'
  BY <1>4, <1>5 DEF ReadVerdict
<1>6. ASSUME NEW c \in Cands, NEW b \in BOOLEAN, DrafterGate(p, c, b) PROVE IssueInv'
  BY <1>4, <1>6 DEF DrafterGate, locals
<1>7. ASSUME NEW c \in Cands, NEW b \in BOOLEAN, StartPublish(p, c, b) PROVE IssueInv'
  BY <1>4, <1>7 DEF StartPublish
<1>8. ASSUME NEW c \in Cands, NEW item \in G[c], store' = store,
             mem' = [mem EXCEPT ![p] = [store EXCEPT ![c] = item]],
             pc' = [pc EXCEPT ![p] = "saving"],
             \A q \in Commands \ {p} : cand'[q] = cand[q]
      PROVE  IssueInv'
  <2>1. \A q \in Commands, d \in Cands : mem'[q][d] \in G[d]
    BY <1>8, <1>g, <1>m, LoadedFrom
  <2>2. \A q \in Commands : pc'[q] = "recording" => q # p /\ pc[q] = "recording"
    BY <1>8 DEF TypeOK
  <2>3. QED
    BY <1>1, <1>8, <1>g, <2>1, <2>2
(* A transition that keeps the number and does not publish.                *)
<1>9. ASSUME NEW c \in Cands, NEW st \in CandStates \ {"published"}
      PROVE  /\ [store[c] EXCEPT !.state = st] \in G[c]
             /\ Applying(p) => Judged(p, st) \in G[cand[p]]
  <2>1. store[c] \in Item /\ store[cand[p]] \in Item
    BY <1>c DEF TypeOK, Store
  <2>2. /\ [store[c] EXCEPT !.state = st].state = st
        /\ [store[c] EXCEPT !.state = st].number = store[c].number
        /\ Judged(p, st).state = st /\ Judged(p, st).number = store[cand[p]].number
    BY <2>1 DEF Item, Judged
  <2>3. /\ store[c].number => HasIssue(c)
        /\ store[cand[p]].number => HasIssue(cand[p])
    BY <1>c, <1>g, <1>i, <2>1
  <2>4. QED
    BY <1>c, <1>i, <2>2, <2>3, ItemTypes
<1>10. ASSUME NEW c \in Cands, RecordProof(p, c) PROVE IssueInv'
  <2>1. [store[c] EXCEPT !.state = "proof-pre"] \in G[c]
    BY <1>9 DEF CandStates
  <2>2. \A q \in Commands \ {p} : cand'[q] = cand[q]
    BY <1>10 DEF RecordProof, Begin, TypeOK
  <2>3. QED
    BY <1>8, <1>10, <2>1, <2>2 DEF RecordProof, Begin, Load
<1>11. CASE TakeFingerprint(p)
  BY <1>1, <1>11, <1>g, <1>m DEF TakeFingerprint
<1>12. CASE ApplyVerdict(p)
  <2> DEFINE item == Judged(p, IF pc[p] = "approving" THEN "gatekeeper-approved"
                               ELSE "needs-human-review")
  <2>1. item \in G[cand[p]]
    <3>1. Applying(p)
      BY <1>12 DEF ApplyVerdict, Applying
    <3>2. {"gatekeeper-approved", "needs-human-review"} \subseteq CandStates \ {"published"}
      BY DEF CandStates
    <3>3. QED
      BY <1>9, <1>c, <3>1, <3>2
  <2>2. /\ mem' = [mem EXCEPT ![p] = [store EXCEPT ![cand[p]] = item]]
        /\ store' = store /\ pc' = [pc EXCEPT ![p] = "saving"] /\ cand' = cand
    BY <1>12 DEF ApplyVerdict, Load, Goto
  <2> HIDE DEF item
  <2>3. QED
    BY <1>8, <1>c, <2>1, <2>2
<1>13. CASE Demote(p)
  <2>1. [store[cand[p]] EXCEPT !.state = "needs-human-review"] \in G[cand[p]]
    BY <1>9, <1>c DEF CandStates
  <2>2. QED
    BY <1>8, <1>13, <1>c, <2>1 DEF Demote, Load, Goto
<1>14. CASE RecordIssue(p)
  <2> DEFINE item == Published(p)
  <2>1. HasIssue(cand[p]) /\ item \in Item
    BY <1>14, <1>c, ItemTypes DEF RecordIssue, IssueInv, CandStates
  <2>2. item \in G[cand[p]]
    BY <1>c, <1>i, <2>1
  <2>3. /\ mem' = [mem EXCEPT ![p] = [store EXCEPT ![cand[p]] = item]]
        /\ store' = store /\ pc' = [pc EXCEPT ![p] = "saving"] /\ cand' = cand
    BY <1>14 DEF RecordIssue, Load, Goto
  <2> HIDE DEF item
  <2>4. QED
    BY <1>8, <1>c, <2>2, <2>3
<1>15. ASSUME Exit(p), store' \in Mixtures(p) \cup {mem[p], store} PROVE IssueInv'
  <2>1. \A c \in Cands : store'[c] \in G[c]
    BY <1>15, <1>g, <1>m, SavedFrom
  <2>2. \A q \in Commands, c \in Cands : mem'[q][c] \in G[c]
    BY <1>15, <1>g, <1>m, ForgottenFrom
  <2>3. QED
    BY <1>1, <1>15, <2>1, <2>2 DEF Exit, Goto, TypeOK
<1>16. CASE NothingToFingerprint(p) \/ StopPublish(p) \/ CreateFails(p) \/ Crash(p)
            \/ LoadFails(p) \/ Save(p) \/ SaveClashes(p)
  BY <1>15, <1>16 DEF NothingToFingerprint, StopPublish, CreateFails, Crash, LoadFails,
                      Save, SaveClashes
<1>17. CASE CheckState(p) \/ SearchIssues(p)
  <2>1. \/ Exit(p)
        \/ (Goto(p, "searching") \/ Goto(p, "creating")) /\ UNCHANGED mem
    BY <1>17 DEF CheckState, SearchIssues, Searched, locals
  <2>2. store' = store
    BY <1>17 DEF CheckState, SearchIssues
  <2>3. QED
    BY <1>1, <1>15, <1>g, <1>m, <2>1, <2>2 DEF Goto, TypeOK
<1>18. ASSUME NEW a \in {"number", "url"}, CreateIssue(p, a) PROVE IssueInv'
  <2>1. issues' = Append(issues, NewIssue(p, a)) /\ cand' = cand /\ a \in Answers
    BY <1>18 DEF CreateIssue, Goto, Answers
  <2>2. issues'[Len(issues) + 1].cand = cand[p] /\ Len(issues') = Len(issues) + 1
    BY <2>1, FiledIssues DEF NewIssue
  <2>3. HasIssue(cand[p])'
    BY <2>1, <2>2, LenTypes DEF HasIssue
  <2>4. QED
    BY <1>1, <1>18, <1>g, <1>m, <2>1, <2>3 DEF CreateIssue, Goto, TypeOK
<1>19. QED
  BY <1>5, <1>6, <1>7, <1>10, <1>11, <1>12, <1>13, <1>14, <1>16, <1>17, <1>18
     DEF Start, Step

(* A candidate is published, and has an issue number in the store, only    *)
(* when its issue is on GitHub, under any interleaving and any kills, and  *)
(* whatever commands that save at the same time make of the store.         *)
THEOREM PublishedHaveIssues == Spec => []PublishedHasIssue
<1>1. Init => IssueInv
  <2> SUFFICES ASSUME Init PROVE IssueInv
    OBVIOUS
  <2>1. \A c \in Cands : [Blank EXCEPT !.state = "pending"] \in IssuedItems[c]
    <3> DEFINE item == [Blank EXCEPT !.state = "pending"]
    <3>1. item \in Item /\ item.state = "pending" /\ item.number = Blank.number
      BY BlankTypes DEF Item, CandStates
    <3>2. ~Blank.number
      BY DEF Blank
    <3> HIDE DEF item
    <3>3. item \in Item /\ ~(item.state = "published" \/ item.number)
      BY <3>1, <3>2
    <3>4. \A c \in Cands : item \in IssuedItems[c]
      BY <3>3 DEF IssuedItems
    <3>5. QED
      BY <3>4 DEF item
  <2>2. \A p \in Commands, c \in Cands : mem[p][c] = Blank
    BY DEF Init, Nothing
  <2>3. QED
    BY <2>1, <2>2, BlankIsIssued DEF Init, IssueInv
<1>2. IssueInv => PublishedHasIssue
  BY DEF IssueInv, IssuedItems, PublishedHasIssue, HasIssue
<1>3. QED
  BY <1>1, <1>2, CandTypeCorrect, IssueStep, PTL DEF Spec

-----------------------------------------------------------------------------
(* What a search has shown is still so when the issue is filed, although   *)
(* others file issues in between: they are filed behind what it has seen.  *)
SearchInv ==
    /\ \A p \in Commands : pc[p] = "creating" =>
          /\ search[p].seen <= Len(issues)
          /\ ~force[p] => \A i \in 1..search[p].seen :
                             issues[i].finds \cap (loaded[p] \ search[p].blind) = {}
    /\ \A j \in 1..Len(issues) : issues[j].search.seen <= Len(issues)

LEMMA SeenTypes ==
  ASSUME TypeOK
  PROVE  /\ Len(issues) \in Nat
         /\ \A p \in Commands : search[p].seen \in Nat
         /\ \A j \in 1..Len(issues) : issues[j].search.seen \in Nat
<1>1. Len(issues) \in Nat
  BY LenTypes
<1>2. \A p \in Commands : search[p] \in Search
  BY DEF TypeOK
<1>3. \A j \in 1..Len(issues) : issues[j].search \in Search
  <2>1. \A j \in 1..Len(issues) : issues[j] \in Issue
    BY DEF TypeOK
  <2>2. \A x \in Issue : x.search \in Search
    BY DEF Issue
  <2>3. QED
    BY <2>1, <2>2, Zenon
<1>4. \A s \in Search : s.seen \in Nat
  BY DEF Search
<1>5. \A p \in Commands : search[p].seen \in Nat
  BY <1>2, <1>4, Zenon
<1>6. \A j \in 1..Len(issues) : issues[j].search.seen \in Nat
  BY <1>3, <1>4, Zenon
<1>7. QED
  BY <1>1, <1>5, <1>6

(* Only a search lets a command file an issue, and until then it keeps     *)
(* what it has found.                                                      *)
LEMMA CreatingFrom ==
  ASSUME TypeOK, [Next]_vars, NEW p \in Commands, pc'[p] = "creating"
  PROVE  \/ /\ pc[p] = "creating"
            /\ search'[p] = search[p] /\ force'[p] = force[p] /\ loaded'[p] = loaded[p]
         \/ /\ pc[p] = "searching" /\ issues' = issues
            /\ force'[p] = force[p] /\ loaded'[p] = loaded[p]
            /\ \E failed \in SUBSET loaded[p] :
                  /\ search'[p] = [seen |-> Len(issues), blind |-> failed]
                  /\ Hits(loaded[p] \ failed) = {} \/ force[p]
                  /\ outages' = IF failed = {} THEN outages ELSE outages + 1
<1> DEFINE Same == /\ pc[p] = "creating"
                   /\ search'[p] = search[p] /\ force'[p] = force[p]
                   /\ loaded'[p] = loaded[p]
<1>1. CASE UNCHANGED vars \/ World
  BY <1>1 DEF vars, World, Drift, Retract, CloseIssue, running, locals
<1> SUFFICES ASSUME NEW q \in Commands, Start(q) \/ Step(q) \/ Crash(q)
             PROVE  \/ Same
                    \/ /\ pc[p] = "searching" /\ issues' = issues
                       /\ force'[p] = force[p] /\ loaded'[p] = loaded[p]
                       /\ \E failed \in SUBSET loaded[p] :
                             /\ search'[p] = [seen |-> Len(issues), blind |-> failed]
                             /\ Hits(loaded[p] \ failed) = {} \/ force[p]
                             /\ outages' = IF failed = {} THEN outages ELSE outages + 1
  BY <1>1 DEF Next
<1>2. CASE Start(q)
  <2>1. PICK c \in Cands, label \in Labels \ {"creating"} :
           /\ pc' = [pc EXCEPT ![q] = label] /\ search' = search
           /\ \A r \in Commands \ {q} : force'[r] = force[r] /\ loaded'[r] = loaded[r]
    BY <1>2 DEF Start, ReadVerdict, DrafterGate, StartPublish, RecordProof, Begin, Load,
                locals, Labels, TypeOK
  <2>2. QED
    BY <2>1 DEF TypeOK
<1>3. ASSUME Exit(q) PROVE Same
  BY <1>3 DEF Exit, Goto, TypeOK
<1>4. ASSUME NEW label \in Labels \ {"creating"}, Goto(q, label),
             UNCHANGED <<search, force, loaded>>
      PROVE  Same
  BY <1>4 DEF Goto, TypeOK
<1>5. CASE TakeFingerprint(q)
  BY <1>5 DEF TakeFingerprint
<1>6. CASE NothingToFingerprint(q) \/ StopPublish(q) \/ CreateFails(q) \/ Crash(q)
           \/ LoadFails(q) \/ Save(q) \/ SaveClashes(q)
  BY <1>3, <1>6 DEF NothingToFingerprint, StopPublish, CreateFails, Crash, LoadFails,
                    Save, SaveClashes
<1>7. CASE ApplyVerdict(q) \/ Demote(q) \/ RecordIssue(q) \/ CheckState(q)
           \/ \E a \in {"number", "url"} : CreateIssue(q, a)
  BY <1>4, <1>7 DEF ApplyVerdict, Demote, RecordIssue, CheckState, CreateIssue, Load,
                    locals, Labels
<1>8. CASE SearchIssues(q)
  <2>1. PICK failed \in SUBSET loaded[q] :
          /\ outages' = IF failed = {} THEN outages ELSE outages + 1
          /\ IF Hits(loaded[q] \ failed) # {} /\ ~force[q]
             THEN Exit(q) ELSE Searched(q, failed)
    BY <1>8 DEF SearchIssues
  <2>2. issues' = issues /\ pc[q] = "searching"
    BY <1>8 DEF SearchIssues
  <2> DEFINE stops == Hits(loaded[q] \ failed) # {} /\ ~force[q]
  <2>3. CASE stops
    BY <1>3, <2>1, <2>3
  <2>4. CASE ~stops /\ q = p
    <3>1. Hits(loaded[p] \ failed) = {} \/ force[p]
      BY <2>4
    <3>2. /\ search'[p] = [seen |-> Len(issues), blind |-> failed]
          /\ force'[p] = force[p] /\ loaded'[p] = loaded[p]
      BY <2>1, <2>4 DEF Searched, TypeOK
    <3>3. QED
      BY <2>1, <2>2, <2>4, <3>1, <3>2
  <2>5. CASE ~stops /\ q # p
    <3>1. Searched(q, failed)
      BY <2>1, <2>5
    <3>2. Same
      BY <2>5, <3>1 DEF Searched, Goto, TypeOK
    <3>3. QED
      BY <3>2
  <2> HIDE DEF stops
  <2>6. QED
    BY <2>3, <2>4, <2>5
<1>9. QED
  BY <1>2, <1>5, <1>6, <1>7, <1>8 DEF Step

LEMMA OverlookedStep ==
  TypeOK /\ SearchInv /\ NoIssueOverlooked /\ [Next]_vars
      => SearchInv' /\ NoIssueOverlooked'
<1> SUFFICES ASSUME TypeOK, SearchInv, NoIssueOverlooked, [Next]_vars
             PROVE  SearchInv' /\ NoIssueOverlooked'
  OBVIOUS
<1>0. /\ Len(issues) \in Nat
      /\ \A p \in Commands : search[p].seen \in Nat
      /\ \A j \in 1..Len(issues) : issues[j].search.seen \in Nat
  BY SeenTypes
(* Issues are not taken away, nor does what they say about findings change. *)
<1>1. /\ Len(issues') \in {Len(issues), Len(issues) + 1}
      /\ \A j \in 1..Len(issues) : /\ issues'[j].finds = issues[j].finds
                                   /\ issues'[j].forced = issues[j].forced
                                   /\ issues'[j].search = issues[j].search
  BY IssuesChange, ClosedIssues, FiledIssues
<1>2. ASSUME NEW p \in Commands, pc'[p] = "creating"
      PROVE  /\ search'[p].seen <= Len(issues')
             /\ ~force'[p] => \A i \in 1..search'[p].seen :
                   issues'[i].finds \cap (loaded'[p] \ search'[p].blind) = {}
  <2>1. CASE /\ pc[p] = "creating"
             /\ search'[p] = search[p] /\ force'[p] = force[p] /\ loaded'[p] = loaded[p]
    BY <1>0, <1>1, <2>1 DEF SearchInv
  <2>2. ASSUME NEW failed, issues' = issues,
               force'[p] = force[p], loaded'[p] = loaded[p],
               search'[p] = [seen |-> Len(issues), blind |-> failed],
               Hits(loaded[p] \ failed) = {} \/ force[p]
        PROVE  /\ search'[p].seen <= Len(issues')
               /\ ~force'[p] => \A i \in 1..search'[p].seen :
                     issues'[i].finds \cap (loaded'[p] \ search'[p].blind) = {}
    <3>1. search'[p].seen = Len(issues) /\ search'[p].blind = failed
      BY <2>2
    <3>2. ~force[p] => \A i \in 1..Len(issues) : issues[i].finds \cap (loaded[p] \ failed) = {}
      BY <2>2 DEF Hits
    <3>3. QED
      BY <1>0, <2>2, <3>1, <3>2
  <2>3. QED
    BY <1>2, <2>1, <2>2, CreatingFrom
<1>3. CASE Len(issues') = Len(issues)
  <2>1. NoIssueOverlooked'
    BY <1>0, <1>1, <1>3 DEF NoIssueOverlooked
  <2>2. \A j \in 1..Len(issues') : issues'[j].search.seen <= Len(issues')
    BY <1>1, <1>3 DEF SearchInv
  <2>3. QED
    BY <1>2, <2>1, <2>2 DEF SearchInv
<1>4. ASSUME NEW p \in Commands, NEW a \in Answers, pc[p] = "creating",
             issues' = Append(issues, NewIssue(p, a))
      PROVE  SearchInv' /\ NoIssueOverlooked'
  <2>1. /\ Len(issues') = Len(issues) + 1
        /\ issues'[Len(issues) + 1] = NewIssue(p, a)
        /\ \A j \in 1..Len(issues) : issues'[j] = issues[j]
    BY <1>4, FiledIssues
  <2>2. /\ NewIssue(p, a).finds = loaded[p] /\ NewIssue(p, a).forced = force[p]
        /\ NewIssue(p, a).search = search[p]
    BY DEF NewIssue
  <2>3. /\ search[p].seen <= Len(issues)
        /\ ~force[p] => \A i \in 1..search[p].seen :
                           issues[i].finds \cap (loaded[p] \ search[p].blind) = {}
    BY <1>4 DEF SearchInv
  <2>4. \A j \in 1..Len(issues') : issues'[j].search.seen <= Len(issues)
    BY <1>0, <2>1, <2>2, <2>3 DEF SearchInv
  <2>5. ASSUME NEW i \in 1..Len(issues'), NEW j \in 1..Len(issues'),
               i <= issues'[j].search.seen, ~issues'[j].forced
        PROVE  issues'[i].finds \cap (issues'[j].finds \ issues'[j].search.blind) = {}
    <3>1. issues'[j].search.seen \in Nat
      BY <1>0, <2>1, <2>2
    <3>2. i \in 1..Len(issues)
      BY <1>0, <2>1, <2>4, <2>5, <3>1
    <3>3. CASE j \in 1..Len(issues)
      BY <2>1, <2>5, <3>2, <3>3 DEF NoIssueOverlooked
    <3>4. CASE j = Len(issues) + 1
      BY <1>0, <2>1, <2>2, <2>3, <2>5, <3>2, <3>4
    <3>5. QED
      BY <1>0, <2>1, <3>3, <3>4
  <2>6. \A j \in 1..Len(issues') : issues'[j].search.seen <= Len(issues')
    <3>1. \A j \in 1..Len(issues') : issues'[j].search.seen \in Nat
      BY <1>0, <2>1, <2>2
    <3>2. QED
      BY <1>0, <2>1, <2>4, <3>1
  <2>7. QED
    BY <1>2, <2>5, <2>6 DEF SearchInv, NoIssueOverlooked
<1>5. QED
  BY <1>3, <1>4, IssuesChange, ClosedIssues

(* No search overlooks an issue that shares a finding and that it could    *)
(* see, however many commands file issues at the same time, wherever they  *)
(* are killed, and whatever of their transitions the store loses.          *)
THEOREM SearchesOverlookNothing == Spec => []NoIssueOverlooked
<1>1. Init => SearchInv /\ NoIssueOverlooked
  <2> SUFFICES ASSUME Init PROVE SearchInv /\ NoIssueOverlooked
    OBVIOUS
  <2>1. Len(issues) = 0 /\ \A p \in Commands : pc[p] # "creating"
    BY DEF Init
  <2>2. QED
    BY <2>1 DEF SearchInv, NoIssueOverlooked
<1>2. QED
  BY <1>1, CandTypeCorrect, OverlookedStep, PTL DEF Spec

-----------------------------------------------------------------------------
(* One command at a time, and a search has seen every issue there is when  *)
(* its command files another.                                              *)
OneCommandAtATime ==
    \A p, q \in Commands : pc[p] # "idle" /\ pc[q] # "idle" => p = q

FreshInv ==
    /\ \A p \in Commands : pc[p] = "creating" =>
          /\ search[p].seen = Len(issues)
          /\ outages = 0 => search[p].blind = {}
    /\ \A j \in 1..Len(issues) :
          /\ issues[j].search.seen = j - 1
          /\ outages = 0 => issues[j].search.blind = {}

LEMMA SerialIsNext == [SerialNext]_vars => [Next]_vars
BY DEF SerialNext, Next

LEMMA AloneStep ==
  TypeOK /\ OneCommandAtATime /\ [SerialNext]_vars => OneCommandAtATime'
<1> SUFFICES ASSUME TypeOK, OneCommandAtATime, [SerialNext]_vars
             PROVE  OneCommandAtATime'
  OBVIOUS
<1> USE DEF OneCommandAtATime
<1>1. CASE UNCHANGED vars \/ World
  BY <1>1 DEF vars, World, Drift, Retract, CloseIssue, running
<1> SUFFICES ASSUME NEW p \in Commands,
                    (Alone(p) /\ Start(p)) \/ Step(p) \/ Crash(p)
             PROVE  OneCommandAtATime'
  BY <1>1 DEF SerialNext
<1>2. CASE Alone(p) /\ Start(p)
  <2>1. \A q \in Commands \ {p} : pc[q] = "idle"
    BY <1>2 DEF Alone
  <2>2. \A q \in Commands \ {p} : pc'[q] = pc[q]
    BY <1>2 DEF Start, ReadVerdict, DrafterGate, StartPublish, RecordProof,
                Begin, TypeOK
  <2>3. QED
    BY <2>1, <2>2
<1>3. CASE Step(p) \/ Crash(p)
  <2>1. pc[p] # "idle"
    BY <1>3 DEF Step, Crash, TakeFingerprint, NothingToFingerprint, ApplyVerdict,
                Demote, StopPublish, CheckState, SearchIssues, CreateIssue,
                CreateFails, RecordIssue, Save, SaveClashes, LoadFails, Loading
  <2>2. \A q \in Commands \ {p} : pc'[q] = pc[q]
    <3>1. pc' = pc \/ \E label \in Labels : Goto(p, label)
      BY <1>3 DEF Step, Crash, TakeFingerprint, NothingToFingerprint, ApplyVerdict,
                  Demote, StopPublish, CheckState, SearchIssues, Searched, CreateIssue,
                  CreateFails, RecordIssue, Save, SaveClashes, LoadFails, Exit, Labels
    <3>2. QED
      BY <3>1 DEF Goto, TypeOK
  <2>3. QED
    BY <2>1, <2>2
<1>4. QED
  BY <1>2, <1>3

(* Failures of gh are counted and not forgotten.                           *)
LEMMA OutagesStay == ASSUME TypeOK, [Next]_vars, outages' = 0 PROVE outages = 0
<1>1. outages \in Nat
  BY BoundsAssumption DEF TypeOK
<1>2. outages' \in {outages, outages + 1}
  <2>1. CASE UNCHANGED vars \/ World
    BY <2>1 DEF vars, World, Drift, Retract, CloseIssue, counters
  <2>2. ASSUME NEW p \in Commands, Start(p) PROVE outages' = outages
    BY <2>2 DEF Start, ReadVerdict, DrafterGate, StartPublish, RecordProof, Begin
  <2>3. ASSUME NEW p \in Commands, Step(p) \/ Crash(p)
        PROVE  outages' \in {outages, outages + 1}
    BY <2>3 DEF Step, Crash, TakeFingerprint, NothingToFingerprint, ApplyVerdict,
                Demote, StopPublish, CheckState, SearchIssues, CreateIssue,
                CreateFails, RecordIssue, Save, SaveClashes, LoadFails, counters
  <2>4. QED
    BY <2>1, <2>2, <2>3 DEF Next
<1>3. QED
  BY <1>1, <1>2

LEMMA FreshStep ==
  TypeOK /\ OneCommandAtATime /\ FreshInv /\ [Next]_vars => FreshInv'
<1> SUFFICES ASSUME TypeOK, OneCommandAtATime, FreshInv, [Next]_vars
             PROVE  FreshInv'
  OBVIOUS
<1>0. Len(issues) \in Nat /\ outages \in Nat
  BY LenTypes, BoundsAssumption DEF TypeOK
<1>1. outages' = 0 => outages = 0
  BY OutagesStay
<1>2. CASE issues' = issues \/ \E i \in 1..Len(issues) : CloseIssue(i)
  <2>1. /\ Len(issues') = Len(issues)
        /\ \A j \in 1..Len(issues) : issues'[j].search = issues[j].search
    BY <1>2, ClosedIssues
  <2>2. ASSUME NEW p \in Commands, pc'[p] = "creating"
        PROVE  /\ search'[p].seen = Len(issues)
               /\ outages' = 0 => search'[p].blind = {}
    <3>1. CASE pc[p] = "creating" /\ search'[p] = search[p]
      BY <1>1, <3>1 DEF FreshInv
    <3>2. ASSUME NEW failed,
                 search'[p] = [seen |-> Len(issues), blind |-> failed],
                 outages' = IF failed = {} THEN outages ELSE outages + 1
          PROVE  /\ search'[p].seen = Len(issues)
                 /\ outages' = 0 => search'[p].blind = {}
      <4>1. outages' = 0 => failed = {}
        BY <1>0, <3>2
      <4>2. QED
        BY <3>2, <4>1
    <3>3. QED
      BY <2>2, <3>1, <3>2, CreatingFrom
  <2>3. QED
    BY <1>1, <2>1, <2>2 DEF FreshInv
<1>3. ASSUME NEW p \in Commands, NEW a \in Answers, pc[p] = "creating",
             issues' = Append(issues, NewIssue(p, a)),
             Goto(p, "recording") \/ Goto(p, "idle")
      PROVE  FreshInv'
  <2>1. /\ Len(issues') = Len(issues) + 1
        /\ issues'[Len(issues) + 1].search = search[p]
        /\ \A j \in 1..Len(issues) : issues'[j] = issues[j]
    BY <1>3, FiledIssues DEF NewIssue
  <2>2. \A q \in Commands : pc'[q] # "creating"
    <3>1. ASSUME NEW q \in Commands, pc'[q] = "creating" PROVE pc[q] = "creating"
      <4>1. issues' # issues
        BY <1>0, <2>1
      <4>2. QED
        BY <3>1, <4>1, CreatingFrom
    <3>2. pc'[p] # "creating"
      BY <1>3 DEF Goto, TypeOK
    <3>3. QED
      BY <1>3, <3>1, <3>2 DEF OneCommandAtATime
  <2>3. ASSUME NEW j \in 1..Len(issues')
        PROVE  /\ issues'[j].search.seen = j - 1
               /\ outages' = 0 => issues'[j].search.blind = {}
    <3>1. CASE j \in 1..Len(issues)
      BY <1>1, <2>1, <3>1 DEF FreshInv
    <3>2. CASE j = Len(issues) + 1
      BY <1>0, <1>1, <1>3, <2>1, <3>2 DEF FreshInv
    <3>3. QED
      BY <1>0, <2>1, <3>1, <3>2
  <2>4. QED
    BY <2>2, <2>3 DEF FreshInv
<1>4. QED
  BY <1>2, <1>3, IssuesChange

(* When commands run one at a time, no two issues share a finding unless   *)
(* the later was forced, although commands are killed after they filed an  *)
(* issue and before they recorded it, as long as GitHub answers.           *)
THEOREM NoFindHasTwoIssues == SerialSpec => []OneIssuePerFind
<1>1. Init => /\ TypeOK /\ OneCommandAtATime /\ FreshInv
              /\ SearchInv /\ NoIssueOverlooked
  <2> SUFFICES ASSUME Init PROVE /\ TypeOK /\ OneCommandAtATime /\ FreshInv
                                 /\ SearchInv /\ NoIssueOverlooked
    OBVIOUS
  <2>1. Len(issues) = 0 /\ \A p \in Commands : pc[p] = "idle"
    BY DEF Init
  <2>2. QED
    BY <2>1, CandTypeInit DEF OneCommandAtATime, FreshInv, SearchInv, NoIssueOverlooked
<1>2. TypeOK /\ FreshInv /\ NoIssueOverlooked => OneIssuePerFind
  <2> SUFFICES ASSUME TypeOK, FreshInv, NoIssueOverlooked, outages = 0,
                      NEW i \in 1..Len(issues), NEW j \in 1..Len(issues),
                      i < j, ~issues[j].forced
               PROVE  issues[i].finds \cap issues[j].finds = {}
    BY DEF OneIssuePerFind
  <2>1. issues[j].search.seen = j - 1 /\ issues[j].search.blind = {}
    BY DEF FreshInv
  <2>2. issues[i].finds \cap (issues[j].finds \ {}) = {}
    BY <2>1, LenTypes DEF NoIssueOverlooked
  <2>3. QED
    BY <2>2
<1>3. QED
  BY <1>1, <1>2, SerialIsNext, CandTypeStep, AloneStep, OverlookedStep, FreshStep, PTL
     DEF SerialSpec
=============================================================================
