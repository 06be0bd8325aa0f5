---------------------------- MODULE FindingsProofs ----------------------------
(***************************************************************************)
(* What the FIND gate guarantees for any cards, overlaps and bounds: types *)
(* under any interleaving of runs and, with one run at a time but kills at *)
(* any step, that no card is lost and that ready/ stays free of overlaps.  *)
(***************************************************************************)
EXTENDS Findings, TLAPS

(* What the two targets of a move stand for in the FSM store.              *)
LEMMA StateOfTypes ==
  \A d \in {"ready", "rejected"} : StateOf[d] \in {"none", "discovered", "rejected"}
BY DEF StateOf

(* A directory tree stays one when a file of it is written or removed.     *)
Tree == [Dirs -> [Finds -> Contents]]

LEMMA PutTypes ==
  ASSUME NEW D \in Tree, NEW d \in Dirs, NEW f \in Finds, NEW c \in Contents
  PROVE  [D EXCEPT ![d][f] = c] \in Tree
BY DEF Tree

(* A counter that is below its bound stays within it.                      *)
LEMMA CountTypes ==
  ASSUME NEW max \in Nat, NEW n \in 0..max, n < max
  PROVE  n + 1 \in 0..max
OBVIOUS

(* The steps that end a run change nothing else.                           *)
LEMMA HaltSteps ==
  ASSUME NEW v \in Validators,
         Finish(v) \/ CheckRaises(v) \/ DraftGone(v) \/ MoveRaises(v) \/ StoreFails(v)
  PROVE  Stop(v) /\ Busy(v) /\ UNCHANGED <<dir, state, written, counters>>
BY DEF Finish, CheckRaises, DraftGone, MoveRaises, StoreFails, Busy

(* What a scan does with one card of its list.                             *)
LEMMA ScanSteps ==
  ASSUME NEW v \in Validators, ReadOther(v)
  PROVE  /\ pc[v] \in {"scan ready", "scan drafts"}
         /\ UNCHANGED <<dir, state, written, counters>>
         /\ \/ Stop(v)
            \/ /\ UNCHANGED <<todo, cur, verdict, text, mem>>
               /\ \E g \in others[v] :
                     \/ /\ others' = [others EXCEPT ![v] = {}]
                        /\ pc' = [pc EXCEPT ![v] = "move"]
                     \/ /\ others' = [others EXCEPT ![v] = others[v] \ {g}]
                        /\ pc' = [pc EXCEPT ![v] = pc[v]]
                        /\ ~OverlapSeen(v, g)
<1>1. CASE \E g \in others[v] : Other(v, g) = "list" /\ Stop(v)
  BY <1>1 DEF ReadOther
<1>2. CASE \E g \in others[v] :
             /\ others' = [others EXCEPT ![v] = IF OverlapSeen(v, g) THEN {} ELSE @ \ {g}]
             /\ pc' = [pc EXCEPT ![v] = IF OverlapSeen(v, g) THEN "move" ELSE @]
             /\ UNCHANGED <<todo, cur, verdict, text, mem>>
  <2>1. PICK g \in others[v] :
          /\ others' = [others EXCEPT ![v] = IF OverlapSeen(v, g) THEN {} ELSE @ \ {g}]
          /\ pc' = [pc EXCEPT ![v] = IF OverlapSeen(v, g) THEN "move" ELSE @]
          /\ UNCHANGED <<todo, cur, verdict, text, mem>>
    BY <1>2
  <2>2. CASE OverlapSeen(v, g)
    BY <2>1, <2>2 DEF ReadOther
  <2>3. CASE ~OverlapSeen(v, g)
    BY <2>1, <2>3 DEF ReadOther
  <2>4. QED
    BY <2>2, <2>3
<1>3. QED
  BY <1>1, <1>2 DEF ReadOther

(* No step, of any number of racing runs, leaves the types of TypeOK.      *)
LEMMA GateTypeStep == TypeOK /\ [Next]_vars => TypeOK'
<1> SUFFICES ASSUME TypeOK, [Next]_vars PROVE TypeOK'
  OBVIOUS
<1> USE DEF TypeOK, validating, counters
<1>1. ASSUME NEW f \in Finds, NEW t \in Texts, WriteDraft(f, t) PROVE TypeOK'
  <2>1. dir' \in Tree
    BY <1>1, PutTypes DEF WriteDraft, Contents, Dirs, Tree
  <2>2. QED
    BY <1>1, <2>1 DEF WriteDraft, Tree
<1>2. ASSUME NEW f \in Finds, NEW t \in Texts, ReturnDraft(f, t) PROVE TypeOK'
  <2>1. /\ "none" \in Contents /\ t \in Contents
        /\ "rejected" \in Dirs /\ "drafts" \in Dirs
    BY DEF Contents, Dirs
  <2>2. [dir EXCEPT !["rejected"][f] = "none"] \in Tree
    BY <2>1, PutTypes DEF Tree
  <2>3. dir' = [[dir EXCEPT !["rejected"][f] = "none"] EXCEPT !["drafts"][f] = t]
    BY <1>2 DEF ReturnDraft
  <2>4. dir' \in Tree
    BY <2>1, <2>2, <2>3, PutTypes
  <2>5. returns' \in 0..MaxReturns
    BY <1>2, BoundsAssumption, CountTypes DEF ReturnDraft
  <2>6. QED
    BY <1>2, <2>4, <2>5 DEF ReturnDraft, Tree
<1> SUFFICES ASSUME NEW v \in Validators,
                    Start(v) \/ Step(v) \/ StoreFails(v) \/ Crash(v)
             PROVE  TypeOK'
  BY <1>1, <1>2 DEF Next, Agents, Fixer, vars
<1>3. CASE Start(v)
  <2>1. runs' \in 0..MaxRuns
    BY <1>3, BoundsAssumption, CountTypes DEF Start
  <2>2. todo' \in [Validators -> SUBSET Finds]
    <3>1. PICK T \in {Files("drafts")} \cup {{f} : f \in Files("drafts")} :
            todo' = [todo EXCEPT ![v] = T]
      BY <1>3 DEF Start
    <3>2. T \subseteq Finds
      BY DEF Files
    <3>3. QED
      BY <3>1, <3>2
  <2>3. QED
    BY <1>3, <2>1, <2>2 DEF Start
<1>4. CASE Finish(v) \/ CheckRaises(v) \/ DraftGone(v) \/ MoveRaises(v) \/ StoreFails(v)
  BY <1>4, HaltSteps DEF Stop
<1>5. CASE Check(v)
  <2>1. PICK f \in todo[v] :
          /\ todo' = [todo EXCEPT ![v] = @ \ {f}]
          /\ cur' = [cur EXCEPT ![v] = f]
          /\ pc' = [pc EXCEPT ![v] =
                       IF dir["drafts"][f] = "good" THEN "list ready" ELSE "move"]
          /\ verdict' = [verdict EXCEPT ![v] = "rejected"]
    BY <1>5 DEF Check
  <2>2. f \in Finds
    OBVIOUS
  <2>3. QED
    BY <1>5, <2>1, <2>2 DEF Check
<1>6. CASE ListReady(v)
  BY <1>6 DEF ListReady, Files
<1>7. CASE ListDrafts(v)
  BY <1>7 DEF ListDrafts, Files
<1>8. CASE ReadOther(v)
  <2>1. CASE Stop(v)
    BY <1>8, <2>1, ScanSteps DEF Stop
  <2>2. CASE ~Stop(v)
    <3>1. UNCHANGED <<dir, state, written, todo, cur, verdict, text, mem, counters>>
      BY <1>8, <2>2, ScanSteps
    <3>2. \E S \in SUBSET Finds : others' = [others EXCEPT ![v] = S]
      <4>1. {} \in SUBSET Finds /\ \A g : others[v] \ {g} \in SUBSET Finds
        OBVIOUS
      <4>2. QED
        BY <1>8, <2>2, <4>1, ScanSteps
    <3>3. pc' = [pc EXCEPT ![v] = "move"] \/ pc' = [pc EXCEPT ![v] = pc[v]]
      BY <1>8, <2>2, ScanSteps
    <3>4. others' \in [Validators -> SUBSET Finds]
      BY <3>2
    <3>5. pc' \in {[pc EXCEPT ![v] = "move"], [pc EXCEPT ![v] = pc[v]]}
      BY <3>3
    <3>6. QED
      BY <3>1, <3>4, <3>5
  <2>3. QED
    BY <2>1, <2>2
<1>9. CASE Judge(v)
  BY <1>9 DEF Judge
<1>10. CASE ReadDraft(v)
  BY <1>10 DEF ReadDraft, Dirs
<1>11. CASE RenamePlain(v)
  BY <1>11 DEF RenamePlain, Dirs, Contents, Texts
<1>12. CASE OpenCopy(v)
  BY <1>12 DEF OpenCopy, Dirs, Contents
<1>13. CASE FillCopy(v)
  BY <1>13 DEF FillCopy, Dirs, Contents, Rewritten
<1>14. CASE Unlink(v)
  BY <1>14 DEF Unlink, Dirs, Contents
<1>16. CASE LoadState(v)
  BY <1>16, StateOfTypes DEF LoadState
<1>17. CASE SaveState(v)
  BY <1>17 DEF SaveState
<1>18. CASE Crash(v)
  <2>1. crashes' \in 0..MaxCrashes
    BY <1>18, BoundsAssumption, CountTypes DEF Crash
  <2>2. QED
    BY <1>18, <2>1 DEF Crash, Stop
<1>19. QED
  BY <1>3, <1>4, <1>5, <1>6, <1>7, <1>8, <1>9, <1>10, <1>11, <1>12, <1>13,
     <1>14, <1>16, <1>17, <1>18 DEF Step

(* Types in every behaviour.                                               *)
THEOREM GateTypeCorrect == Spec => []TypeOK
<1>1. Init => TypeOK
  BY BoundsAssumption DEF Init, TypeOK, Contents, Texts, Dirs
<1>2. QED
  BY <1>1, GateTypeStep, PTL DEF Spec

-----------------------------------------------------------------------------
(* The inductive invariant of one run at a time.                           *)

OneRun == \A v, w \in Validators : Busy(v) /\ Busy(w) => v = w

(* A draft is as its author or the fixer wrote it.                         *)
DraftsAreWhole == \A f \in Finds : dir["drafts"][f] \in Texts \cup {"none"}

(* The copy that a move fills is whole when the draft is unlinked, and the *)
(* draft is still there when the copy is opened.                           *)
MoveOK(v) ==
    /\ pc[v] = "write" => cur[v] \in Files("drafts")
    /\ pc[v] \in {"write", "fill"} => text[v] \in Texts
    /\ pc[v] = "unlink" => dir[verdict[v]][cur[v]] \notin {"none", "cut"}

(* Nothing in ready/ overlaps the target of a run but its own copy.        *)
Clear(v) ==
    \A g \in Finds \ {cur[v]} :
        dir["ready"][g] = "good" => <<cur[v], g>> \notin Overlaps

(* The scan of ready/ has found no overlap among the cards it has read.    *)
ScanOK(v) ==
    /\ pc[v] = "scan ready" =>
          \A g \in Finds \ {cur[v]} :
              g \notin others[v] /\ dir["ready"][g] = "good"
                  => <<cur[v], g>> \notin Overlaps
    /\ pc[v] \in {"list ready", "scan ready", "scan drafts"}
          => verdict[v] = "rejected"
    /\ pc[v] = "scan drafts" => Clear(v)
    /\ pc[v] \in {"move", "write", "fill", "unlink"} /\ verdict[v] = "ready"
          => Clear(v)

GateInv ==
    /\ TypeOK
    /\ OneRun
    /\ DraftsAreWhole
    /\ \A v \in Validators : MoveOK(v) /\ ScanOK(v)
    /\ NoFindLost
    /\ ReadyIsDisjoint

-----------------------------------------------------------------------------
(* What a write of one file leaves in a tree.                              *)
LEMMA PutValue ==
  ASSUME NEW D \in Tree, NEW d \in Dirs, NEW f \in Finds,
         NEW c \in Contents
  PROVE  \A e \in Dirs, g \in Finds :
            [D EXCEPT ![d][f] = c][e][g] = IF e = d /\ g = f THEN c ELSE D[e][g]
BY DEF Tree

(* While one run is in progress, no other is and none begins.              *)
LEMMA OthersIdle ==
  ASSUME GateInv, NEW v \in Validators,
         (Alone(v) /\ Start(v)) \/ Step(v) \/ Crash(v)
  PROVE  \A w \in Validators \ {v} : pc'[w] = "idle"
<1> USE DEF GateInv, TypeOK, OneRun, Busy
<1>1. CASE Alone(v) /\ Start(v)
  BY <1>1 DEF Alone, Start
<1>2. CASE Step(v) \/ Crash(v)
  <2>1. Busy(v)
    BY <1>2, HaltSteps, ScanSteps
       DEF Step, Crash, Check, ListReady, ListDrafts, Judge, ReadDraft, RenamePlain,
           OpenCopy, FillCopy, Unlink, LoadState, SaveState
  <2>2. \A w \in Validators \ {v} : pc[w] = "idle"
    BY <2>1
  <2>3. \A w \in Validators \ {v} : pc'[w] = pc[w]
    <3>1. CASE Check(v)
      BY <3>1 DEF Check
    <3>2. CASE ReadOther(v)
      <4>1. \E s : pc' = [pc EXCEPT ![v] = s]
        BY <3>2, ScanSteps DEF Stop
      <4>2. QED
        BY <4>1
    <3>3. CASE Finish(v) \/ CheckRaises(v) \/ DraftGone(v) \/ MoveRaises(v)
      BY <3>3, HaltSteps DEF Stop
    <3>4. QED
      BY <1>2, <3>1, <3>2, <3>3
         DEF Step, Crash, Stop, ListReady, ListDrafts, Judge, ReadDraft, RenamePlain,
             OpenCopy, FillCopy, Unlink, LoadState, SaveState
  <2>4. QED
    BY <2>2, <2>3
<1>3. QED
  BY <1>1, <1>2

(* What is left to show of a step of a run.                                *)
LEMMA OwnStep ==
  ASSUME GateInv, NEW v \in Validators,
         (Alone(v) /\ Start(v)) \/ Step(v) \/ Crash(v),
         TypeOK', DraftsAreWhole', NoFindLost', ReadyIsDisjoint',
         MoveOK(v)', ScanOK(v)'
  PROVE  GateInv'
<1>1. \A w \in Validators \ {v} : pc'[w] = "idle"
  BY OthersIdle
<1>2. OneRun'
  BY <1>1 DEF OneRun, Busy
<1>3. \A w \in Validators \ {v} : MoveOK(w)' /\ ScanOK(w)'
  BY <1>1 DEF MoveOK, ScanOK
<1>4. QED
  BY <1>2, <1>3 DEF GateInv

(* Steps that change no file.                                              *)
LEMMA ReadingStep ==
  ASSUME GateInv, NEW v \in Validators,
         (Alone(v) /\ Start(v)) \/ Step(v) \/ Crash(v),
         ~(RenamePlain(v) \/ OpenCopy(v) \/ FillCopy(v) \/ Unlink(v)),
         TypeOK'
  PROVE  GateInv'
<1> USE DEF GateInv, TypeOK
<1> UNCHANGED <<dir, written>>
  BY HaltSteps, ScanSteps
     DEF Step, Start, Crash, Check, ListReady, ListDrafts, Judge, ReadDraft,
         LoadState, SaveState
<1>1. DraftsAreWhole' /\ NoFindLost' /\ ReadyIsDisjoint'
  BY DEF DraftsAreWhole, NoFindLost, ReadyIsDisjoint
<1> SUFFICES MoveOK(v)' /\ ScanOK(v)'
  BY <1>1, OwnStep
<1>2. ASSUME pc'[v] \in {"idle", "next", "load", "save"}
      PROVE  MoveOK(v)' /\ ScanOK(v)'
  BY <1>2 DEF MoveOK, ScanOK
<1>3. CASE \/ Finish(v) \/ CheckRaises(v) \/ DraftGone(v) \/ MoveRaises(v)
           \/ Start(v) \/ LoadState(v) \/ SaveState(v) \/ Crash(v)
  <2>1. CASE Finish(v) \/ CheckRaises(v) \/ DraftGone(v) \/ MoveRaises(v)
    <3>1. Stop(v)
      BY <2>1, HaltSteps
    <3>2. pc'[v] = "idle"
      BY <3>1 DEF Stop
    <3>3. QED
      BY <1>2, <3>2
  <2>2. CASE Start(v) \/ LoadState(v) \/ SaveState(v)
    BY <1>2, <2>2 DEF Start, LoadState, SaveState
  <2>3. CASE Crash(v)
    BY <1>2, <2>3 DEF Crash, Stop
  <2>4. QED
    BY <1>3, <2>1, <2>2, <2>3
<1>4. CASE Check(v)
  <2> PICK f \in todo[v] :
             pc' = [pc EXCEPT ![v] =
                      IF dir["drafts"][f] = "good" THEN "list ready" ELSE "move"]
    BY <1>4 DEF Check
  <2> verdict' = [verdict EXCEPT ![v] = "rejected"]
    BY <1>4 DEF Check
  <2>1. pc'[v] \in {"list ready", "move"} /\ verdict'[v] = "rejected"
    OBVIOUS
  <2>2. MoveOK(v)'
    BY <2>1 DEF MoveOK
  <2>3. ScanOK(v)'
    BY <2>1 DEF ScanOK
  <2>4. QED
    BY <2>2, <2>3
<1>5. CASE ListReady(v)
  <2>1. /\ pc'[v] = "scan ready" /\ others'[v] = Files("ready")
        /\ pc[v] = "list ready" /\ UNCHANGED <<cur, verdict>>
    BY <1>5 DEF ListReady
  <2>2. QED
    BY <2>1 DEF MoveOK, ScanOK, Files
<1>6. CASE ListDrafts(v)
  <2>1. /\ pc[v] = "scan ready" /\ others[v] = {} /\ pc'[v] = "scan drafts"
        /\ UNCHANGED <<cur, verdict>>
    BY <1>6 DEF ListDrafts
  <2>2. QED
    BY <2>1 DEF MoveOK, ScanOK, Clear
<1>7. CASE ReadOther(v)
  <2>1. UNCHANGED <<cur, verdict>> /\ verdict[v] = "rejected"
    BY <1>7, ScanSteps DEF ScanOK, Stop
  <2>2. CASE pc'[v] \in {"idle", "move"}
    BY <2>1, <2>2 DEF MoveOK, ScanOK
  <2>3. CASE pc[v] = "scan drafts" /\ pc'[v] = "scan drafts"
    BY <2>1, <2>3 DEF MoveOK, ScanOK, Clear
  <2>4. CASE pc[v] = "scan ready" /\ pc'[v] = "scan ready"
    <3>0. ~Stop(v) /\ ~(pc' = [pc EXCEPT ![v] = "move"])
      BY <2>4 DEF Stop
    <3>3. PICK g \in others[v] :
            ~OverlapSeen(v, g) /\ others' = [others EXCEPT ![v] = others[v] \ {g}]
      BY <1>7, <3>0, ScanSteps
    <3>1. ~OverlapSeen(v, g) /\ others'[v] = others[v] \ {g}
      BY <3>3
    <3>2. ~(dir["ready"][g] = "good" /\ <<cur[v], g>> \in Overlaps)
      BY <2>4, <3>1 DEF OverlapSeen, Other
    <3>4. QED
      BY <2>1, <2>4, <3>1, <3>2 DEF MoveOK, ScanOK
  <2>5. /\ pc[v] \in {"scan ready", "scan drafts"}
        /\ pc'[v] \in {"idle", "move", pc[v]}
    <3>1. \E s \in {"idle", "move", pc[v]} : pc' = [pc EXCEPT ![v] = s]
      BY <1>7, ScanSteps DEF Stop
    <3>2. QED
      BY <1>7, <3>1, ScanSteps
  <2>6. QED
    BY <2>2, <2>3, <2>4, <2>5
<1>8. CASE Judge(v)
  <2>1. /\ pc[v] = "scan drafts" /\ pc'[v] = "move" /\ UNCHANGED cur
    BY <1>8 DEF Judge
  <2>2. QED
    BY <2>1 DEF MoveOK, ScanOK, Clear
<1>9. CASE ReadDraft(v)
  <2>1. /\ pc[v] = "move" /\ pc'[v] = "write" /\ UNCHANGED <<cur, verdict>>
        /\ text'[v] = dir["drafts"][cur[v]] /\ text'[v] # "none"
    BY <1>9 DEF ReadDraft
  <2>2. text'[v] \in Texts /\ cur[v] \in Files("drafts")
    BY <2>1 DEF DraftsAreWhole, Files
  <2>3. QED
    BY <2>1, <2>2 DEF MoveOK, ScanOK, Clear, Files
<1>10. QED
  BY <1>3, <1>4, <1>5, <1>6, <1>7, <1>8, <1>9 DEF Step

(* Steps of a move that change a file.                                     *)
LEMMA WritingStep ==
  ASSUME GateInv, NEW v \in Validators,
         RenamePlain(v) \/ OpenCopy(v) \/ FillCopy(v) \/ Unlink(v),
         TypeOK'
  PROVE  GateInv'
<1> SUFFICES /\ DraftsAreWhole' /\ NoFindLost' /\ ReadyIsDisjoint'
             /\ MoveOK(v)' /\ ScanOK(v)'
  BY OwnStep DEF Step
<1> DEFINE f == cur[v]
           d == verdict[v]
<1>1. /\ f \in Finds /\ d \in Dirs /\ d # "drafts" /\ dir \in Tree
      /\ "drafts" \in Dirs /\ "ready" \in Dirs /\ "rejected" \in Dirs
      /\ written \subseteq Finds /\ text[v] \in Contents
      /\ \A s : [pc EXCEPT ![v] = s][v] = s
  BY DEF GateInv, TypeOK, Dirs, Tree
<1>0. /\ "cut" \in Contents /\ "none" \in Contents /\ "plain" \in Contents
      /\ Texts \subseteq Contents /\ \A t \in Contents : Rewritten(t) \in Contents
  BY DEF Contents, Texts, Rewritten
<1> /\ DraftsAreWhole /\ NoFindLost /\ ReadyIsDisjoint
    /\ MoveOK(v) /\ ScanOK(v)
  BY DEF GateInv
<1>2. UNCHANGED <<written, cur, verdict, text>>
  BY DEF RenamePlain, OpenCopy, FillCopy, Unlink
<1>3. CASE OpenCopy(v)
  <2>1. pc[v] = "write" /\ pc'[v] = "fill"
    BY <1>1, <1>3 DEF OpenCopy
  <2>2. \A e \in Dirs, g \in Finds :
          dir'[e][g] = IF e = d /\ g = f THEN "cut" ELSE dir[e][g]
    BY <1>0, <1>1, <1>3, PutValue DEF OpenCopy
  <2>3. DraftsAreWhole'
    BY <1>1, <2>2 DEF DraftsAreWhole
  <2>4. dir'["drafts"][f] \in Texts
    BY <1>1, <2>1, <2>2 DEF MoveOK, DraftsAreWhole, Files
  <2>5. NoFindLost'
    BY <1>1, <1>2, <2>2, <2>4 DEF NoFindLost, Texts
  <2>6. ReadyIsDisjoint'
    BY <1>1, <2>2 DEF ReadyIsDisjoint, Dirs
  <2>7. MoveOK(v)' /\ ScanOK(v)'
    BY <1>1, <1>2, <2>1, <2>2 DEF MoveOK, ScanOK, Clear, Dirs
  <2>8. QED
    BY <2>3, <2>5, <2>6, <2>7
<1>4. CASE FillCopy(v)
  <2> DEFINE t == Rewritten(text[v])
  <2>1. pc[v] = "fill" /\ pc'[v] = "unlink" /\ t \notin {"none", "cut"}
    BY <1>1, <1>4 DEF FillCopy, MoveOK, Rewritten, Texts
  <2>2. \A e \in Dirs, g \in Finds :
          dir'[e][g] = IF e = d /\ g = f THEN t ELSE dir[e][g]
    BY <1>0, <1>1, <1>4, PutValue DEF FillCopy
  <2> HIDE DEF t
  <2>3. DraftsAreWhole'
    BY <1>1, <2>2 DEF DraftsAreWhole
  <2>4. NoFindLost'
    BY <1>1, <1>2, <2>1, <2>2 DEF NoFindLost
  <2>5. ReadyIsDisjoint'
    <3>1. CASE d = "ready"
      <4>1. Clear(v)
        BY <2>1, <3>1 DEF ScanOK
      <4>2. \A g \in Finds \ {f} : dir["ready"][g] = "good" =>
              <<f, g>> \notin Overlaps /\ <<g, f>> \notin Overlaps
        BY <1>1, <4>1, OverlapsAssumption DEF Clear
      <4>3. QED
        BY <1>1, <2>2, <4>2 DEF ReadyIsDisjoint, Dirs
    <3>2. CASE d # "ready"
      BY <1>1, <2>2, <3>2 DEF ReadyIsDisjoint, Dirs
    <3>3. QED
      BY <3>1, <3>2
  <2>6. MoveOK(v)' /\ ScanOK(v)'
    BY <1>1, <1>2, <2>1, <2>2 DEF MoveOK, ScanOK, Clear, Dirs
  <2>7. QED
    BY <2>3, <2>4, <2>5, <2>6
<1>5. CASE Unlink(v)
  <2>1. pc[v] = "unlink" /\ pc'[v] = "load"
    BY <1>1, <1>5 DEF Unlink
  <2>2. \A e \in Dirs, g \in Finds :
          dir'[e][g] = IF e = "drafts" /\ g = f THEN "none" ELSE dir[e][g]
    BY <1>0, <1>1, <1>5, PutValue DEF Unlink
  <2>3. DraftsAreWhole'
    BY <1>1, <2>2 DEF DraftsAreWhole
  <2>4. dir'[d][f] \notin {"none", "cut"}
    BY <1>1, <2>1, <2>2 DEF MoveOK
  <2>5. NoFindLost'
    BY <1>1, <1>2, <2>2, <2>4 DEF NoFindLost
  <2>6. ReadyIsDisjoint'
    BY <1>1, <2>2 DEF ReadyIsDisjoint, Dirs
  <2>7. MoveOK(v)' /\ ScanOK(v)'
    BY <2>1 DEF MoveOK, ScanOK
  <2>8. QED
    BY <2>3, <2>5, <2>6, <2>7
<1>6. CASE RenamePlain(v)
  <2> DEFINE D == [dir EXCEPT ![d][f] = "plain"]
  <2>1. pc'[v] = "next"
    BY <1>1, <1>6 DEF RenamePlain
  <2>2. D \in Tree
    BY <1>0, <1>1, PutTypes
  <2>3. \A e \in Dirs, g \in Finds :
          D[e][g] = IF e = d /\ g = f THEN "plain" ELSE dir[e][g]
    BY <1>0, <1>1, PutValue
  <2>4. dir' = [D EXCEPT !["drafts"][f] = "none"]
    BY <1>6 DEF RenamePlain
  <2> HIDE DEF D
  <2>5. \A e \in Dirs, g \in Finds :
          dir'[e][g] = IF e = "drafts" /\ g = f THEN "none" ELSE D[e][g]
    BY <1>0, <1>1, <2>2, <2>4, PutValue
  <2>6. DraftsAreWhole'
    BY <1>1, <2>3, <2>5 DEF DraftsAreWhole
  <2>7. NoFindLost'
    BY <1>1, <1>2, <2>3, <2>5 DEF NoFindLost
  <2>8. ReadyIsDisjoint'
    BY <1>1, <2>3, <2>5 DEF ReadyIsDisjoint, Dirs
  <2>9. MoveOK(v)' /\ ScanOK(v)'
    BY <2>1 DEF MoveOK, ScanOK
  <2>10. QED
    BY <2>6, <2>7, <2>8, <2>9
<1>7. QED
  BY <1>3, <1>4, <1>5, <1>6

(* Agents add drafts at any time; the fixer waits for runs to end.         *)
LEMMA AuthorStep ==
  ASSUME GateInv, TypeOK',
         Agents \/ (Fixer /\ \A v \in Validators : ~Busy(v))
  PROVE  GateInv'
<1> /\ DraftsAreWhole /\ NoFindLost /\ ReadyIsDisjoint /\ OneRun
    /\ \A v \in Validators : MoveOK(v) /\ ScanOK(v)
  BY DEF GateInv
<1> SUFFICES /\ DraftsAreWhole' /\ NoFindLost' /\ ReadyIsDisjoint'
             /\ \A v \in Validators : MoveOK(v)' /\ ScanOK(v)'
  <2>1. UNCHANGED pc
    BY DEF Agents, Fixer, WriteDraft, ReturnDraft, validating
  <2>2. QED
    BY <2>1 DEF GateInv, OneRun, Busy
<1>1. UNCHANGED validating
  BY DEF Agents, Fixer, WriteDraft, ReturnDraft
<1>2. /\ "drafts" \in Dirs /\ "ready" \in Dirs /\ "rejected" \in Dirs
      /\ Dirs = {"drafts", "ready", "rejected"} /\ "none" \in Contents
      /\ Texts \subseteq Contents
  BY DEF Dirs, Contents
<1>3. /\ dir \in Tree /\ written \subseteq Finds
      /\ \A v \in Validators : cur[v] \in Finds /\ verdict[v] \in Dirs
  BY DEF GateInv, TypeOK, Tree, Dirs
<1>4. CASE Agents
  <2>1. PICK f \in Finds, t \in Texts : WriteDraft(f, t)
    BY <1>4 DEF Agents
  <2>2. \A e \in Dirs, g \in Finds :
          dir'[e][g] = IF e = "drafts" /\ g = f THEN t ELSE dir[e][g]
    BY <1>2, <1>3, <2>1, PutValue DEF WriteDraft
  <2>3. DraftsAreWhole' /\ ReadyIsDisjoint'
    BY <1>2, <2>2 DEF DraftsAreWhole, ReadyIsDisjoint
  <2>4. NoFindLost'
    BY <1>2, <1>3, <2>1, <2>2 DEF NoFindLost, WriteDraft, Texts
  <2>5. ASSUME NEW v \in Validators PROVE MoveOK(v)' /\ ScanOK(v)'
    <3>1. \A e \in Dirs, g \in Finds :
            dir[e][g] \notin {"none", "cut"} => dir'[e][g] \notin {"none", "cut"}
      BY <2>2 DEF Texts
    <3>2. MoveOK(v)'
      BY <1>1, <1>2, <1>3, <2>2, <3>1 DEF MoveOK, Files, validating, Texts
    <3>3. ScanOK(v)'
      BY <1>1, <1>2, <2>2 DEF ScanOK, Clear, validating
    <3>4. QED
      BY <3>2, <3>3
  <2>6. QED
    BY <2>3, <2>4, <2>5
<1>5. CASE Fixer /\ \A v \in Validators : ~Busy(v)
  <2>1. PICK f \in Finds, t \in Texts : ReturnDraft(f, t)
    BY <1>5 DEF Fixer
  <2> DEFINE D == [dir EXCEPT !["rejected"][f] = "none"]
  <2>2. D \in Tree
    BY <1>2, <1>3, PutTypes
  <2>3. \A e \in Dirs, g \in Finds :
          D[e][g] = IF e = "rejected" /\ g = f THEN "none" ELSE dir[e][g]
    BY <1>2, <1>3, PutValue
  <2>4. dir' = [D EXCEPT !["drafts"][f] = t]
    BY <2>1 DEF ReturnDraft
  <2> HIDE DEF D
  <2>5. \A e \in Dirs, g \in Finds :
          dir'[e][g] = IF e = "drafts" /\ g = f THEN t ELSE D[e][g]
    BY <1>2, <2>2, <2>4, PutValue
  <2>6. DraftsAreWhole' /\ ReadyIsDisjoint'
    BY <1>2, <2>3, <2>5 DEF DraftsAreWhole, ReadyIsDisjoint
  <2>7. NoFindLost'
    <3>1. UNCHANGED written
      BY <2>1 DEF ReturnDraft
    <3>2. QED
      BY <1>2, <1>3, <2>3, <2>5, <3>1 DEF NoFindLost, Texts
  <2>8. ASSUME NEW v \in Validators PROVE MoveOK(v)' /\ ScanOK(v)'
    <3>1. pc'[v] = "idle"
      BY <1>1, <1>5 DEF Busy, validating
    <3>2. QED
      BY <3>1 DEF MoveOK, ScanOK
  <2>9. QED
    BY <2>6, <2>7, <2>8
<1>6. QED
  BY <1>4, <1>5

(* GateInv is inductive.                                                   *)
LEMMA GateInvariant == SerialSpec => []GateInv
<1>1. Init => GateInv
  <2> SUFFICES ASSUME Init PROVE GateInv
    OBVIOUS
  <2>1. TypeOK
    BY BoundsAssumption DEF Init, TypeOK, Contents, Texts, Dirs
  <2>2. QED
    BY <2>1 DEF Init, GateInv, OneRun, Busy, DraftsAreWhole, MoveOK, ScanOK,
                NoFindLost, ReadyIsDisjoint, Dirs
<1>2. GateInv /\ [SerialNext]_vars => GateInv'
  <2> SUFFICES ASSUME GateInv, [SerialNext]_vars PROVE GateInv'
    OBVIOUS
  <2>1. [Next]_vars
    BY DEF SerialNext, Next
  <2>2. TypeOK'
    BY <2>1, GateTypeStep DEF GateInv
  <2>3. CASE UNCHANGED vars
    BY <2>3 DEF vars, validating, counters, GateInv, TypeOK, OneRun, Busy,
                DraftsAreWhole, MoveOK, ScanOK, Clear, Files, NoFindLost,
                ReadyIsDisjoint
  <2>4. CASE Agents \/ (Fixer /\ \A v \in Validators : ~Busy(v))
    BY <2>2, <2>4, AuthorStep
  <2>5. ASSUME NEW v \in Validators,
               (Alone(v) /\ Start(v)) \/ Step(v) \/ Crash(v)
        PROVE  GateInv'
    BY <2>2, <2>5, ReadingStep, WritingStep
  <2>6. QED
    BY <2>3, <2>4, <2>5 DEF SerialNext
<1>3. QED
  BY <1>1, <1>2, PTL DEF SerialSpec

(* With one run at a time, no kill at any step loses a card: some whole    *)
(* copy of every card that an agent wrote is in one of the directories.    *)
THEOREM NoCardIsLost == SerialSpec => []NoFindLost
<1>1. GateInv => NoFindLost
  BY DEF GateInv
<1>2. QED
  BY <1>1, GateInvariant, PTL

(* With one run at a time, ready/ never holds two cards that overlap,      *)
(* whatever the agents add during the scans and wherever runs are killed.  *)
THEOREM ReadyStaysDisjoint == SerialSpec => []ReadyIsDisjoint
<1>1. GateInv => ReadyIsDisjoint
  BY DEF GateInv
<1>2. QED
  BY <1>1, GateInvariant, PTL
=============================================================================
