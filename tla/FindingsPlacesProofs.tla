-------------------------- MODULE FindingsPlacesProofs --------------------------
(***************************************************************************)
(* Where the cards of the FIND gate are, for any cards, overlaps and       *)
(* bounds: races of runs lose none and, with one run at a time and none    *)
(* killed, each is in one directory, the FSM store agrees with it, and the *)
(* gate implements the abstract one of FindGate.                           *)
(***************************************************************************)
EXTENDS FindingsProofs

Copies == {"ready", "rejected"}

Whole(d, f) == dir[d][f] \notin {"none", "cut"}

-----------------------------------------------------------------------------
(* The inductive invariant of racing runs.                                 *)

(* A card that may lose its draft: a copy of it is whole, or some run that *)
(* has truncated one is about to fill it.                                  *)
Filling(f) == \E v \in Validators : pc[v] = "fill" /\ cur[v] = f
Safe(f) == (\E d \in Copies : Whole(d, f)) \/ Filling(f)

Undisturbed == crashes = 0 /\ returns = 0

RaceInv ==
    /\ TypeOK
    /\ DraftsAreWhole
    /\ \A v \in Validators : pc[v] \in {"write", "fill"} => text[v] \in Texts
    /\ Undisturbed =>
          /\ \A f \in written : f \in Files("drafts") \/ Safe(f)
          /\ \A v \in Validators : pc[v] = "unlink" => Safe(cur[v])

-----------------------------------------------------------------------------
(* The inductive invariant of the places, for one run at a time.           *)

(* The run is between the copy of its target and the unlink of the draft,  *)
Moving(v) == pc[v] \in {"fill", "unlink"}

(* and between the copy and the record in the store.                       *)
Recording(v) == pc[v] \in {"fill", "unlink", "load", "save"}

(* A card is in the directory d and in no other.                           *)
OnlyIn(d, f) ==
    /\ dir[d][f] # "none"
    /\ \A e \in Dirs \ {d} : dir[e][f] = "none"

(* The targets of a run are drafts until it moves them: the draft of the   *)
(* one it is at is there until the unlink, and its copy from then on.      *)
TargetInv(v) ==
    /\ pc[v] # "idle" => todo[v] \subseteq Files("drafts")
    /\ pc[v] \in {"list ready", "scan ready", "scan drafts", "move", "write"} =>
          cur[v] \notin todo[v] /\ OnlyIn("drafts", cur[v])
    /\ Moving(v) =>
          /\ cur[v] \notin todo[v] /\ cur[v] \in Files("drafts")
          /\ \A d \in Copies : dir[d][cur[v]] = "none" <=> d # verdict[v]
    /\ pc[v] = "unlink" => dir[verdict[v]][cur[v]] # "plain"
    /\ pc[v] \in {"load", "save"} =>
          OnlyIn(verdict[v], cur[v]) /\ dir[verdict[v]][cur[v]] # "plain"
    /\ pc[v] = "save" =>
          mem[v] = [state EXCEPT ![cur[v]] = StateOf[verdict[v]]]

(* A target that may pass, or has passed, is a card with frontmatter.      *)
PassInv(v) ==
    /\ \/ pc[v] \in {"list ready", "scan ready", "scan drafts"}
       \/ pc[v] = "move" /\ verdict[v] = "ready"
       => dir["drafts"][cur[v]] = "good"
    /\ pc[v] \in {"write", "fill"} => text[v] # "plain"
    /\ pc[v] \in {"write", "fill"} /\ verdict[v] = "ready" => text[v] = "good"
    /\ pc[v] = "unlink" /\ verdict[v] = "ready" => dir["ready"][cur[v]] = "good"

CardInv(f) ==
    /\ f \notin written => \A d \in Dirs : dir[d][f] = "none"
    /\ f \in written =>
          \/ \E d \in Dirs : OnlyIn(d, f)
          \/ \E v \in Validators : cur[v] = f /\ Moving(v)
    /\ dir["ready"][f] \in {"none", "good"} \/ Filling(f)
    /\ \A d \in Copies : dir[d][f] \notin {"none", "plain"} =>
          \/ state[f] = StateOf[d]
          \/ \E v \in Validators : cur[v] = f /\ Recording(v)

Placed ==
    /\ \A v \in Validators : TargetInv(v) /\ PassInv(v)
    /\ \A f \in Finds : CardInv(f)

PlaceInv == GateInv /\ (crashes = 0 => Placed)
-----------------------------------------------------------------------------
(* What each step that changes a file leaves in the directories.           *)
LEMMA TreeTypes ==
  ASSUME TypeOK
  PROVE  /\ dir \in Tree /\ Dirs = {"drafts", "ready", "rejected"}
         /\ written \subseteq Finds
         /\ \A v \in Validators :
               /\ cur[v] \in Finds /\ verdict[v] \in Copies
               /\ text[v] \in Contents /\ Rewritten(text[v]) \in Contents
         /\ {"none", "cut", "plain"} \cup Texts \subseteq Contents
BY DEF TypeOK, Tree, Dirs, Copies, Contents, Texts, Rewritten

LEMMA WriteDraftValues ==
  ASSUME TypeOK, NEW f \in Finds, NEW t \in Texts, WriteDraft(f, t)
  PROVE  \A e \in Dirs, g \in Finds :
            dir'[e][g] = IF e = "drafts" /\ g = f THEN t ELSE dir[e][g]
BY TreeTypes, PutValue DEF WriteDraft

LEMMA ReturnDraftValues ==
  ASSUME TypeOK, NEW f \in Finds, NEW t \in Texts, ReturnDraft(f, t)
  PROVE  \A e \in Dirs, g \in Finds :
            dir'[e][g] = IF g # f THEN dir[e][g]
                         ELSE IF e = "drafts" THEN t
                         ELSE IF e = "rejected" THEN "none" ELSE dir[e][g]
<1> DEFINE D == [dir EXCEPT !["rejected"][f] = "none"]
<1>1. D \in Tree
  BY TreeTypes, PutTypes
<1>2. \A e \in Dirs, g \in Finds :
        D[e][g] = IF e = "rejected" /\ g = f THEN "none" ELSE dir[e][g]
  BY TreeTypes, PutValue
<1>3. dir' = [D EXCEPT !["drafts"][f] = t]
  BY DEF ReturnDraft
<1> HIDE DEF D
<1>4. \A e \in Dirs, g \in Finds :
        dir'[e][g] = IF e = "drafts" /\ g = f THEN t ELSE D[e][g]
  BY <1>1, <1>3, TreeTypes, PutValue
<1>5. QED
  BY <1>2, <1>4, TreeTypes

LEMMA RenamePlainValues ==
  ASSUME TypeOK, NEW v \in Validators, RenamePlain(v)
  PROVE  \A e \in Dirs, g \in Finds :
            dir'[e][g] = IF g # cur[v] THEN dir[e][g]
                         ELSE IF e = "drafts" THEN "none"
                         ELSE IF e = verdict[v] THEN "plain" ELSE dir[e][g]
<1> DEFINE D == [dir EXCEPT ![verdict[v]][cur[v]] = "plain"]
<1>0. verdict[v] \in Dirs \ {"drafts"} /\ cur[v] \in Finds
  BY TreeTypes DEF Copies
<1>1. D \in Tree
  BY <1>0, TreeTypes, PutTypes
<1>2. \A e \in Dirs, g \in Finds :
        D[e][g] = IF e = verdict[v] /\ g = cur[v] THEN "plain" ELSE dir[e][g]
  BY <1>0, TreeTypes, PutValue
<1>3. dir' = [D EXCEPT !["drafts"][cur[v]] = "none"]
  BY DEF RenamePlain
<1> HIDE DEF D
<1>4. \A e \in Dirs, g \in Finds :
        dir'[e][g] = IF e = "drafts" /\ g = cur[v] THEN "none" ELSE D[e][g]
  <2>1. "drafts" \in Dirs /\ "none" \in Contents
    BY DEF Dirs, Contents
  <2>2. QED
    BY <1>0, <1>1, <1>3, <2>1, PutValue
<1>5. ASSUME NEW e \in Dirs, NEW g \in Finds
      PROVE  dir'[e][g] = IF g # cur[v] THEN dir[e][g]
                          ELSE IF e = "drafts" THEN "none"
                          ELSE IF e = verdict[v] THEN "plain" ELSE dir[e][g]
  <2>1. dir'[e][g] = IF e = "drafts" /\ g = cur[v] THEN "none" ELSE D[e][g]
    BY <1>4
  <2>2. D[e][g] = IF e = verdict[v] /\ g = cur[v] THEN "plain" ELSE dir[e][g]
    BY <1>2
  <2>3. QED
    BY <2>1, <2>2
<1>6. QED
  BY <1>5

LEMMA CopyValues ==
  ASSUME TypeOK, NEW v \in Validators
  PROVE  /\ OpenCopy(v) => \A e \in Dirs, g \in Finds :
               dir'[e][g] = IF e = verdict[v] /\ g = cur[v] THEN "cut" ELSE dir[e][g]
         /\ FillCopy(v) => \A e \in Dirs, g \in Finds :
               dir'[e][g] = IF e = verdict[v] /\ g = cur[v]
                            THEN Rewritten(text[v]) ELSE dir[e][g]
         /\ Unlink(v) => \A e \in Dirs, g \in Finds :
               dir'[e][g] = IF e = "drafts" /\ g = cur[v] THEN "none" ELSE dir[e][g]
<1> verdict[v] \in Dirs /\ cur[v] \in Finds
  BY TreeTypes DEF Copies
<1>1. OpenCopy(v) => dir' = [dir EXCEPT ![verdict[v]][cur[v]] = "cut"]
  BY DEF OpenCopy
<1>2. FillCopy(v) => dir' = [dir EXCEPT ![verdict[v]][cur[v]] = Rewritten(text[v])]
  BY DEF FillCopy
<1>3. Unlink(v) => dir' = [dir EXCEPT !["drafts"][cur[v]] = "none"]
  BY DEF Unlink
<1>4. QED
  BY <1>1, <1>2, <1>3, TreeTypes, PutValue

-----------------------------------------------------------------------------
(* The steps that change no file, and what else they leave alone.          *)
LEMMA ReaderStep ==
  ASSUME TypeOK, NEW v \in Validators, Start(v) \/ Step(v) \/ StoreFails(v),
         ~(RenamePlain(v) \/ OpenCopy(v) \/ FillCopy(v) \/ Unlink(v))
  PROVE  /\ UNCHANGED <<dir, written, returns, crashes>>
         /\ pc[v] \notin {"write", "fill"}
         /\ pc'[v] \notin {"fill", "unlink"}
         /\ pc'[v] = "write" => /\ text'[v] = dir["drafts"][cur[v]]
                                /\ text'[v] \notin {"none", "plain"}
                                /\ pc[v] = "move" /\ UNCHANGED cur
         /\ \A w \in Validators \ {v} :
               UNCHANGED <<pc[w], cur[w], text[w], verdict[w]>>
<1> USE DEF TypeOK, counters
<1>1. CASE Check(v)
  BY <1>1 DEF Check
<1>2. CASE ReadOther(v)
  <2>1. /\ UNCHANGED <<dir, written, counters, cur, text, verdict>>
        /\ pc[v] \in {"scan ready", "scan drafts"}
    BY <1>2, ScanSteps DEF Stop
  <2>2. \E s \in {"idle", "move", pc[v]} : pc' = [pc EXCEPT ![v] = s]
    BY <1>2, ScanSteps DEF Stop
  <2>3. QED
    BY <2>1, <2>2
<1>3. CASE ReadDraft(v)
  BY <1>3 DEF ReadDraft
<1>4. CASE Start(v)
  BY <1>4 DEF Start
<1>5. CASE Finish(v) \/ CheckRaises(v) \/ DraftGone(v) \/ MoveRaises(v) \/ StoreFails(v)
  <2>1. pc[v] \notin {"write", "fill"}
    BY <1>5 DEF Finish, CheckRaises, DraftGone, MoveRaises, StoreFails
  <2>2. Stop(v) /\ UNCHANGED <<dir, state, written, counters>>
    BY <1>5, HaltSteps
  <2>3. QED
    BY <2>1, <2>2 DEF Stop
<1>6. CASE ListReady(v) \/ ListDrafts(v)
  BY <1>6 DEF ListReady, ListDrafts
<1>7. CASE Judge(v)
  BY <1>7 DEF Judge
<1>8. CASE LoadState(v) \/ SaveState(v)
  BY <1>8 DEF LoadState, SaveState
<1>9. QED
  BY <1>1, <1>2, <1>3, <1>4, <1>5, <1>6, <1>7, <1>8 DEF Step

(* Once a run was killed or a card returned, the counters say so.          *)
LEMMA CountersAreNat ==
  ASSUME TypeOK
  PROVE  returns + 1 # 0 /\ crashes + 1 # 0
<1>1. returns \in 0..MaxReturns /\ crashes \in 0..MaxCrashes
  BY DEF TypeOK
<1>2. QED
  BY <1>1, BoundsAssumption

LEMMA RacePreserved ==
  ASSUME RaceInv, [Next]_vars PROVE RaceInv'
<1> USE DEF RaceInv
<1>1. TypeOK'
  BY GateTypeStep
<1> SUFFICES ASSUME ~UNCHANGED vars PROVE RaceInv'
  BY <1>1 DEF vars, validating, counters, DraftsAreWhole, Undisturbed, Files, Safe,
              Filling, Whole
<1>2. CASE Agents
  <2>1. PICK f \in Finds, t \in Texts : WriteDraft(f, t)
    BY <1>2 DEF Agents
  <2>2. UNCHANGED <<pc, cur, text, crashes, returns>> /\ written' = written \cup {f}
    BY <2>1 DEF WriteDraft, validating, counters
  <2>3. \A e \in Dirs, g \in Finds :
          dir'[e][g] = IF e = "drafts" /\ g = f THEN t ELSE dir[e][g]
    BY <2>1, WriteDraftValues
  <2>4. \A g \in Finds : Safe(g) => Safe(g)'
    BY <2>2, <2>3, TreeTypes DEF Safe, Whole, Filling, Copies
  <2>5. QED
    BY <1>1, <2>2, <2>3, <2>4, TreeTypes DEF DraftsAreWhole, Undisturbed, Files, Texts
<1>3. CASE Fixer
  <2>1. PICK f \in Finds, t \in Texts : ReturnDraft(f, t)
    BY <1>3 DEF Fixer
  <2>2. UNCHANGED <<pc, cur, text>> /\ ~Undisturbed'
    BY <2>1, CountersAreNat DEF ReturnDraft, validating, Undisturbed
  <2>3. DraftsAreWhole'
    BY <2>1, ReturnDraftValues, TreeTypes DEF DraftsAreWhole
  <2>4. QED
    BY <1>1, <2>2, <2>3
<1>4. ASSUME NEW v \in Validators, Crash(v) PROVE RaceInv'
  <2>1. ~Undisturbed' /\ UNCHANGED <<dir, text>> /\ pc' = [pc EXCEPT ![v] = "idle"]
    BY <1>4, CountersAreNat DEF Crash, Stop, Undisturbed
  <2>2. DraftsAreWhole' /\ \A w \in Validators : pc'[w] \in {pc[w], "idle"}
    BY <2>1 DEF DraftsAreWhole, TypeOK
  <2>3. QED
    BY <1>1, <2>1, <2>2
<1>5. ASSUME NEW v \in Validators, Start(v) \/ Step(v) \/ StoreFails(v)
      PROVE  RaceInv'
  <2>1. CASE ~(RenamePlain(v) \/ OpenCopy(v) \/ FillCopy(v) \/ Unlink(v))
    <3> USE <1>5, <2>1, ReaderStep
    <3>1. DraftsAreWhole'
      BY DEF DraftsAreWhole
    <3>2. \A g \in Finds : Safe(g) => Safe(g)'
      BY DEF Safe, Whole, Filling
    <3>3. \A w \in Validators : pc'[w] \in {"write", "fill"} => text'[w] \in Texts
      BY TreeTypes DEF DraftsAreWhole
    <3>4. QED
      BY <1>1, <3>1, <3>2, <3>3, TreeTypes DEF Undisturbed, Files
  <2>2. ASSUME RenamePlain(v) \/ OpenCopy(v) \/ FillCopy(v) \/ Unlink(v)
        PROVE  /\ UNCHANGED <<written, cur, text, verdict, crashes, returns>>
               /\ \A w \in Validators \ {v} : pc'[w] = pc[w]
               /\ RenamePlain(v) => pc[v] = "move" /\ pc'[v] = "next"
               /\ OpenCopy(v) => pc[v] = "write" /\ pc'[v] = "fill"
               /\ FillCopy(v) => pc[v] = "fill" /\ pc'[v] = "unlink"
               /\ Unlink(v) => pc[v] = "unlink" /\ pc'[v] = "load"
    BY <2>2 DEF RenamePlain, OpenCopy, FillCopy, Unlink, counters, TypeOK
  <2>3. /\ cur[v] \in Finds /\ verdict[v] \in Copies
        /\ Copies = Dirs \ {"drafts"}
    BY TreeTypes DEF Copies
  <2>4. CASE RenamePlain(v)
    <3>1. \A e \in Dirs, g \in Finds :
            dir'[e][g] = IF g # cur[v] THEN dir[e][g]
                         ELSE IF e = "drafts" THEN "none"
                         ELSE IF e = verdict[v] THEN "plain" ELSE dir[e][g]
      BY <2>4, RenamePlainValues
    <3>2. DraftsAreWhole' /\ Safe(cur[v])' /\ \A g \in Finds : Safe(g) => Safe(g)'
      BY <2>2, <2>3, <2>4, <3>1, TreeTypes DEF DraftsAreWhole, Safe, Whole, Filling
    <3>3. QED
      BY <1>1, <2>2, <2>3, <2>4, <3>1, <3>2, TreeTypes DEF Undisturbed, Files
  <2>5. CASE OpenCopy(v)
    <3>1. \A e \in Dirs, g \in Finds :
            dir'[e][g] = IF e = verdict[v] /\ g = cur[v] THEN "cut" ELSE dir[e][g]
      BY <2>5, CopyValues
    <3>2. DraftsAreWhole' /\ Safe(cur[v])' /\ \A g \in Finds : Safe(g) => Safe(g)'
      BY <2>2, <2>3, <2>5, <3>1, TreeTypes DEF DraftsAreWhole, Safe, Whole, Filling
    <3>3. QED
      BY <1>1, <2>2, <2>3, <2>5, <3>1, <3>2, TreeTypes DEF Undisturbed, Files
  <2>6. CASE FillCopy(v)
    <3>1. \A e \in Dirs, g \in Finds :
            dir'[e][g] = IF e = verdict[v] /\ g = cur[v]
                         THEN Rewritten(text[v]) ELSE dir[e][g]
      BY <2>6, CopyValues
    <3>2. Rewritten(text[v]) \notin {"none", "cut"}
      BY <2>2, <2>6 DEF Rewritten, Texts
    <3>3. DraftsAreWhole' /\ Safe(cur[v])' /\ \A g \in Finds : Safe(g) => Safe(g)'
      BY <2>2, <2>3, <2>6, <3>1, <3>2, TreeTypes DEF DraftsAreWhole, Safe, Whole, Filling
    <3>4. QED
      BY <1>1, <2>2, <2>3, <2>6, <3>1, <3>3, TreeTypes DEF Undisturbed, Files
  <2>7. CASE Unlink(v)
    <3>1. \A e \in Dirs, g \in Finds :
            dir'[e][g] = IF e = "drafts" /\ g = cur[v] THEN "none" ELSE dir[e][g]
      BY <2>7, CopyValues
    <3>2. DraftsAreWhole' /\ \A g \in Finds : Safe(g) => Safe(g)'
      BY <2>2, <2>3, <2>7, <3>1, TreeTypes DEF DraftsAreWhole, Safe, Whole, Filling
    <3>3. QED
      BY <1>1, <2>2, <2>3, <2>7, <3>1, <3>2, TreeTypes DEF Undisturbed, Files
  <2>8. QED
    BY <2>1, <2>4, <2>5, <2>6, <2>7
<1>6. QED
  BY <1>2, <1>3, <1>4, <1>5 DEF Next

(* Runs that race for the same drafts lose no card as long as none is      *)
(* killed and no card is returned: the last of them to truncate a copy     *)
(* fills it, and a draft is unlinked only after a copy of it was filled.   *)
THEOREM RacesNeverLose == Spec => []RacesLoseNothing
<1>1. Init => RaceInv
  <2> SUFFICES ASSUME Init PROVE RaceInv
    OBVIOUS
  <2>1. TypeOK
    BY BoundsAssumption DEF Init, TypeOK, Contents, Texts, Dirs
  <2>2. QED
    BY <2>1 DEF Init, RaceInv, DraftsAreWhole, Dirs
<1>2. RaceInv => RacesLoseNothing
  BY TreeTypes DEF RaceInv, RacesLoseNothing, Undisturbed, NoFindLost, DraftsAreWhole, Safe,
                   Filling, Busy, Files, Whole, Copies, Texts
<1>3. QED
  BY <1>1, <1>2, RacePreserved, PTL DEF Spec
-----------------------------------------------------------------------------
(* The invariant of the places is inductive.                               *)

(* What is left to show of a step of the only run.                         *)
LEMMA OwnPlaces ==
  ASSUME GateInv, NEW v \in Validators, (Alone(v) /\ Start(v)) \/ Step(v),
         TargetInv(v)', PassInv(v)', \A f \in Finds : CardInv(f)'
  PROVE  Placed'
<1>1. \A w \in Validators \ {v} : pc'[w] = "idle"
  BY OthersIdle
<1>2. \A w \in Validators \ {v} : TargetInv(w)' /\ PassInv(w)'
  BY <1>1 DEF TargetInv, PassInv, Moving
<1>3. QED
  BY <1>2 DEF Placed

(* A run that is not between the copy and the record of its target changes *)
(* nothing for the cards by reading.                                       *)
LEMMA CardsStay ==
  ASSUME TypeOK, Placed, NEW v \in Validators, Start(v) \/ Step(v),
         ~(RenamePlain(v) \/ OpenCopy(v) \/ FillCopy(v) \/ Unlink(v)),
         ~Recording(v), UNCHANGED state
  PROVE  \A f \in Finds : CardInv(f)'
<1>1. /\ UNCHANGED <<dir, written>>
      /\ \A w \in Validators \ {v} : UNCHANGED <<pc[w], cur[w]>>
  BY ReaderStep
<1>2. \A w \in Validators : Moving(w) \/ pc[w] = "fill" \/ Recording(w) =>
          w # v /\ pc'[w] = pc[w] /\ cur'[w] = cur[w]
  BY <1>1 DEF Moving, Recording
<1>3. ASSUME NEW f \in Finds PROVE CardInv(f)'
  <2>1. CardInv(f)
    BY DEF Placed
  <2>2. Filling(f) => Filling(f)'
    BY <1>2 DEF Filling
  <2>3. (\E w \in Validators : cur[w] = f /\ Moving(w)) =>
            \E w \in Validators : cur'[w] = f /\ Moving(w)'
    BY <1>2 DEF Moving
  <2>4. (\E w \in Validators : cur[w] = f /\ Recording(w)) =>
            \E w \in Validators : cur'[w] = f /\ Recording(w)'
    BY <1>2 DEF Recording
  <2>5. QED
    BY <1>1, <2>1, <2>2, <2>3, <2>4 DEF CardInv, OnlyIn
<1>4. QED
  BY <1>3

LEMMA ReadingPlaces ==
  ASSUME GateInv, Placed, NEW v \in Validators, (Alone(v) /\ Start(v)) \/ Step(v),
         ~(RenamePlain(v) \/ OpenCopy(v) \/ FillCopy(v) \/ Unlink(v)),
         ~(LoadState(v) \/ SaveState(v))
  PROVE  Placed'
<1> TypeOK /\ TargetInv(v) /\ PassInv(v)
  BY DEF GateInv, Placed
<1>0. UNCHANGED <<dir, written>>
  BY ReaderStep
<1>1. UNCHANGED state /\ ~Recording(v)
  <2>1. ~DraftGone(v) \/ pc[v] = "move"
    BY DEF DraftGone, TargetInv, Moving
  <2>2. CASE Finish(v) \/ CheckRaises(v) \/ DraftGone(v) \/ MoveRaises(v)
    <3>1. UNCHANGED state
      BY <2>2, HaltSteps
    <3>2. QED
      BY <2>1, <2>2, <3>1 DEF Recording, Finish, CheckRaises, DraftGone, MoveRaises
  <2>3. QED
    BY <2>1, <2>2, ScanSteps
       DEF Recording, Step, Start, Check, ListReady, ListDrafts, Judge, ReadDraft
<1>2. \A f \in Finds : CardInv(f)'
  BY <1>1, CardsStay
<1> SUFFICES TargetInv(v)' /\ PassInv(v)'
  BY <1>2, OwnPlaces
<1> USE DEF TypeOK
<1>3. CASE Start(v)
  <2>1. pc'[v] = "next" /\ todo'[v] \subseteq Files("drafts")
    <3>1. PICK T \in {Files("drafts")} \cup {{f} : f \in Files("drafts")} :
            todo' = [todo EXCEPT ![v] = T]
      BY <1>3 DEF Start
    <3>2. T \subseteq Files("drafts") /\ todo'[v] = T
      BY <3>1
    <3>3. QED
      BY <1>3, <3>2 DEF Start
  <2>2. QED
    BY <1>0, <2>1 DEF TargetInv, PassInv, Moving, Files
<1>4. CASE Finish(v) \/ CheckRaises(v) \/ DraftGone(v) \/ MoveRaises(v)
  <2>1. pc'[v] = "idle"
    BY <1>4, HaltSteps DEF Stop
  <2>2. QED
    BY <2>1 DEF TargetInv, PassInv, Moving
<1>5. CASE Check(v)
  <2>1. PICK f \in todo[v] :
          /\ todo' = [todo EXCEPT ![v] = @ \ {f}]
          /\ cur' = [cur EXCEPT ![v] = f]
          /\ pc' = [pc EXCEPT ![v] =
                       IF dir["drafts"][f] = "good" THEN "list ready" ELSE "move"]
          /\ verdict' = [verdict EXCEPT ![v] = "rejected"]
    BY <1>5 DEF Check
  <2>2. /\ f \in Finds /\ f \in Files("drafts") /\ pc[v] = "next"
        /\ todo[v] \subseteq Files("drafts")
    BY <1>5, <2>1 DEF TargetInv, Check, Files
  <2>3. /\ todo'[v] = todo[v] \ {f} /\ cur'[v] = f /\ verdict'[v] = "rejected"
        /\ pc'[v] = IF dir["drafts"][f] = "good" THEN "list ready" ELSE "move"
    BY <2>1
  <2>4. OnlyIn("drafts", f)
    <3>1. f \in written
      BY <2>2 DEF Placed, CardInv, Files, Dirs
    <3>2. \A w \in Validators : ~Moving(w)
      BY <2>2 DEF GateInv, OneRun, Busy, Moving
    <3>3. PICK d \in Dirs : OnlyIn(d, f)
      BY <2>2, <3>1, <3>2 DEF Placed, CardInv
    <3>4. QED
      BY <2>2, <3>3 DEF OnlyIn, Files, Dirs
  <2>5. OnlyIn("drafts", f)'
    BY <1>0, <2>4 DEF OnlyIn
  <2>6. QED
    BY <1>0, <2>1, <2>2, <2>3, <2>5 DEF TargetInv, PassInv, Moving, Files
<1>6. CASE ReadOther(v) /\ Stop(v)
  <2>1. pc'[v] = "idle"
    BY <1>6 DEF Stop
  <2>2. QED
    BY <2>1 DEF TargetInv, PassInv, Moving
<1>7. CASE ListReady(v) \/ ListDrafts(v) \/ (ReadOther(v) /\ ~Stop(v)) \/ Judge(v)
  <2>1. /\ pc[v] \in {"list ready", "scan ready", "scan drafts"}
        /\ pc'[v] \in {"scan ready", "scan drafts", "move"}
        /\ UNCHANGED <<cur, todo>>
    <3>1. CASE ReadOther(v) /\ ~Stop(v)
      <4>1. /\ UNCHANGED <<cur, todo>> /\ pc[v] \in {"scan ready", "scan drafts"}
            /\ \E s \in {"move", pc[v]} : pc' = [pc EXCEPT ![v] = s]
        BY <3>1, ScanSteps
      <4>2. QED
        BY <4>1
    <3>2. QED
      BY <1>7, <3>1 DEF ListReady, ListDrafts, Judge
  <2>2. QED
    BY <1>0, <2>1 DEF TargetInv, PassInv, Moving, OnlyIn, Files
<1>8. CASE ReadDraft(v)
  <2>1. /\ pc[v] = "move" /\ pc'[v] = "write" /\ UNCHANGED <<cur, todo, verdict>>
        /\ text'[v] = dir["drafts"][cur[v]] /\ text'[v] # "plain"
    BY <1>8 DEF ReadDraft
  <2>2. QED
    BY <1>0, <2>1 DEF TargetInv, PassInv, Moving, OnlyIn, Files
<1>9. QED
  BY <1>3, <1>4, <1>5, <1>6, <1>7, <1>8 DEF Step

LEMMA StorePlaces ==
  ASSUME GateInv, Placed, NEW v \in Validators, LoadState(v) \/ SaveState(v)
  PROVE  Placed'
<1> TypeOK /\ TargetInv(v) /\ PassInv(v)
  BY DEF GateInv, Placed
<1> USE DEF TypeOK
<1>0. UNCHANGED <<dir, written, cur, verdict, todo>>
  BY DEF LoadState, SaveState
<1>1. \A w \in Validators \ {v} : pc[w] = "idle" /\ pc'[w] = "idle"
  BY DEF LoadState, SaveState, GateInv, OneRun, Busy
<1> SUFFICES TargetInv(v)' /\ PassInv(v)' /\ \A f \in Finds : CardInv(f)'
  BY OwnPlaces DEF Step
<1>2. CASE LoadState(v)
  <2>1. /\ pc[v] = "load" /\ pc'[v] = "save" /\ UNCHANGED state
        /\ mem'[v] = [state EXCEPT ![cur[v]] = StateOf[verdict[v]]]
    BY <1>2 DEF LoadState
  <2>2. TargetInv(v)' /\ PassInv(v)'
    BY <1>0, <2>1 DEF TargetInv, PassInv, Moving, OnlyIn, Files
  <2>3. ASSUME NEW f \in Finds PROVE CardInv(f)'
    <3>1. CardInv(f)
      BY DEF Placed
    <3>2. \A w \in Validators : /\ Recording(w) => Recording(w)'
                                /\ Moving(w) => Moving(w)'
                                /\ pc[w] = "fill" => pc'[w] = "fill"
      BY <1>1, <2>1 DEF Moving, Recording
    <3>3. QED
      BY <1>0, <2>1, <3>1, <3>2 DEF CardInv, OnlyIn, Filling
  <2>4. QED
    BY <2>2, <2>3
<1>3. CASE SaveState(v)
  <2>1. /\ pc[v] = "save" /\ pc'[v] = "next"
        /\ state' = [state EXCEPT ![cur[v]] = StateOf[verdict[v]]]
    BY <1>3 DEF SaveState, TargetInv
  <2>2. TargetInv(v)' /\ PassInv(v)'
    BY <1>0, <2>1 DEF TargetInv, PassInv, Moving, Files
  <2>3. cur[v] \in Finds /\ verdict[v] \in Copies /\ OnlyIn(verdict[v], cur[v])
    BY <2>1 DEF TargetInv, Copies
  <2>4. ASSUME NEW f \in Finds PROVE CardInv(f)'
    <3>1. CardInv(f)
      BY DEF Placed
    <3>2. \A d \in Copies : f = cur[v] /\ dir[d][f] # "none" => d = verdict[v]
      BY <2>3 DEF OnlyIn, Copies, Dirs
    <3>3. state'[f] = IF f = cur[v] THEN StateOf[verdict[v]] ELSE state[f]
      BY <2>1, <2>3
    <3>4. QED
      BY <1>0, <1>1, <2>1, <3>1, <3>2, <3>3
         DEF CardInv, OnlyIn, Filling, Moving, Recording
  <2>5. QED
    BY <2>2, <2>4
<1>4. QED
  BY <1>2, <1>3

LEMMA WritingPlaces ==
  ASSUME GateInv, Placed, NEW v \in Validators,
         RenamePlain(v) \/ OpenCopy(v) \/ FillCopy(v) \/ Unlink(v)
  PROVE  Placed'
<1> TypeOK /\ TargetInv(v) /\ PassInv(v)
  BY DEF GateInv, Placed
<1>f. PICK f \in Finds, d \in Copies : f = cur[v] /\ d = verdict[v]
  BY TreeTypes
<1>0. UNCHANGED <<written, cur, verdict, text, todo, state>>
  BY DEF RenamePlain, OpenCopy, FillCopy, Unlink
<1>1. \A w \in Validators \ {v} : pc[w] = "idle" /\ pc'[w] = "idle"
  <2>1. Busy(v) /\ \E s : pc' = [pc EXCEPT ![v] = s]
    BY DEF RenamePlain, OpenCopy, FillCopy, Unlink, Busy
  <2>2. \A w \in Validators \ {v} : pc[w] = "idle"
    BY <2>1 DEF GateInv, OneRun, Busy
  <2>3. QED
    BY <2>1, <2>2 DEF TypeOK
<1>2. /\ f \in Finds /\ d \in Copies /\ Dirs = Copies \cup {"drafts"}
      /\ "drafts" \notin Copies /\ todo[v] \subseteq Finds
      /\ Copies = {"ready", "rejected"}
  BY <1>f, TreeTypes DEF Copies, TypeOK
<1>3. /\ RenamePlain(v) => pc[v] = "move" /\ pc'[v] = "next"
      /\ OpenCopy(v) => pc[v] = "write" /\ pc'[v] = "fill"
      /\ FillCopy(v) => pc[v] = "fill" /\ pc'[v] = "unlink"
      /\ Unlink(v) => pc[v] = "unlink" /\ pc'[v] = "load"
  BY DEF RenamePlain, OpenCopy, FillCopy, Unlink, TypeOK
<1>4. \A g \in Finds : CardInv(g)
  BY DEF Placed
<1>5. /\ f \in Files("drafts") /\ f \notin todo'[v]
      /\ \A g \in todo'[v] : g \in Finds \ {f} /\ dir["drafts"][g] # "none"
  BY <1>f, <1>0, <1>2, <1>3 DEF TargetInv, Moving, OnlyIn, Files
<1>6. f \in written
  BY <1>2, <1>4, <1>5 DEF CardInv, Files
<1> SUFFICES TargetInv(v)' /\ PassInv(v)' /\ \A g \in Finds : CardInv(g)'
  BY OwnPlaces DEF Step
<1>7. CASE RenamePlain(v)
  <2>1. \A e \in Dirs, g \in Finds :
          dir'[e][g] = IF g # f THEN dir[e][g]
                       ELSE IF e = "drafts" THEN "none"
                       ELSE IF e = d THEN "plain" ELSE dir[e][g]
    BY <1>f, <1>7, RenamePlainValues
  <2>2. OnlyIn("drafts", f) /\ dir["drafts"][f] = "plain" /\ d = "rejected"
    BY <1>f, <1>2, <1>3, <1>7 DEF RenamePlain, TargetInv, PassInv, Copies
  <2>0. todo'[v] \subseteq Files("drafts")'
    BY <1>2, <1>5, <2>1 DEF Files
  <2>3. TargetInv(v)' /\ PassInv(v)'
    BY <2>0, <1>f, <1>0, <1>2, <1>3, <1>5, <1>7, <2>1 DEF TargetInv, PassInv, Moving, Files
  <2>4. ASSUME NEW g \in Finds PROVE CardInv(g)'
    <3>1. CASE g = f
      <4>1. OnlyIn(d, f)'
        BY <1>f, <1>2, <2>1, <2>2 DEF OnlyIn
      <4>2. QED
        BY <1>f, <1>0, <1>2, <1>6, <2>1, <2>2, <3>1, <4>1 DEF CardInv, OnlyIn
    <3>2. CASE g # f
      BY <1>f, <1>0, <1>1, <1>2, <1>3, <1>4, <1>7, <2>1, <3>2
         DEF CardInv, OnlyIn, Filling, Moving, Recording
    <3>3. QED
      BY <3>1, <3>2
  <2>5. QED
    BY <2>3, <2>4
<1>8. CASE OpenCopy(v)
  <2>1. \A e \in Dirs, g \in Finds :
          dir'[e][g] = IF e = d /\ g = f THEN "cut" ELSE dir[e][g]
    BY <1>f, <1>8, CopyValues
  <2>2. OnlyIn("drafts", f)
    BY <1>f, <1>3, <1>8 DEF TargetInv
  <2>0. todo'[v] \subseteq Files("drafts")'
    BY <1>2, <1>5, <2>1 DEF Files
  <2>3. /\ pc'[v] = "fill" /\ cur'[v] = f /\ verdict'[v] = d /\ text'[v] = text[v]
        /\ UNCHANGED <<cur, verdict>>
    BY <1>f, <1>0, <1>3, <1>8
  <2>4. f \in Files("drafts")' /\ \A e \in Copies : dir'[e][f] = "none" <=> e # d
    BY <1>2, <2>1, <2>2 DEF OnlyIn, Files
  <2>5. TargetInv(v)'
    BY <1>2, <1>5, <2>0, <2>3, <2>4 DEF TargetInv, Moving
  <2>6. PassInv(v)'
    BY <1>f, <1>3, <1>8, <2>3 DEF PassInv
  <2>7. ASSUME NEW g \in Finds PROVE CardInv(g)'
    BY <1>f, <1>0, <1>1, <1>2, <1>3, <1>4, <1>6, <1>8, <2>1
       DEF CardInv, OnlyIn, Filling, Moving, Recording
  <2>8. QED
    BY <2>5, <2>6, <2>7
<1>9. CASE FillCopy(v)
  <2> DEFINE t == Rewritten(text[v])
  <2>1. \A e \in Dirs, g \in Finds :
          dir'[e][g] = IF e = d /\ g = f THEN t ELSE dir[e][g]
    BY <1>f, <1>9, CopyValues
  <2>2. t \notin {"none", "plain"} /\ (d = "ready" => t = "good")
    BY <1>f, <1>3, <1>9 DEF PassInv, GateInv, MoveOK, Rewritten, Texts
  <2> HIDE DEF t
  <2>0. todo'[v] \subseteq Files("drafts")'
    BY <1>2, <1>5, <2>1 DEF Files
  <2>3. /\ pc'[v] = "unlink" /\ cur'[v] = f /\ verdict'[v] = d /\ text'[v] = text[v]
        /\ UNCHANGED <<cur, verdict>>
    BY <1>f, <1>0, <1>3, <1>9
  <2>4. /\ f \in Files("drafts")' /\ dir'[d][f] = t
        /\ \A e \in Copies : dir'[e][f] = "none" <=> e # d
    <3>1. \A e \in Copies : dir[e][f] = "none" <=> e # d
      BY <1>f, <1>3, <1>9 DEF TargetInv, Moving
    <3>2. QED
      BY <1>2, <1>5, <2>1, <2>2, <3>1 DEF Files
  <2>5. TargetInv(v)'
    BY <1>2, <1>5, <2>0, <2>2, <2>3, <2>4 DEF TargetInv, Moving
  <2>6. PassInv(v)'
    BY <2>2, <2>3, <2>4 DEF PassInv
  <2>7. ASSUME NEW g \in Finds PROVE CardInv(g)'
    <3>1. CASE g = f
      BY <1>0, <1>2, <1>4, <1>6, <2>1, <2>2, <2>3, <2>4, <3>1
         DEF CardInv, Moving, Recording
    <3>2. CASE g # f
      BY <1>f, <1>0, <1>1, <1>2, <1>3, <1>4, <1>9, <2>1, <3>2
         DEF CardInv, OnlyIn, Filling, Moving, Recording
    <3>3. QED
      BY <3>1, <3>2
  <2>8. QED
    BY <2>5, <2>6, <2>7
<1>10. CASE Unlink(v)
  <2>1. \A e \in Dirs, g \in Finds :
          dir'[e][g] = IF e = "drafts" /\ g = f THEN "none" ELSE dir[e][g]
    BY <1>f, <1>10, CopyValues
  <2>2. \A e \in Copies : dir[e][f] = "none" <=> e # d
    BY <1>f, <1>3, <1>10 DEF TargetInv, Moving
  <2>3. OnlyIn(d, f)'
    BY <1>f, <1>2, <2>1, <2>2 DEF OnlyIn
  <2>0. todo'[v] \subseteq Files("drafts")'
    BY <1>2, <1>5, <2>1 DEF Files
  <2>4. /\ pc'[v] = "load" /\ cur'[v] = f /\ verdict'[v] = d /\ text'[v] = text[v]
        /\ UNCHANGED <<cur, verdict>>
    BY <1>f, <1>0, <1>3, <1>10
  <2>5. /\ dir'[d][f] # "plain"
        /\ \A e \in Dirs : dir'[e][f] = "none" <=> e # d
    <3>1. dir[d][f] # "plain"
      BY <1>f, <1>3, <1>10 DEF TargetInv
    <3>2. QED
      BY <1>2, <2>1, <2>2, <3>1
  <2>6. TargetInv(v)' /\ PassInv(v)'
    BY <1>2, <2>0, <2>4, <2>5 DEF TargetInv, PassInv, Moving, OnlyIn
  <2>7. ASSUME NEW g \in Finds PROVE CardInv(g)'
    <3>1. CASE g = f
      BY <1>f, <1>0, <1>1, <1>2, <1>3, <1>4, <1>6, <1>10, <2>1, <2>2, <2>3, <3>1
         DEF CardInv, Filling, Recording
    <3>2. CASE g # f
      BY <1>f, <1>0, <1>1, <1>2, <1>3, <1>4, <1>10, <2>1, <3>2
         DEF CardInv, OnlyIn, Filling, Moving, Recording
    <3>3. QED
      BY <3>1, <3>2
  <2>8. QED
    BY <2>6, <2>7
<1>11. QED
  BY <1>7, <1>8, <1>9, <1>10
LEMMA AuthorPlaces ==
  ASSUME GateInv, Placed, Agents \/ (Fixer /\ \A v \in Validators : ~Busy(v))
  PROVE  Placed'
<1> TypeOK
  BY DEF GateInv
<1>1. UNCHANGED <<validating, state>>
  BY DEF Agents, Fixer, WriteDraft, ReturnDraft
<1>2. Dirs = {"drafts", "ready", "rejected"} /\ Copies = {"ready", "rejected"}
  BY DEF Dirs, Copies
<1>3. ASSUME NEW f \in Finds, NEW t \in Texts, WriteDraft(f, t) PROVE Placed'
  <2>1. \A e \in Dirs, g \in Finds :
          dir'[e][g] = IF e = "drafts" /\ g = f THEN t ELSE dir[e][g]
    BY <1>3, WriteDraftValues
  <2>2. f \notin written /\ written' = written \cup {f}
    BY <1>3 DEF WriteDraft
  <2>3. \A d \in Dirs : dir[d][f] = "none"
    BY <2>2 DEF Placed, CardInv
  <2>4. OnlyIn("drafts", f)'
    BY <1>2, <2>1, <2>3 DEF OnlyIn, Texts
  <2>5. ASSUME NEW g \in Finds PROVE CardInv(g)'
    BY <1>1, <1>2, <2>1, <2>2, <2>3, <2>4
       DEF Placed, CardInv, OnlyIn, Filling, Moving, Recording, validating
  <2>6. ASSUME NEW v \in Validators PROVE TargetInv(v)' /\ PassInv(v)'
    <3> cur[v] \in Finds /\ verdict[v] \in Copies /\ todo[v] \subseteq Finds
      BY TreeTypes DEF TypeOK
    <3>1. TargetInv(v) /\ PassInv(v)
      BY DEF Placed
    <3>2. Files("drafts") \subseteq Files("drafts")'
      BY <1>2, <2>1, <2>3 DEF Files
    <3>3. \A d \in Dirs : dir[d][cur[v]] # "none" =>
             \A e \in Dirs : dir'[e][cur[v]] = dir[e][cur[v]]
      BY <2>1, <2>3
    <3>4. PassInv(v)'
      BY <1>1, <1>2, <3>1, <3>3 DEF PassInv, validating
    <3>5. TargetInv(v)'
      <4>1. UNCHANGED <<pc, todo, cur, verdict, mem, state>>
        BY <1>1 DEF validating
      <4>2. \A d \in Dirs : OnlyIn(d, cur[v]) => OnlyIn(d, cur[v])'
        BY <1>2, <3>3, <4>1 DEF OnlyIn
      <4>3. cur[v] \in Files("drafts") =>
              /\ cur[v] \in Files("drafts")'
              /\ \A d \in Dirs : dir'[d][cur[v]] = dir[d][cur[v]]
        BY <1>2, <3>2, <3>3 DEF Files
      <4>4. pc[v] \in {"unlink", "load", "save"} =>
               \A d \in Dirs : dir'[d][cur[v]] = dir[d][cur[v]]
        BY <1>2, <3>1, <3>3, <4>3 DEF TargetInv, Moving, OnlyIn
      <4>5. QED
        BY <1>2, <3>1, <3>2, <4>1, <4>2, <4>3, <4>4 DEF TargetInv, Moving
    <3>6. QED
      BY <3>4, <3>5
  <2>7. QED
    BY <2>5, <2>6 DEF Placed
<1>4. ASSUME NEW f \in Finds, NEW t \in Texts, ReturnDraft(f, t),
             \A v \in Validators : ~Busy(v)
      PROVE  Placed'
  <2>1. \A e \in Dirs, g \in Finds :
          dir'[e][g] = IF g # f THEN dir[e][g]
                       ELSE IF e = "drafts" THEN t
                       ELSE IF e = "rejected" THEN "none" ELSE dir[e][g]
    BY <1>4, ReturnDraftValues
  <2>2. dir["rejected"][f] # "none" /\ UNCHANGED written
    BY <1>4 DEF ReturnDraft, Files
  <2>3. \A v \in Validators : pc[v] = "idle" /\ pc'[v] = "idle"
    BY <1>1, <1>4 DEF Busy, validating
  <2>4. f \in written /\ dir["ready"][f] = "none"
    BY <1>2, <2>2, <2>3 DEF Placed, CardInv, OnlyIn, Moving
  <2>5. OnlyIn("drafts", f)'
    BY <1>2, <2>1, <2>4 DEF OnlyIn, Texts
  <2>6. ASSUME NEW g \in Finds PROVE CardInv(g)'
    BY <1>1, <1>2, <2>1, <2>2, <2>3, <2>4, <2>5
       DEF Placed, CardInv, OnlyIn, Filling, Moving, Recording, validating
  <2>7. \A v \in Validators : TargetInv(v)' /\ PassInv(v)'
    BY <2>3 DEF TargetInv, PassInv, Moving
  <2>8. QED
    BY <2>6, <2>7 DEF Placed
<1>5. QED
  BY <1>3, <1>4 DEF Agents, Fixer

LEMMA PlaceInvariant == SerialSpec => []PlaceInv
<1>1. Init => (crashes = 0 => Placed)
  BY DEF Init, Placed, CardInv, TargetInv, PassInv, Moving, Filling, Copies, Dirs
<1>2. GateInv /\ (crashes = 0 => Placed) /\ [SerialNext]_vars => (crashes = 0 => Placed)'
  <2> SUFFICES ASSUME GateInv, crashes = 0 => Placed, [SerialNext]_vars, crashes' = 0
               PROVE  Placed'
    OBVIOUS
  <2>1. crashes = 0 /\ \A v \in Validators : ~Crash(v)
    <3>1. \A v \in Validators : ~Crash(v)
      BY CountersAreNat DEF Crash, GateInv
    <3>2. ASSUME NEW v \in Validators, Start(v) \/ Step(v) PROVE UNCHANGED crashes
      BY <3>2, HaltSteps, ScanSteps
         DEF Start, Step, Check, ListReady, ListDrafts, Judge, ReadDraft, RenamePlain,
             OpenCopy, FillCopy, Unlink, LoadState, SaveState, counters
    <3>3. QED
      BY <3>1, <3>2 DEF SerialNext, Agents, Fixer, WriteDraft, ReturnDraft, counters, vars
  <2>2. Placed
    BY <2>1
  <2>3. CASE UNCHANGED vars
    <3>1. UNCHANGED <<dir, state, written, pc, todo, cur, verdict, text, mem>>
      BY <2>3 DEF vars, validating
    <3>2. ASSUME NEW v \in Validators PROVE TargetInv(v)' /\ PassInv(v)'
      <4>1. TargetInv(v) /\ PassInv(v)
        BY <2>2 DEF Placed
      <4>2. TargetInv(v)'
        BY <3>1, <4>1 DEF TargetInv, Moving, OnlyIn, Files
      <4>3. PassInv(v)'
        BY <3>1, <4>1 DEF PassInv
      <4>4. QED
        BY <4>2, <4>3
    <3>3. ASSUME NEW f \in Finds PROVE CardInv(f)'
      BY <2>2, <3>1 DEF Placed, CardInv, Moving, Recording, Filling, OnlyIn
    <3>4. QED
      BY <3>2, <3>3 DEF Placed
  <2>4. CASE Agents \/ (Fixer /\ \A v \in Validators : ~Busy(v))
    BY <2>2, <2>4, AuthorPlaces
  <2>5. ASSUME NEW v \in Validators, (Alone(v) /\ Start(v)) \/ Step(v) PROVE Placed'
    BY <2>2, <2>5, ReadingPlaces, StorePlaces, WritingPlaces
  <2>6. QED
    BY <2>1, <2>3, <2>4, <2>5 DEF SerialNext
<1>3. QED
  BY <1>1, <1>2, GateInvariant, PTL DEF SerialSpec, PlaceInv

(* With one run at a time and none killed, every card that was written is  *)
(* in exactly one directory whenever no run is in progress.                *)
THEOREM CardsHaveOnePlace == SerialSpec => []OnePlace
<1>1. PlaceInv => OnePlace
  <2> SUFFICES ASSUME PlaceInv, \A v \in Validators : ~Busy(v), crashes = 0,
                      NEW f \in written
               PROVE  \E d \in Dirs : f \in Files(d) /\ \A e \in Dirs \ {d} : f \notin Files(e)
    BY DEF OnePlace
  <2>1. f \in Finds /\ CardInv(f) /\ \A v \in Validators : ~Moving(v)
    BY DEF PlaceInv, Placed, GateInv, TypeOK, Busy, Moving
  <2>2. PICK d \in Dirs : OnlyIn(d, f)
    BY <2>1 DEF CardInv
  <2>3. QED
    BY <2>1, <2>2 DEF OnlyIn, Files
<1>2. QED
  BY <1>1, PlaceInvariant, PTL

(* Then the FSM store holds the state of the directory of every card that  *)
(* has frontmatter.                                                        *)
THEOREM PlacesAreRecorded == SerialSpec => []PlaceIsRecorded
<1>1. PlaceInv => PlaceIsRecorded
  <2> SUFFICES ASSUME PlaceInv, \A v \in Validators : ~Busy(v), crashes = 0,
                      NEW f \in written, NEW d \in {"ready", "rejected"},
                      dir[d][f] \notin {"none", "plain"}
               PROVE  state[f] = StateOf[d]
    BY DEF PlaceIsRecorded
  <2>1. f \in Finds /\ CardInv(f) /\ \A v \in Validators : ~Recording(v)
    BY DEF PlaceInv, Placed, GateInv, TypeOK, Busy, Recording
  <2>2. QED
    BY <2>1 DEF CardInv, Copies
<1>2. QED
  BY <1>1, PlaceInvariant, PTL
-----------------------------------------------------------------------------
(* The gate of one validator, unless it is killed, is that of FindGate.    *)

(* Where the abstract gate has a card that is in one directory, or whose   *)
(* draft is there.                                                         *)
LEMMA PlaceBarIs ==
  ASSUME TypeOK, Placed, NEW f \in Finds
  PROVE  /\ f \notin written <=> placeBar[f] = "unwritten"
         /\ \A d \in Dirs : OnlyIn(d, f) => placeBar[f] = d
         /\ f \in Files("drafts") => placeBar[f] = "drafts"
         /\ placeBar[f] = "ready" => dir["ready"][f] # "none"
<1>1. placeBar[f] = IF f \notin written THEN "unwritten"
                    ELSE IF dir["drafts"][f] # "none" THEN "drafts"
                    ELSE IF dir["ready"][f] # "none" THEN "ready" ELSE "rejected"
  BY DEF placeBar, Files
<1>2. CardInv(f)
  BY DEF Placed
<1>3. \A d \in Dirs : dir[d][f] # "none" => f \in written
  BY <1>2 DEF CardInv
<1>4. \A d \in Dirs : OnlyIn(d, f) => placeBar[f] = d
  BY <1>1, <1>3 DEF OnlyIn, Dirs
<1>5. QED
  BY <1>1, <1>3, <1>4 DEF Files, Dirs

LEMMA PlaceBarKept ==
  ASSUME UNCHANGED written,
         \A f \in Finds : /\ dir'["drafts"][f] = "none" <=> dir["drafts"][f] = "none"
                          /\ dir["drafts"][f] = "none" =>
                                (dir'["ready"][f] = "none" <=> dir["ready"][f] = "none")
  PROVE  placeBar' = placeBar
BY DEF placeBar, Files

(* Each step of the gate is one of the abstract gate or changes neither    *)
(* the place of a card nor its state.                                      *)
LEMMA GateSimulates ==
  ASSUME PlaceInv, PlaceInv', crashes = 0, crashes' = 0, SerialNext
  PROVE  Gate!Next \/ UNCHANGED Gate!vars
<1> /\ TypeOK /\ Placed /\ TypeOK' /\ Placed' /\ GateInv /\ GateInv'
  BY DEF PlaceInv, GateInv
<1> SUFFICES Gate!Next \/ (placeBar' = placeBar /\ state' = state)
  BY DEF Gate!vars
<1>1. Dirs = {"drafts", "ready", "rejected"} /\ Copies = {"ready", "rejected"}
  BY DEF Dirs, Copies
<1>2. ASSUME NEW f \in Finds, NEW from, NEW to, placeBar[f] = from, placeBar'[f] = to,
             \A g \in Finds \ {f} : \A d \in Dirs : dir'[d][g] = dir[d][g],
             \A g \in Finds \ {f} : g \in written' <=> g \in written,
             UNCHANGED state
      PROVE  Gate!Move(f, from, to)
  <2>1. \A g \in Finds \ {f} : placeBar'[g] = placeBar[g]
    BY <1>1, <1>2 DEF placeBar, Files
  <2>2. placeBar' = [placeBar EXCEPT ![f] = to]
    <3>1. /\ placeBar \in [Finds -> {placeBar[g] : g \in Finds}]
          /\ placeBar' = [g \in Finds |-> placeBar'[g]]
      BY DEF placeBar
    <3>2. QED
      BY <1>2, <2>1, <3>1
  <2>3. QED
    BY <1>2, <2>2 DEF Gate!Move
<1>3. ASSUME NEW f \in Finds, NEW t \in Texts, WriteDraft(f, t) PROVE Gate!Next
  <2>1. \A e \in Dirs, g \in Finds :
          dir'[e][g] = IF e = "drafts" /\ g = f THEN t ELSE dir[e][g]
    BY <1>3, WriteDraftValues
  <2>2. f \notin written /\ written' = written \cup {f} /\ UNCHANGED state
    BY <1>3 DEF WriteDraft
  <2>3. placeBar[f] = "unwritten" /\ placeBar'[f] = "drafts"
    BY <1>1, <2>1, <2>2, PlaceBarIs DEF placeBar, Files, Texts
  <2>4. Gate!Write(f)
    BY <1>1, <1>2, <2>1, <2>2, <2>3 DEF Gate!Write
  <2>5. QED
    BY <2>4 DEF Gate!Next
<1>4. ASSUME NEW f \in Finds, NEW t \in Texts, ReturnDraft(f, t),
             \A v \in Validators : ~Busy(v)
      PROVE  Gate!Next
  <2>1. \A e \in Dirs, g \in Finds :
          dir'[e][g] = IF g # f THEN dir[e][g]
                       ELSE IF e = "drafts" THEN t
                       ELSE IF e = "rejected" THEN "none" ELSE dir[e][g]
    BY <1>4, ReturnDraftValues
  <2>2. dir["rejected"][f] # "none" /\ UNCHANGED <<state, written>>
    BY <1>4 DEF ReturnDraft, Files
  <2>3. \A v \in Validators : ~Moving(v)
    BY <1>4 DEF Busy, Moving
  <2>4. f \in written /\ OnlyIn("rejected", f)
    BY <1>1, <2>2, <2>3 DEF Placed, CardInv, OnlyIn
  <2>5. placeBar[f] = "rejected"
    BY <1>1, <2>4, PlaceBarIs
  <2>6. placeBar'[f] = "drafts"
    BY <1>1, <2>1, <2>2, <2>4 DEF placeBar, Files, Texts
  <2>7. Gate!Return(f)
    BY <1>1, <1>2, <2>1, <2>2, <2>5, <2>6 DEF Gate!Return
  <2>8. QED
    BY <2>7 DEF Gate!Next
<1>5. ASSUME NEW v \in Validators, RenamePlain(v) \/ Unlink(v) PROVE Gate!Next
  <2>1. PICK f \in Finds, d \in Copies : f = cur[v] /\ d = verdict[v]
    BY TreeTypes
  <2>2. /\ UNCHANGED <<written, state, cur, verdict>>
        /\ RenamePlain(v) => pc[v] = "move" /\ pc'[v] = "next"
        /\ Unlink(v) => pc[v] = "unlink" /\ pc'[v] = "load"
    BY <1>5 DEF RenamePlain, Unlink, TypeOK
  <2>3. TargetInv(v) /\ PassInv(v) /\ TargetInv(v)' /\ CardInv(f)
    BY <2>1 DEF Placed
  <2>4. f \in Files("drafts") /\ f \in written
    BY <1>5, <2>1, <2>2, <2>3 DEF TargetInv, Moving, OnlyIn, Files, CardInv, Dirs
  <2>5. placeBar[f] = "drafts"
    BY <2>4, PlaceBarIs
  <2>6. \A e \in Dirs, g \in Finds \ {f} : dir'[e][g] = dir[e][g]
    BY <1>5, <2>1, RenamePlainValues, CopyValues
  <2>7. placeBar'[f] = d
    <3>1. \A e \in Dirs : dir'[e][f] # "none" <=> e = d
      <4>1. CASE RenamePlain(v)
        <5>1. OnlyIn("drafts", f)
          BY <2>1, <2>2, <2>3, <4>1 DEF TargetInv
        <5>2. QED
          BY <1>1, <2>1, <4>1, <5>1, RenamePlainValues DEF OnlyIn
      <4>2. CASE Unlink(v)
        <5>1. \A e \in Copies : dir[e][f] = "none" <=> e # d
          BY <2>1, <2>2, <2>3, <4>2 DEF TargetInv, Moving
        <5>2. QED
          BY <1>1, <2>1, <4>2, <5>1, CopyValues
      <4>3. QED
        BY <1>5, <4>1, <4>2
    <3>2. QED
      BY <1>1, <2>2, <2>4, <3>1 DEF placeBar, Files
  <2>8. Gate!Move(f, "drafts", d)
    BY <1>2, <2>2, <2>5, <2>6, <2>7
  <2>9. CASE d = "rejected"
    BY <2>8, <2>9 DEF Gate!Reject, Gate!Next
  <2>10. CASE d = "ready"
    <3>1. Unlink(v)
      <4>1. ~RenamePlain(v)
        BY <2>1, <2>2, <2>3, <2>10 DEF RenamePlain, PassInv
      <4>2. QED
        BY <1>5, <4>1
    <3>2. Clear(v)
      BY <2>1, <2>2, <2>10, <3>1 DEF GateInv, ScanOK
    <3>3. ASSUME NEW g \in Finds \ {f}, placeBar[g] = "ready"
          PROVE  <<f, g>> \notin Overlaps
      <4>1. dir["ready"][g] # "none" /\ CardInv(g)
        BY <3>3, PlaceBarIs DEF Placed
      <4>2. ~Filling(g)
        BY <2>2, <3>1 DEF Filling, GateInv, OneRun, Busy
      <4>3. dir["ready"][g] = "good"
        BY <4>1, <4>2 DEF CardInv
      <4>4. QED
        BY <2>1, <3>2, <4>3 DEF Clear
    <3>4. Gate!Promote(f)
      BY <2>8, <2>10, <3>3 DEF Gate!Promote
    <3>5. QED
      BY <3>4 DEF Gate!Next
  <2>11. QED
    BY <1>1, <2>9, <2>10
<1>6. ASSUME NEW v \in Validators, OpenCopy(v) \/ FillCopy(v)
      PROVE  placeBar' = placeBar /\ state' = state
  <2>1. PICK f \in Finds, d \in Copies : f = cur[v] /\ d = verdict[v]
    BY TreeTypes
  <2>2. /\ UNCHANGED <<written, state>> /\ pc[v] \in {"write", "fill"}
    BY <1>6 DEF OpenCopy, FillCopy
  <2>3. TargetInv(v)
    BY DEF Placed
  <2>4. dir["drafts"][f] # "none"
    BY <1>1, <2>1, <2>2, <2>3 DEF TargetInv, Moving, OnlyIn, Files
  <2>5. \A e \in Dirs, g \in Finds : g # f \/ e # d => dir'[e][g] = dir[e][g]
    BY <1>6, <2>1, CopyValues
  <2>6. QED
    BY <1>1, <2>2, <2>4, <2>5, PlaceBarKept
<1>7. ASSUME NEW v \in Validators, SaveState(v) PROVE Gate!Next
  <2>1. PICK f \in Finds, d \in Copies : f = cur[v] /\ d = verdict[v]
    BY TreeTypes
  <2>2. pc[v] = "save" /\ UNCHANGED <<dir, written>> /\ state' = mem[v]
    BY <1>7 DEF SaveState
  <2>3. OnlyIn(d, f) /\ mem[v] = [state EXCEPT ![f] = StateOf[d]]
    BY <2>1, <2>2 DEF Placed, TargetInv
  <2>4. placeBar[f] = d /\ placeBar' = placeBar
    BY <1>1, <2>2, <2>3, PlaceBarIs, PlaceBarKept
  <2>5. d \in DOMAIN Gate!StateOf /\ Gate!StateOf[d] = StateOf[d]
    BY <1>1 DEF Gate!StateOf, StateOf
  <2>6. Gate!Record(f)
    BY <2>2, <2>3, <2>4, <2>5 DEF Gate!Record
  <2>7. QED
    BY <2>6 DEF Gate!Next
<1>8. ASSUME NEW v \in Validators, Start(v) \/ Step(v),
             ~(RenamePlain(v) \/ OpenCopy(v) \/ FillCopy(v) \/ Unlink(v) \/ SaveState(v))
      PROVE  placeBar' = placeBar /\ state' = state
  <2>1. UNCHANGED <<dir, written>>
    BY <1>8, ReaderStep
  <2>2. UNCHANGED state
    BY <1>8, HaltSteps, ScanSteps
       DEF Start, Step, Check, ListReady, ListDrafts, Judge, ReadDraft, LoadState
  <2>3. QED
    BY <2>1, <2>2, PlaceBarKept
<1>9. \A v \in Validators : ~Crash(v)
  BY CountersAreNat DEF Crash
<1>10. QED
  BY <1>3, <1>4, <1>5, <1>6, <1>7, <1>8, <1>9 DEF SerialNext, Agents, Fixer

(* With one run at a time and none killed, what validate.py does to the    *)
(* directories and to the store is what FindGate allows: each card is      *)
(* promoted or rejected in one step, promoted only when nothing in ready/  *)
(* overlaps it, and its state recorded once it is there.                   *)
THEOREM GateImplementsFindGate ==
  SerialSpec /\ [](crashes = 0) => ImplementsFindGate
<1>1. Init => Gate!Init
  BY DEF Init, Gate!Init, placeBar
<1>2. PlaceInv /\ PlaceInv' /\ crashes = 0 /\ (crashes = 0)' /\ [SerialNext]_vars
        => [Gate!Next]_Gate!vars
  <2>1. CASE UNCHANGED vars
    BY <2>1 DEF vars, Gate!vars, placeBar, Files
  <2>2. QED
    BY <2>1, GateSimulates
<1>3. QED
  BY <1>1, <1>2, PlaceInvariant, PTL DEF SerialSpec, ImplementsFindGate, Gate!Spec
=============================================================================
