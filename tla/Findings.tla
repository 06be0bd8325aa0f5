------------------------------- MODULE Findings -------------------------------
(***************************************************************************)
(* The FIND gate: harness/validate.py --move, which takes finding cards    *)
(* from findings/drafts/ to findings/ready/ or findings/rejected/.         *)
(*                                                                         *)
(* A run of validate.py is a process without locks.  It validates its      *)
(* targets one by one; the duplicate rule B-1-4 reads the other cards of   *)
(* ready/ and then of drafts/ file by file, and a move is a write of the   *)
(* copy, an unlink of the draft and a transition in the FSM store, each a  *)
(* step of its own here.  Cards are written by auditor agents and returned *)
(* to drafts/ by a fixer.  A run may be killed between any two steps.      *)
(***************************************************************************)
EXTENDS Integers, FiniteSets

CONSTANTS
    Finds,        \* cards, ordered as their file names sort
    Overlaps,     \* pairs of cards of one cell and file whose ranges meet
    Validators,   \* processes that run validate.py --move
    MaxRuns,      \* bound on the runs of a behaviour
    MaxReturns,   \* bound on the cards a fixer returns to drafts/
    MaxCrashes    \* bound on the runs killed in a behaviour

ASSUME FindsAssumption == Finds \subseteq Nat
ASSUME OverlapsAssumption ==
    /\ Overlaps \subseteq Finds \X Finds
    /\ \A f \in Finds : <<f, f>> \in Overlaps
    /\ \A f, g \in Finds : <<f, g>> \in Overlaps => <<g, f>> \in Overlaps
ASSUME BoundsAssumption ==
    MaxRuns \in Nat /\ MaxReturns \in Nat /\ MaxCrashes \in Nat

VARIABLES
    dir,       \* what each directory holds under the name of each card
    state,     \* the state of each card in the FSM store
    written,   \* the cards that agents have written
    pc,        \* where in main each validator is
    todo,      \* the targets a validator has not come to
    cur,       \* the target a validator is at
    others,    \* the cards a duplicate scan has listed and not yet read
    verdict,   \* the directory that the target goes to
    text,      \* what the move has read of the target
    mem,       \* the states that apply_transition has loaded
    runs, returns, crashes

validating == <<pc, todo, cur, others, verdict, text, mem>>
counters == <<runs, returns, crashes>>
vars == <<dir, state, written, validating, counters>>

-----------------------------------------------------------------------------
(* What a file can be to validate_file:                                    *)
(*   good    frontmatter that names cell, file and line_range,             *)
(*   odd     the same, with a value that a rule cannot handle, such as a   *)
(*           list as severity: the rule raises,                            *)
(*   list    frontmatter that is YAML but not a mapping,                   *)
(*   unread  a text that cannot be decoded, or a date that YAML refuses    *)
(*           with an error of its own,                                     *)
(*   broken  frontmatter that is not YAML,                                 *)
(*   plain   no frontmatter,                                               *)
(*   bare    frontmatter that was broken and now holds only the parser's   *)
(*           message, status and rejected_reasons,                         *)
(*   cut     a file that a write has truncated and not filled yet;         *)
(* and none, when there is no file.                                        *)
Texts == {"good", "odd", "list", "unread", "broken", "plain"}
Contents == Texts \cup {"bare", "cut", "none"}

(* The texts on which the validation of the card itself raises.            *)
Raises(t) == t \in {"odd", "list", "unread"}

Dirs == {"drafts", "ready", "rejected"}

Files(d) == {f \in Finds : dir[d][f] # "none"}

(* The text that move_with_reasons and promote write for what they read:   *)
(* parse_frontmatter has replaced broken frontmatter by its message.       *)
Rewritten(t) == IF t = "broken" THEN "bare" ELSE t

StateOf == [ready |-> "discovered", rejected |-> "rejected"]

Busy(v) == pc[v] # "idle"

-----------------------------------------------------------------------------
Init ==
    /\ dir = [d \in Dirs |-> [f \in Finds |-> "none"]]
    /\ state = [f \in Finds |-> "none"]
    /\ written = {}
    /\ pc = [v \in Validators |-> "idle"]
    /\ todo = [v \in Validators |-> {}]
    /\ cur \in [Validators -> Finds]
    /\ others = [v \in Validators |-> {}]
    /\ verdict = [v \in Validators |-> "rejected"]
    /\ text = [v \in Validators |-> "none"]
    /\ mem = [v \in Validators |-> state]
    /\ runs = 0
    /\ returns = 0
    /\ crashes = 0

(* An auditor agent writes a card under a number that is not in use.       *)
WriteDraft(f, t) ==
    /\ f \notin written
    /\ written' = written \cup {f}
    /\ dir' = [dir EXCEPT !["drafts"][f] = t]
    /\ UNCHANGED <<state, validating, counters>>

(* The fixer returns a rejected card, with whatever text it now has.       *)
ReturnDraft(f, t) ==
    /\ returns < MaxReturns
    /\ returns' = returns + 1
    /\ f \in Files("rejected") \ Files("drafts")
    /\ dir' = [dir EXCEPT !["rejected"][f] = "none", !["drafts"][f] = t]
    /\ UNCHANGED <<state, written, validating, runs, crashes>>

-----------------------------------------------------------------------------
(* main with --all, or with the path of one draft.                         *)
Start(v) ==
    /\ pc[v] = "idle"
    /\ runs < MaxRuns
    /\ runs' = runs + 1
    /\ \E T \in {Files("drafts")} \cup {{f} : f \in Files("drafts")} :
          /\ T # {}
          /\ todo' = [todo EXCEPT ![v] = T]
    /\ pc' = [pc EXCEPT ![v] = "next"]
    /\ UNCHANGED <<dir, state, written, cur, others, verdict, text, mem,
                   returns, crashes>>

(* The run ends, at its last target or with an exception at any step.      *)
Stop(v) ==
    /\ pc' = [pc EXCEPT ![v] = "idle"]
    /\ todo' = [todo EXCEPT ![v] = {}]
    /\ others' = [others EXCEPT ![v] = {}]
    /\ UNCHANGED <<cur, verdict, text, mem>>

Finish(v) ==
    /\ pc[v] = "next"
    /\ todo[v] = {}
    /\ Stop(v)
    /\ UNCHANGED <<dir, state, written, counters>>

(* The first of the targets that are left, in the order of the names.      *)
IsFirst(f, T) == f \in T /\ \A g \in T : f <= g

(* validate_file on the next target up to the duplicate rule, which only a *)
(* card that names cell, file and line_range gets to.  A target that is    *)
(* missing or cannot be decoded is an error too, and the move then fails   *)
(* to read it.                                                             *)
Check(v) ==
    /\ pc[v] = "next"
    /\ \E f \in todo[v] :
          /\ IsFirst(f, todo[v])
          /\ dir["drafts"][f] \notin {"odd", "list"}
          /\ todo' = [todo EXCEPT ![v] = @ \ {f}]
          /\ cur' = [cur EXCEPT ![v] = f]
          /\ pc' = [pc EXCEPT ![v] =
                       IF dir["drafts"][f] = "good" THEN "list ready" ELSE "move"]
    /\ verdict' = [verdict EXCEPT ![v] = "rejected"]
    /\ UNCHANGED <<dir, state, written, others, text, mem, counters>>

(* validate_file raises: main catches nothing, so the run ends here and    *)
(* this target and those behind it stay in drafts/.                        *)
CheckRaises(v) ==
    /\ pc[v] = "next"
    /\ \E f \in todo[v] : IsFirst(f, todo[v]) /\ Raises(dir["drafts"][f])
    /\ Stop(v)
    /\ UNCHANGED <<dir, state, written, counters>>

(* Variant of ListReady: the directory ready/ is not scanned.              *)
ListDraftsOnly(v) ==
    /\ pc[v] = "list ready"
    /\ pc' = [pc EXCEPT ![v] = "scan ready"]
    /\ others' = [others EXCEPT ![v] = {}]
    /\ UNCHANGED <<dir, state, written, todo, cur, verdict, text, mem, counters>>

(* check_b1_duplicate lists READY_DIR, then reads each file of the list,   *)
ListReady(v) ==
    /\ pc[v] = "list ready"
    /\ pc' = [pc EXCEPT ![v] = "scan ready"]
    /\ others' = [others EXCEPT ![v] = Files("ready")]
    /\ UNCHANGED <<dir, state, written, todo, cur, verdict, text, mem, counters>>

(* then lists DRAFTS_DIR, of which it skips the target itself,             *)
ListDrafts(v) ==
    /\ pc[v] = "scan ready"
    /\ others[v] = {}
    /\ pc' = [pc EXCEPT ![v] = "scan drafts"]
    /\ others' = [others EXCEPT ![v] = Files("drafts") \ {cur[v]}]
    /\ UNCHANGED <<dir, state, written, todo, cur, verdict, text, mem, counters>>

(* The card that a scan reads.                                             *)
Other(v, g) == dir[IF pc[v] = "scan ready" THEN "ready" ELSE "drafts"][g]

OverlapSeen(v, g) ==
    Other(v, g) \in {"good", "odd"} /\ <<cur[v], g>> \in Overlaps

(* Variant of ReadOther: the read of the other card is not guarded.        *)
ReadOtherUnguarded(v) ==
    /\ pc[v] \in {"scan ready", "scan drafts"}
    /\ \E g \in others[v] :
          \/ /\ Other(v, g) \in {"list", "unread"}
             /\ Stop(v)
          \/ /\ Other(v, g) \notin {"list", "unread"}
             /\ others' = [others EXCEPT ![v] = IF OverlapSeen(v, g) THEN {} ELSE @ \ {g}]
             /\ pc' = [pc EXCEPT ![v] = IF OverlapSeen(v, g) THEN "move" ELSE @]
             /\ UNCHANGED <<todo, cur, verdict, text, mem>>
    /\ UNCHANGED <<dir, state, written, counters>>

(* and stops at the first overlap.  A file that has gone or that cannot be *)
(* parsed is passed over, but one whose frontmatter is not a mapping ends  *)
(* the run: its fields are asked for outside the try.                      *)
ReadOther(v) ==
    /\ pc[v] \in {"scan ready", "scan drafts"}
    /\ \E g \in others[v] :
          \/ /\ Other(v, g) = "list"
             /\ Stop(v)
          \/ /\ Other(v, g) # "list"
             /\ others' = [others EXCEPT ![v] = IF OverlapSeen(v, g) THEN {} ELSE @ \ {g}]
             /\ pc' = [pc EXCEPT ![v] = IF OverlapSeen(v, g) THEN "move" ELSE @]
             /\ UNCHANGED <<todo, cur, verdict, text, mem>>
    /\ UNCHANGED <<dir, state, written, counters>>

(* No overlap was found.  The other rules compare the card with the        *)
(* audited repository and with grid.yaml, which change on their own, so    *)
(* they may fail or pass.                                                  *)
Judge(v) ==
    /\ pc[v] = "scan drafts"
    /\ others[v] = {}
    /\ pc' = [pc EXCEPT ![v] = "move"]
    /\ \E d \in {"ready", "rejected"} : verdict' = [verdict EXCEPT ![v] = d]
    /\ UNCHANGED <<dir, state, written, todo, cur, others, text, mem, counters>>

-----------------------------------------------------------------------------
(* promote and move_with_reasons differ in the target directory, the       *)
(* status they write and the state they record.                            *)

(* The draft is read again.                                                *)
ReadDraft(v) ==
    LET t == dir["drafts"][cur[v]]
    IN  /\ pc[v] = "move"
        /\ t \notin {"none", "plain", "list", "unread"}
        /\ text' = [text EXCEPT ![v] = t]
        /\ pc' = [pc EXCEPT ![v] = "write"]
        /\ UNCHANGED <<dir, state, written, todo, cur, others, verdict, mem, counters>>

(* A file without frontmatter is renamed as it is, and no state recorded.  *)
RenamePlain(v) ==
    /\ pc[v] = "move"
    /\ dir["drafts"][cur[v]] = "plain"
    /\ dir' = [dir EXCEPT ![verdict[v]][cur[v]] = "plain",
                          !["drafts"][cur[v]] = "none"]
    /\ pc' = [pc EXCEPT ![v] = "next"]
    /\ UNCHANGED <<state, written, todo, cur, others, verdict, text, mem, counters>>

(* write_text: the copy is truncated,                                      *)
OpenCopy(v) ==
    /\ pc[v] = "write"
    /\ dir' = [dir EXCEPT ![verdict[v]][cur[v]] = "cut"]
    /\ pc' = [pc EXCEPT ![v] = "fill"]
    /\ UNCHANGED <<state, written, todo, cur, others, verdict, text, mem, counters>>

(* and filled.                                                             *)
FillCopy(v) ==
    /\ pc[v] = "fill"
    /\ dir' = [dir EXCEPT ![verdict[v]][cur[v]] = Rewritten(text[v])]
    /\ pc' = [pc EXCEPT ![v] = "unlink"]
    /\ UNCHANGED <<state, written, todo, cur, others, verdict, text, mem, counters>>

(* Variant of Unlink: the draft goes before the copy is complete.          *)
UnlinkEarly(v) ==
    /\ pc[v] \in {"fill", "unlink"}
    /\ cur[v] \in Files("drafts")
    /\ dir' = [dir EXCEPT !["drafts"][cur[v]] = "none"]
    /\ pc' = [pc EXCEPT ![v] = IF @ = "fill" THEN "fill" ELSE "load"]
    /\ UNCHANGED <<state, written, todo, cur, others, verdict, text, mem, counters>>

(* Variant of Unlink: the draft stays where it is.                         *)
UnlinkSkipped(v) ==
    /\ pc[v] = "unlink"
    /\ pc' = [pc EXCEPT ![v] = "load"]
    /\ UNCHANGED <<dir, state, written, todo, cur, others, verdict, text, mem, counters>>

(* path.unlink()                                                           *)
Unlink(v) ==
    /\ pc[v] = "unlink"
    /\ cur[v] \in Files("drafts")
    /\ dir' = [dir EXCEPT !["drafts"][cur[v]] = "none"]
    /\ pc' = [pc EXCEPT ![v] = "load"]
    /\ UNCHANGED <<state, written, todo, cur, others, verdict, text, mem, counters>>

(* Variants of DraftGone: the draft's absence is noticed while the copy is *)
(* filled, and is waited out.                                              *)
DraftGoneInCopy(v) ==
    /\ pc[v] \in {"move", "fill", "unlink"}
    /\ cur[v] \notin Files("drafts")
    /\ Stop(v)
    /\ UNCHANGED <<dir, state, written, counters>>

DraftAwaited(v) ==
    /\ pc[v] \in {"move", "unlink"}
    /\ cur[v] \notin Files("drafts")
    /\ UNCHANGED vars

(* FileNotFoundError: the draft that the move reads or unlinks has gone.   *)
DraftGone(v) ==
    /\ pc[v] \in {"move", "unlink"}
    /\ cur[v] \notin Files("drafts")
    /\ Stop(v)
    /\ UNCHANGED <<dir, state, written, counters>>

(* The draft cannot be decoded, or its frontmatter takes no status: the    *)
(* move raises before it writes.                                           *)
MoveRaises(v) ==
    /\ pc[v] = "move"
    /\ dir["drafts"][cur[v]] \in {"list", "unread"}
    /\ Stop(v)
    /\ UNCHANGED <<dir, state, written, counters>>

(* Variants of LoadState: the directory is recorded in place of the state, *)
(* and a rejection as a discovery.                                         *)
LoadDirectory(v) ==
    /\ pc[v] = "load"
    /\ mem' = [mem EXCEPT ![v] = [state EXCEPT ![cur[v]] = verdict[v]]]
    /\ pc' = [pc EXCEPT ![v] = "save"]
    /\ UNCHANGED <<dir, state, written, todo, cur, others, verdict, text, counters>>

LoadAsDiscovered(v) ==
    /\ pc[v] = "load"
    /\ mem' = [mem EXCEPT ![v] = [state EXCEPT ![cur[v]] = "discovered"]]
    /\ pc' = [pc EXCEPT ![v] = "save"]
    /\ UNCHANGED <<dir, state, written, todo, cur, others, verdict, text, counters>>

(* apply_transition: the store is loaded and the card's state is set,      *)
LoadState(v) ==
    /\ pc[v] = "load"
    /\ mem' = [mem EXCEPT ![v] = [state EXCEPT ![cur[v]] = StateOf[verdict[v]]]]
    /\ pc' = [pc EXCEPT ![v] = "save"]
    /\ UNCHANGED <<dir, state, written, todo, cur, others, verdict, text, counters>>

(* and the store is saved.                                                 *)
SaveState(v) ==
    /\ pc[v] = "save"
    /\ state' = mem[v]
    /\ pc' = [pc EXCEPT ![v] = "next"]
    /\ UNCHANGED <<dir, written, todo, cur, others, verdict, text, mem, counters>>

(* Another tool saves the store at the same moment (see LocalState): it    *)
(* does not parse, or the temporary file has gone, and the run ends.       *)
StoreFails(v) ==
    /\ pc[v] \in {"load", "save"}
    /\ Stop(v)
    /\ UNCHANGED <<dir, state, written, counters>>

(* The run is killed.                                                      *)
Crash(v) ==
    /\ Busy(v)
    /\ crashes < MaxCrashes
    /\ crashes' = crashes + 1
    /\ Stop(v)
    /\ UNCHANGED <<dir, state, written, runs, returns>>

Step(v) ==
    \/ Finish(v) \/ Check(v) \/ CheckRaises(v) \/ ListReady(v) \/ ListDrafts(v)
    \/ ReadOther(v) \/ Judge(v) \/ ReadDraft(v) \/ RenamePlain(v) \/ OpenCopy(v)
    \/ FillCopy(v) \/ Unlink(v) \/ DraftGone(v) \/ MoveRaises(v) \/ LoadState(v)
    \/ SaveState(v)

Agents == \E f \in Finds, t \in Texts : WriteDraft(f, t)
Fixer == \E f \in Finds, t \in Texts : ReturnDraft(f, t)

Next ==
    \/ Agents
    \/ Fixer
    \/ \E v \in Validators : Start(v) \/ Step(v) \/ StoreFails(v) \/ Crash(v)

Spec == Init /\ [][Next]_vars

(* One validate.py at a time, a fixer that waits for it to end, and no     *)
(* other tool that uses the store meanwhile.                               *)
Alone(v) == \A w \in Validators \ {v} : ~Busy(w)

SerialNext ==
    \/ Agents
    \/ Fixer /\ \A v \in Validators : ~Busy(v)
    \/ \E v \in Validators : (Alone(v) /\ Start(v)) \/ Step(v) \/ Crash(v)

SerialSpec == Init /\ [][SerialNext]_vars

FairSpec == Spec /\ \A v \in Validators : WF_vars(Step(v))

FairSerialSpec == SerialSpec /\ \A v \in Validators : WF_vars(Step(v))

-----------------------------------------------------------------------------
TypeOK ==
    /\ dir \in [Dirs -> [Finds -> Contents]]
    /\ state \in [Finds -> {"none", "discovered", "rejected"}]
    /\ written \subseteq Finds
    /\ pc \in [Validators -> {"idle", "next", "list ready", "scan ready",
                              "scan drafts", "move", "write", "fill", "unlink",
                              "load", "save"}]
    /\ todo \in [Validators -> SUBSET Finds]
    /\ cur \in [Validators -> Finds]
    /\ others \in [Validators -> SUBSET Finds]
    /\ verdict \in [Validators -> {"ready", "rejected"}]
    /\ text \in [Validators -> Contents]
    /\ mem \in [Validators -> [Finds -> {"none", "discovered", "rejected"}]]
    /\ runs \in 0..MaxRuns
    /\ returns \in 0..MaxReturns
    /\ crashes \in 0..MaxCrashes

(* A card that was written is whole in some directory, whenever the run    *)
(* that moves it is killed: promote and move_with_reasons fill the copy    *)
(* before they unlink the draft.                                           *)
NoFindLost ==
    \A f \in written : \E d \in Dirs : dir[d][f] \notin {"none", "cut"}

(* No two cards of ready/ overlap (B-1-4 of the finding schema), although  *)
(* cards arrive during the scans and copies are left behind by killed runs.*)
ReadyIsDisjoint ==
    \A f, g \in Finds :
        f # g /\ dir["ready"][f] = "good" /\ dir["ready"][g] = "good"
            => <<f, g>> \notin Overlaps

(* Runs that race for the same drafts may die on each other's unlinks and  *)
(* truncate each other's copies, but when they have ended, none was killed  *)
(* and no card was returned meanwhile, every card is whole in some place.  *)
RacesLoseNothing ==
    (\A v \in Validators : ~Busy(v)) /\ crashes = 0 /\ returns = 0
        => NoFindLost

(* No run waits for another: each ends.                                    *)
RunsEnd == \A v \in Validators : Busy(v) ~> ~Busy(v)

(* When no run is in progress and none was killed, a card is in one        *)
(* directory.                                                              *)
OnePlace ==
    (\A v \in Validators : ~Busy(v)) /\ crashes = 0 =>
        \A f \in written : \E d \in Dirs :
            f \in Files(d) /\ \A e \in Dirs \ {d} : f \notin Files(e)

(* Then the FSM store agrees with the directory, except on cards without   *)
(* frontmatter, whose move is not recorded.                                *)
PlaceIsRecorded ==
    (\A v \in Validators : ~Busy(v)) /\ crashes = 0 =>
        \A f \in written, d \in {"ready", "rejected"} :
            dir[d][f] \notin {"none", "plain"} => state[f] = StateOf[d]

(* A target of a run is held up in drafts/ by two things only: a card at   *)
(* or before it in the order of the names whose validation raises, and a   *)
(* draft, wherever it sorts, whose frontmatter is no mapping, since the    *)
(* duplicate rule of any target trips over it.                             *)
HeldUp(f) ==
    \E g \in Files("drafts") :
        dir["drafts"][g] = "list" \/ (g <= f /\ Raises(dir["drafts"][g]))

(* Every other target of a run that is not killed leaves drafts/: a card   *)
(* that fails a rule, one without frontmatter, or one behind the target    *)
(* that cannot be read keeps nothing back.                                 *)
TargetsLeave ==
    \A f \in Finds :
        (\E v \in Validators : f \in todo[v])
            ~> (f \notin Files("drafts") \/ HeldUp(f) \/ crashes > 0)

(* The gate of one validator implements the abstract one.                  *)
placeBar ==
    [f \in Finds |->
        IF f \notin written THEN "unwritten"
        ELSE IF f \in Files("drafts") THEN "drafts"
        ELSE IF f \in Files("ready") THEN "ready" ELSE "rejected"]

Gate == INSTANCE FindGate WITH place <- placeBar

ImplementsFindGate == Gate!Spec

=============================================================================
