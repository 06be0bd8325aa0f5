-------------------------------- MODULE Reviews --------------------------------
(***************************************************************************)
(* skills/cross-review: rounds of review of one target.  run.py asks a     *)
(* number of roles; an agent for each of them works on its own and writes  *)
(* its verdict into the file of the role and the target; aggregate.py      *)
(* reads the files that are there and decides by the rules of the mode.    *)
(* Nothing removes a file: a round may find verdicts of earlier rounds and *)
(* of other modes, and an agent of an earlier round may still be at work.  *)
(***************************************************************************)
EXTENDS Integers, Sequences, FiniteSetsExt

CONSTANTS
    Roles,       \* the roles of ROLES.md
    Selections,  \* the roles that rounds ask: --roles, or those of the mode
    Verdicts,    \* the verdicts that agents give in this instance
    None

Modes == {"post-harness", "pre-pr", "maintainer-response"}
MinAgents == 3

(* VALID_VERDICTS; anything else in a file makes the reader skip it.       *)
ValidVerdicts == {"real", "insufficient", "synthetic", "false-positive", "duplicate"}

(* The rules that let a candidate pass.                                    *)
Proceeding == {"proceed", "proceed_to_pr"}

ASSUME RolesAssumption == IsFiniteSet(Roles)
ASSUME SelectionsAssumption == Selections \subseteq SUBSET Roles
ASSUME VerdictsAssumption == Verdicts \subseteq ValidVerdicts \cup {"garbled"}
ASSUME NoneAssumption == None \notin ValidVerdicts \cup {"garbled"} \cup Proceeding

VARIABLES
    mode,      \* the mode of the round
    asked,     \* the roles that run.py has selected for it
    working,   \* the agents at work, of this round ("now") or another ("late")
    file,      \* the verdict in the file of each role
    stale,     \* the roles whose file is not of this round
    decision   \* what aggregate.py has just decided, and on which roles

vars == <<mode, asked, working, file, stale, decision>>

Undecided == [primary |-> None, on |-> {}]

Init ==
    /\ mode \in Modes
    /\ asked = {}
    /\ working = {}
    /\ file = [r \in Roles |-> None]
    /\ stale = {}
    /\ decision = Undecided

(* run.py prints the prompts, if there are enough roles, and the session   *)
(* starts an agent for each.                                               *)
Ask(m, roles) ==
    /\ Cardinality(roles) >= MinAgents
    /\ mode' = m
    /\ asked' = roles
    /\ working' = (roles \X {"now"}) \cup {<<a[1], "late">> : a \in working}
    /\ stale' = {r \in Roles : file[r] # None}
    /\ decision' = Undecided
    /\ UNCHANGED file

(* An agent writes its file, over the one that is there.                   *)
Answer(a, verdict) ==
    /\ a \in working
    /\ working' = working \ {a}
    /\ file' = [file EXCEPT ![a[1]] = verdict]
    /\ stale' = IF a[2] = "late" THEN stale \cup {a[1]} ELSE stale \ {a[1]}
    /\ decision' = Undecided
    /\ UNCHANGED <<mode, asked>>

(* An agent ends without a file.                                           *)
GiveUp(a) ==
    /\ a \in working
    /\ working' = working \ {a}
    /\ decision' = Undecided
    /\ UNCHANGED <<mode, asked, file, stale>>

-----------------------------------------------------------------------------
(* Variant of Counted: a file that cannot be read stands for approval.     *)
CountedLeniently(roles, v) ==
    Cardinality({r \in roles : file[r] = v \/ (v = "real" /\ file[r] = "garbled")})

(* load_agent_verdicts skips files that are missing or not valid.          *)
Counted(roles, v) == Cardinality({r \in roles : file[r] = v})
Readable(roles) == {r \in roles : file[r] \in ValidVerdicts}

(* consensus_rules of the modes, in their order.  Those of maintainer-     *)
(* response are English sentences, which eval cannot evaluate; the one     *)
(* that is ALWAYS added is never the primary decision.                     *)
Rules ==
    [m \in Modes |->
        CASE m = "post-harness" -> <<"abandon", "upstream_wait", "scope_down", "proceed">>
          [] m = "pre-pr" -> <<"scope_down_or_retract", "proceed_to_pr">>
          [] m = "maintainer-response" ->
                <<"already_satisfied_report_back", "fix_additional_violation">>]

Condition(rule, roles) ==
    LET n(v) == Counted(roles, v)
    IN  CASE rule = "abandon" -> n("false-positive") >= 1 \/ n("real") <= 1
          [] rule = "upstream_wait" -> n("duplicate") >= 1
          [] rule = "scope_down" ->
                n("real") >= 2 /\ (n("insufficient") >= 2 \/ n("synthetic") >= 1)
          [] rule = "proceed" ->
                n("real") >= 3 /\ n("false-positive") = 0 /\ n("duplicate") = 0
          [] rule = "scope_down_or_retract" ->
                n("real") <= 2 \/ n("synthetic") >= 1 \/ n("false-positive") >= 1
          [] rule = "proceed_to_pr" ->
                n("real") = 3 /\ n("synthetic") = 0 /\ n("false-positive") = 0

(* A condition that raises is recorded as a decision too.                  *)
Matches(rule, roles) == mode = "maintainer-response" \/ Condition(rule, roles)

(* The places in its mode's list of the rules that match.                  *)
Matching(roles) == {i \in DOMAIN Rules[mode] : Matches(Rules[mode][i], roles)}

(* Variant of Primary: the last rule that matches.                         *)
LastMatch(roles) ==
    IF Matching(roles) = {} THEN None ELSE Rules[mode][Max(Matching(roles))]

(* compute_consensus: the first rule that matches.                         *)
Primary(roles) ==
    IF Matching(roles) = {} THEN None ELSE Rules[mode][Min(Matching(roles))]

(* aggregate.py, with --roles or, without, over every file of the target.  *)
(* Too few verdicts are a warning; none at all end it.                     *)
Aggregate(roles) ==
    /\ asked # {}
    /\ Readable(roles) # {}
    /\ decision' = [primary |-> Primary(roles), on |-> roles]
    /\ UNCHANGED <<mode, asked, working, file, stale>>

Next ==
    \/ \E m \in Modes, roles \in Selections : Ask(m, roles)
    \/ \E a \in working, v \in Verdicts : Answer(a, v)
    \/ \E a \in working : GiveUp(a)
    \/ Aggregate(asked) \/ Aggregate(Roles)

Spec == Init /\ [][Next]_vars

-----------------------------------------------------------------------------
Proceeds == decision.primary \in Proceeding

(* A round of three roles for a pull request, aggregated over these roles, *)
(* proceeds only when all three files say that problem and fix are real: a *)
(* role that did not answer, or whose file is cut, prevents it, whatever   *)
(* other files are there.  When none of the files is of another round, all *)
(* three have answered in this one.                                        *)
PrNeedsEveryRole ==
    /\ mode = "pre-pr" /\ Proceeds
    /\ decision.on = asked /\ Cardinality(asked) = 3
    => /\ \A r \in asked : file[r] = "real"
       /\ stale \cap asked = {} => \A r \in asked : <<r, "now">> \notin working

(* Whatever rounds, modes and late agents went before, a round proceeds    *)
(* over no readable file, of this round or an older one, that calls the    *)
(* problem synthetic or not real: the rules are tried in their order, and  *)
(* the one that proceeds would let a candidate pass with such a file.      *)
ObjectionsPrevail ==
    Proceeds => \A r \in decision.on : file[r] \notin {"false-positive", "synthetic"}
=============================================================================
