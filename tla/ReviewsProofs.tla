----------------------------- MODULE ReviewsProofs -----------------------------
(***************************************************************************)
(* What a decision to proceed says about the files it was taken on, for    *)
(* any roles, any selection of them and any mixture of rounds.  The        *)
(* invariant has three parts: a decision that stands is that of the files  *)
(* as they are, since whatever changes the mode or a file discards it; an  *)
(* agent of this round that is still at work has no file of this round;    *)
(* and the variables have their types.                                     *)
(***************************************************************************)
EXTENDS Reviews, FiniteSetTheorems, TLAPS

Agents == Roles \X {"now", "late"}

TypeInv ==
    /\ mode \in Modes
    /\ asked \subseteq Roles
    /\ working \subseteq Agents
    /\ file \in [Roles -> ValidVerdicts \cup {"garbled", None}]
    /\ stale \subseteq Roles

(* The decision is the one aggregate.py would take now.                    *)
DecisionIsCurrent ==
    \/ decision = Undecided
    \/ /\ decision.on \subseteq Roles
       /\ decision.primary = Primary(decision.on)

(* What an agent of this round will write is not there yet: a file of its  *)
(* role is of another round.                                               *)
OwnFilePending ==
    \A r \in Roles : <<r, "now">> \in working /\ file[r] # None => r \in stale

ReviewInv == TypeInv /\ DecisionIsCurrent /\ OwnFilePending

-----------------------------------------------------------------------------
(* Facts about counting and about the rules.                               *)

(* Nobody is counted for a verdict exactly when no file has it.            *)
LEMMA CountedNone ==
  ASSUME TypeInv, NEW roles \in SUBSET Roles, NEW v
  PROVE  /\ Counted(roles, v) \in Nat
         /\ Counted(roles, v) = 0 => \A r \in roles : file[r] # v
<1> DEFINE S == {r \in roles : file[r] = v}
<1>1. IsFiniteSet(roles)
  BY FS_Subset, RolesAssumption
<1>2. IsFiniteSet(S) /\ S \in SUBSET roles
  BY <1>1, FS_Subset
<1>3. Cardinality(S) \in Nat
  BY <1>2, FS_CardinalityType
<1>4. Cardinality(S) = 0 => S = {}
  BY <1>2, FS_EmptySet
<1>5. QED
  BY <1>3, <1>4 DEF Counted

(* As many as there are roles are counted only if all files have it.       *)
LEMMA CountedAll ==
  ASSUME TypeInv, NEW roles \in SUBSET Roles, NEW v,
         Counted(roles, v) = Cardinality(roles)
  PROVE  \A r \in roles : file[r] = v
<1> DEFINE S == {r \in roles : file[r] = v}
<1>1. IsFiniteSet(roles)
  BY FS_Subset, RolesAssumption
<1>2. S \in SUBSET roles /\ Cardinality(roles) = Cardinality(S)
  BY DEF Counted
<1>3. S = roles
  BY <1>1, <1>2, FS_Subset
<1>4. QED
  BY <1>3

(* A set of naturals that has an element has a least one.                  *)
LEMMA LeastMatch ==
  ASSUME NEW S \in SUBSET (1..4), S # {}
  PROVE  Min(S) \in S /\ \A k \in S : Min(S) <= k
<1>1. \E x \in S : \A y \in S : x =< y
  <2>1. CASE 1 \in S
    BY <2>1
  <2>2. CASE 1 \notin S /\ 2 \in S
    BY <2>2
  <2>3. CASE 1 \notin S /\ 2 \notin S /\ 3 \in S
    BY <2>3
  <2>4. CASE 1 \notin S /\ 2 \notin S /\ 3 \notin S
    <3>1. \A y \in 1..4 : y = 1 \/ y = 2 \/ y = 3 \/ y = 4
      OBVIOUS
    <3>2. S = {4}
      BY <2>4, <3>1
    <3>3. QED
      BY <3>2
  <2>5. QED
    BY <2>1, <2>2, <2>3, <2>4
<1>2. QED
  BY <1>1 DEF Min

(* The first rule that matches is a rule of the mode, it matches, and no   *)
(* rule before it does.                                                    *)
LEMMA PrimaryIsFirst ==
  ASSUME mode \in Modes, NEW roles, Primary(roles) # None
  PROVE  \E k \in DOMAIN Rules[mode] :
           /\ Primary(roles) = Rules[mode][k]
           /\ Matches(Rules[mode][k], roles)
           /\ \A j \in DOMAIN Rules[mode] : j < k => ~Matches(Rules[mode][j], roles)
<1>1. DOMAIN Rules[mode] \subseteq 1..4
  BY DEF Rules, Modes
<1>2. Matching(roles) \in SUBSET (1..4)
  BY <1>1 DEF Matching
<1>3. Matching(roles) # {} /\ Primary(roles) = Rules[mode][Min(Matching(roles))]
  BY DEF Primary
<1>4. /\ Min(Matching(roles)) \in Matching(roles)
      /\ \A k \in Matching(roles) : Min(Matching(roles)) <= k
  BY <1>2, <1>3, LeastMatch
<1>5. \A j \in DOMAIN Rules[mode] :
        j < Min(Matching(roles)) => j \notin Matching(roles)
  BY <1>1, <1>2, <1>4
<1>6. QED
  BY <1>3, <1>4, <1>5 DEF Matching

(* Before a pull request it proceeds on three approvals and no objection.  *)
LEMMA PrProceeds ==
  ASSUME mode = "pre-pr", NEW roles, Primary(roles) \in Proceeding
  PROVE  /\ Counted(roles, "real") = 3
         /\ Counted(roles, "synthetic") = 0
         /\ Counted(roles, "false-positive") = 0
<1>1. Rules[mode] = <<"scope_down_or_retract", "proceed_to_pr">>
  BY DEF Rules, Modes
<1>2. PICK k \in DOMAIN Rules[mode] :
        Primary(roles) = Rules[mode][k] /\ Matches(Rules[mode][k], roles)
  BY PrimaryIsFirst, NoneAssumption DEF Modes
<1>3. Matches("proceed_to_pr", roles)
  BY <1>1, <1>2 DEF Proceeding
<1>4. Condition("proceed_to_pr", roles)
  BY <1>3 DEF Matches
<1>5. QED
  BY <1>4 DEF Condition

(* After the harness it proceeds when none of the three rules before       *)
(* matches: with no file that calls the problem not real, and, as there    *)
(* are approvals enough for the rule that scopes down, with none that      *)
(* calls it synthetic.                                                     *)
LEMMA HarnessProceeds ==
  ASSUME TypeInv, mode = "post-harness",
         NEW roles \in SUBSET Roles, Primary(roles) \in Proceeding
  PROVE  /\ Counted(roles, "synthetic") = 0
         /\ Counted(roles, "false-positive") = 0
<1>1. Rules[mode] = <<"abandon", "upstream_wait", "scope_down", "proceed">>
  BY DEF Rules, Modes
<1>2. PICK k \in DOMAIN Rules[mode] :
        /\ Primary(roles) = Rules[mode][k] /\ Matches(Rules[mode][k], roles)
        /\ \A j \in DOMAIN Rules[mode] : j < k => ~Matches(Rules[mode][j], roles)
  BY PrimaryIsFirst, NoneAssumption DEF Modes
<1>3. k = 4
  BY <1>1, <1>2 DEF Proceeding
<1>4. Matches("proceed", roles) /\ ~Matches("scope_down", roles)
  BY <1>1, <1>2, <1>3
<1>5. Condition("proceed", roles) /\ ~Condition("scope_down", roles)
  BY <1>4 DEF Matches
<1>6. /\ Counted(roles, "real") >= 3
      /\ Counted(roles, "false-positive") = 0
      /\ ~(/\ Counted(roles, "real") >= 2
           /\ Counted(roles, "insufficient") >= 2 \/ Counted(roles, "synthetic") >= 1)
  BY <1>5 DEF Condition
<1>7. Counted(roles, "real") \in Nat /\ Counted(roles, "synthetic") \in Nat
  BY CountedNone
<1>8. QED
  BY <1>6, <1>7

(* The rules for an answer to a maintainer let nothing pass.               *)
LEMMA ResponseNeverProceeds ==
  ASSUME mode = "maintainer-response", NEW roles
  PROVE  Primary(roles) \notin Proceeding
<1>1. Rules[mode] = <<"already_satisfied_report_back", "fix_additional_violation">>
  BY DEF Rules, Modes
<1>2. SUFFICES ASSUME Primary(roles) # None
               PROVE  Primary(roles) \notin Proceeding
  BY NoneAssumption
<1>3. PICK k \in DOMAIN Rules[mode] : Primary(roles) = Rules[mode][k]
  BY <1>2, PrimaryIsFirst DEF Modes
<1>4. QED
  BY <1>1, <1>3 DEF Proceeding

-----------------------------------------------------------------------------
(* The invariant.                                                          *)

LEMMA InitReviewInv == Init => ReviewInv
<1> SUFFICES ASSUME Init PROVE ReviewInv
  OBVIOUS
<1>1. TypeInv
  BY DEF Init, TypeInv
<1>2. DecisionIsCurrent
  BY DEF Init, DecisionIsCurrent
<1>3. OwnFilePending
  BY DEF Init, OwnFilePending
<1>4. QED
  BY <1>1, <1>2, <1>3 DEF ReviewInv

(* What is decided depends on the mode and the files alone.                *)
LEMMA PrimaryDepends ==
  ASSUME UNCHANGED <<mode, file>>, NEW roles
  PROVE  Primary(roles)' = Primary(roles)
BY DEF Primary, Matching, Matches, Condition, Counted

LEMMA NextReviewInv == ReviewInv /\ [Next]_vars => ReviewInv'
<1> SUFFICES ASSUME ReviewInv, [Next]_vars PROVE ReviewInv'
  OBVIOUS
<1> USE DEF ReviewInv
<1>1. CASE \E m \in Modes, roles \in Selections : Ask(m, roles)
  <2>1. PICK m \in Modes, roles \in Selections : Ask(m, roles)
    BY <1>1
  <2>2. roles \subseteq Roles
    BY SelectionsAssumption
  <2>3. TypeInv'
    BY <2>1, <2>2 DEF Ask, TypeInv, Agents
  <2>4. DecisionIsCurrent'
    BY <2>1 DEF Ask, DecisionIsCurrent, Undecided
  <2>5. OwnFilePending'
    BY <2>1 DEF Ask, OwnFilePending
  <2>6. QED
    BY <2>3, <2>4, <2>5
<1>2. CASE \E a \in working, v \in Verdicts : Answer(a, v)
  <2>1. PICK a \in working, v \in Verdicts : Answer(a, v)
    BY <1>2
  <2>2. a \in Agents /\ a[1] \in Roles /\ a[2] \in {"now", "late"} /\ a = <<a[1], a[2]>>
    BY DEF TypeInv, Agents
  <2>3. TypeInv'
    BY <2>1, <2>2, VerdictsAssumption DEF Answer, TypeInv
  <2>4. DecisionIsCurrent'
    BY <2>1 DEF Answer, DecisionIsCurrent, Undecided
  <2>5. OwnFilePending'
    BY <2>1, <2>2 DEF Answer, OwnFilePending, TypeInv
  <2>6. QED
    BY <2>3, <2>4, <2>5
<1>3. CASE \E a \in working : GiveUp(a)
  <2>1. PICK a \in working : GiveUp(a)
    BY <1>3
  <2>2. TypeInv'
    BY <2>1 DEF GiveUp, TypeInv
  <2>3. DecisionIsCurrent'
    BY <2>1 DEF GiveUp, DecisionIsCurrent, Undecided
  <2>4. OwnFilePending'
    BY <2>1 DEF GiveUp, OwnFilePending
  <2>5. QED
    BY <2>2, <2>3, <2>4
<1>4. ASSUME NEW roles \in SUBSET Roles, Aggregate(roles)
      PROVE  ReviewInv'
  <2>1. UNCHANGED <<mode, asked, working, file, stale>>
    BY <1>4 DEF Aggregate
  <2>2. TypeInv'
    BY <2>1 DEF TypeInv
  <2>3. decision'.on = roles /\ decision'.primary = Primary(roles)
    BY <1>4 DEF Aggregate
  <2>4. Primary(roles)' = Primary(roles)
    BY <2>1, PrimaryDepends
  <2>5. DecisionIsCurrent'
    BY <2>3, <2>4 DEF DecisionIsCurrent
  <2>6. OwnFilePending'
    BY <2>1 DEF OwnFilePending
  <2>7. QED
    BY <2>2, <2>5, <2>6
<1>5. CASE UNCHANGED vars
  <2>1. UNCHANGED <<mode, asked, working, file, stale, decision>>
    BY <1>5 DEF vars
  <2>2. TypeInv' /\ OwnFilePending'
    BY <2>1 DEF TypeInv, OwnFilePending
  <2>3. DecisionIsCurrent'
    <3>1. Primary(decision.on)' = Primary(decision.on)
      BY <2>1 DEF Primary, Matching, Matches, Condition, Counted
    <3>2. QED
      BY <2>1, <3>1 DEF DecisionIsCurrent, Undecided
  <2>4. QED
    BY <2>2, <2>3
<1>6. asked \in SUBSET Roles /\ Roles \in SUBSET Roles
  BY DEF TypeInv
<1>7. QED
  BY <1>1, <1>2, <1>3, <1>4, <1>5, <1>6 DEF Next

LEMMA ReviewInvHolds == Spec => []ReviewInv
BY InitReviewInv, NextReviewInv, PTL DEF Spec

-----------------------------------------------------------------------------
(* A decision that proceeds is a current one, of a mode that can proceed.  *)
LEMMA ProceedingIsCurrent ==
  ASSUME ReviewInv, Proceeds
  PROVE  /\ decision.on \in SUBSET Roles
         /\ Primary(decision.on) \in Proceeding
         /\ mode \in {"pre-pr", "post-harness"}
<1>1. decision # Undecided
  BY NoneAssumption DEF Proceeds, Undecided
<1>2. decision.on \in SUBSET Roles /\ Primary(decision.on) \in Proceeding
  BY <1>1 DEF ReviewInv, DecisionIsCurrent, Proceeds
<1>3. mode # "maintainer-response"
  BY <1>2, ResponseNeverProceeds
<1>4. mode \in Modes
  BY DEF ReviewInv, TypeInv
<1>5. QED
  BY <1>2, <1>3, <1>4 DEF Modes

(* Whatever roles there are and however rounds, modes and late agents      *)
(* follow each other, a round of three roles for a pull request that       *)
(* aggregate.py lets proceed has three approvals in its files, and, when   *)
(* none of them is of another round, an answer of every agent it asked.    *)
THEOREM PullRequestsNeedEveryRole == Spec => []PrNeedsEveryRole
<1>1. ASSUME ReviewInv PROVE PrNeedsEveryRole
  <2> SUFFICES ASSUME mode = "pre-pr", Proceeds,
                      decision.on = asked, Cardinality(asked) = 3
               PROVE  /\ \A r \in asked : file[r] = "real"
                      /\ stale \cap asked = {}
                         => \A r \in asked : <<r, "now">> \notin working
    BY DEF PrNeedsEveryRole
  <2>1. asked \in SUBSET Roles /\ Primary(asked) \in Proceeding
    BY <1>1, ProceedingIsCurrent
  <2>2. Counted(asked, "real") = Cardinality(asked)
    BY <2>1, PrProceeds
  <2>3. \A r \in asked : file[r] = "real"
    BY <1>1, <2>1, <2>2, CountedAll DEF ReviewInv
  <2>4. "real" # None
    BY NoneAssumption DEF ValidVerdicts
  <2>5. \A r \in asked : <<r, "now">> \in working => r \in stale
    BY <1>1, <2>1, <2>3, <2>4 DEF ReviewInv, OwnFilePending
  <2>6. QED
    BY <2>3, <2>5
<1>2. QED
  BY <1>1, ReviewInvHolds, PTL

(* For any roles and files, no decision that lets a candidate pass is      *)
(* taken over a readable file that objects: the rules before the one that  *)
(* proceeds, and its own condition, exclude the two verdicts.              *)
THEOREM ObjectionsAlwaysPrevail == Spec => []ObjectionsPrevail
<1>1. ASSUME ReviewInv PROVE ObjectionsPrevail
  <2> SUFFICES ASSUME Proceeds
               PROVE  \A r \in decision.on : file[r] \notin {"false-positive", "synthetic"}
    BY DEF ObjectionsPrevail
  <2>1. /\ decision.on \in SUBSET Roles
        /\ Primary(decision.on) \in Proceeding
        /\ mode \in {"pre-pr", "post-harness"}
    BY <1>1, ProceedingIsCurrent
  <2>2. /\ Counted(decision.on, "synthetic") = 0
        /\ Counted(decision.on, "false-positive") = 0
    BY <1>1, <2>1, PrProceeds, HarnessProceeds DEF ReviewInv
  <2>3. /\ \A r \in decision.on : file[r] # "synthetic"
        /\ \A r \in decision.on : file[r] # "false-positive"
    BY <1>1, <2>1, <2>2, CountedNone DEF ReviewInv
  <2>4. QED
    BY <2>3
<1>2. QED
  BY <1>1, ReviewInvHolds, PTL
=============================================================================
