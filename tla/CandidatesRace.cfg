SPECIFICATION FairSpec
CONSTANTS
    p1 = p1
    p2 = p2
    c1 = c1
    c2 = c2
    f1 = f1
    f2 = f2
    old = old
    Null = Null
    Missing = Missing
    Elsewhere = Elsewhere
    Cands <- OneCand
    Finds <- OneFind
    FindsOf <- Single
    Verdicts <- ManyVerdicts
    Contents <- MCContents
    Commands <- TwoCommands
    MaxCommands = 3
    MaxDrifts = 0
    MaxOutages = 1
    MaxCrashes = 1
INVARIANTS
    ApprovalIsGrounded
    PublishedHasIssue
    NoIssueOverlooked
PROPERTIES
    IssueIsRecorded
\* The behaviours end when the commands are used up.
CHECK_DEADLOCK FALSE
