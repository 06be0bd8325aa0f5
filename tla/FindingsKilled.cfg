SPECIFICATION SerialSpec
CONSTANTS
    v1 = v1
    v2 = v2
    Finds <- Chain
    Overlaps <- ChainOverlaps
    Validators <- OneValidator
    MaxRuns = 3
    MaxReturns = 1
    MaxCrashes = 2
INVARIANTS
    NoFindLost
    ReadyIsDisjoint
\* The behaviours end when the runs are used up.
CHECK_DEADLOCK FALSE
