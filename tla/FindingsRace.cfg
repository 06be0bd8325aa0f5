SPECIFICATION FairSpec
CONSTANTS
    v1 = v1
    v2 = v2
    Finds <- Pair
    Overlaps <- PairOverlaps
    Validators <- TwoValidators
    MaxRuns = 2
    MaxReturns = 1
    MaxCrashes = 0
INVARIANTS
    RacesLoseNothing
PROPERTIES
    RunsEnd
\* The behaviours end when the runs are used up.
CHECK_DEADLOCK FALSE
