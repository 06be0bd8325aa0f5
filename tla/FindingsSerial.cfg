SPECIFICATION FairSerialSpec
CONSTANTS
    v1 = v1
    v2 = v2
    Finds <- Chain
    Overlaps <- ChainOverlaps
    Validators <- OneValidator
    MaxRuns = 2
    MaxReturns = 1
    MaxCrashes = 0
INVARIANTS
    TypeOK
    OnePlace
    PlaceIsRecorded
PROPERTIES
    TargetsLeave
    ImplementsFindGate
\* The behaviours end when the runs are used up.
CHECK_DEADLOCK FALSE
