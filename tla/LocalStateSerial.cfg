\* One call at a time, with kills in the middle of a call.
SPECIFICATION FairSerialSpec
CONSTANTS
    p1 = p1
    p2 = p2
    i1 = i1
    i2 = i2
    draft = draft
    ready = ready
    fp = fp
    n1 = n1
    n2 = n2
    n3 = n3
    None = None
    NoFile = NoFile
    Procs <- MCProcs
    Items <- MCItems
    States <- MCStates
    Extras <- MCExtras
    Inodes <- TwoInodes
    MaxCalls = 3
    MaxCrashes = 2
INVARIANTS
    TypeOK
    Readable
    StateIsChained
    LogFollowsState
PROPERTIES
    Durable
    CallsLand
    ImplementsAtomicStore
\* The behaviours end when the calls are used up.
CHECK_DEADLOCK FALSE
