\* Two processes that call apply_transition at the same time.
SPECIFICATION FairSpec
CONSTANTS
    p1 = p1
    p2 = p2
    i1 = i1
    i2 = i2
    draft = draft
    ready = ready
    fp = fp
    n1 = n1
    n2 = n2
    n3 = n3
    None = None
    NoFile = NoFile
    Procs <- MCProcs
    Items <- MCItems
    States <- OneState
    Extras <- NoExtras
    Inodes <- ThreeInodes
    MaxCalls = 3
    MaxCrashes = 1
INVARIANTS
    TransitionsInOrder
PROPERTIES
    CallsEnd
\* The behaviours end when the calls are used up.
CHECK_DEADLOCK FALSE
