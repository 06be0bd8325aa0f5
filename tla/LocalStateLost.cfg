\* A lost update, against the docstring.
SPECIFICATION Spec
CONSTANTS
    p1 = p1
    p2 = p2
    i1 = i1
    i2 = i2
    draft = draft
    ready = ready
    fp = fp
    n1 = n1
    n2 = n2
    n3 = n3
    None = None
    NoFile = NoFile
    Procs <- MCProcs
    Items <- OneItem
    States <- MCStates
    Extras <- NoExtras
    Inodes <- ThreeInodes
    MaxCalls = 2
    MaxCrashes = 0
INVARIANTS
    StateIsCurrent
\* The behaviours end when the calls are used up.
CHECK_DEADLOCK FALSE
