SPECIFICATION Spec
CONSTANTS
    r1 = r1
    r2 = r2
    sol = sol
    cand = cand
    broken = broken
    None = None
    Runs <- MCRuns
    Ports = {17000}
    Targets <- MCTargets
    Solutions <- MCSolutions
    Malformed <- MCMalformed
    Absent = {}
    Jobs <- MCJobs
    Outcomes = {"blocked-env", "collected"}
    MaxClock = 1
    MaxFaults = 1
    MaxKills = 1
INVARIANTS
    TypeOK
    WorktreesAreRemoved
    HomesAreRemoved
    StolenPortBlocks
    PlacesAgree
PROPERTIES
    ProofsAreKept
\* The behaviours end when the runs are used up.
CHECK_DEADLOCK FALSE
