SPECIFICATION Spec
CONSTANTS
    Loaded <- AllScenarios
    Trials <- MCTrials
    Attempts <- MCAttempts
    Retries <- MCRetries
INVARIANTS
    TypeOK
    CollectedShowsDefect
    CollectedExcludesDefect
    CollectedShowsFix
    BuildsAreConfirmed
    FailuresAreNotVerdicts
    NothingLeftBehind
PROPERTIES
    OrphansEnd
\* The behaviours end when the proof has its status.
CHECK_DEADLOCK FALSE
