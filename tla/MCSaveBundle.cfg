SPECIFICATION Spec
CONSTANTS
    MaxAttempts = 2
    MaxTurns = 3
    MaxRuns = 4
INVARIANTS
    TypeOK
    NothingPlayedIsLost
    CrashLoopEnds
PROPERTIES
    ResumesWhatWasPlayed
    OverIsOver
CHECK_DEADLOCK FALSE
