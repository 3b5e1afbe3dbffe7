SPECIFICATION Spec
CONSTANTS
    MaxAttempts = 2
    MaxTurns = 3
    MaxRuns = 4
INVARIANTS
    JournalCoversState
CHECK_DEADLOCK FALSE
