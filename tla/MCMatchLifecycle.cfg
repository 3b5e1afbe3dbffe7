SPECIFICATION Spec
CONSTANTS
    h = h
    Person = {h}
    Host = h
    Config <- MCConfig
    Attempts = 2
    Interval = 2
    MaxTurn = 2
    MaxRuns = 2
    MaxInputs = 1
INVARIANTS
    TypeOK
    MatchConsistent
PROPERTIES
    FinalStays
    HealEnds
CHECK_DEADLOCK FALSE
