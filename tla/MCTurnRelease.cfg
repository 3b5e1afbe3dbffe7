SPECIFICATION FairSpec
CONSTANTS
    a = a
    b = b
    ai = ai
    noLimit = noLimit
    Peer <- MCPeer
    AiHost = ai
    CommandDelay = 2
    LagLimits <- MCLagLimits
    NoLimit = noLimit
    Interval = 1
    PaceBacklog = 2
    MaxTurn = 4
    MaxClock = 4
INVARIANTS
    TypeOK
    NoPlayerLeftBehind
    WithinReach
PROPERTIES
    NoMissedRelease
    AiHostNeverRunsAhead
    PacedByClock
    MatchProgresses
CHECK_DEADLOCK FALSE
