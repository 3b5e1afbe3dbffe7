SPECIFICATION FairSpec
CONSTANTS
    x = x
    y = y
    None = None
    Plans <- MCPlans
    Name <- MCName
    ControlCap = 4
INVARIANTS
    TypeOK
    HostingConsistent
    LobbyShowsTheGame
PROPERTIES
    GamesGoAndServerStops
CHECK_DEADLOCK FALSE
