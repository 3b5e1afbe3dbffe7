SPECIFICATION Spec
CONSTANTS
    h = h
    b = b
    None = None
    o = o
    Uuid <- MCUuid
    Name <- MCName
    Hosts <- MCHosts
    Welcome <- MCWelcome
    Watchers <- MCWatchers
    Slot <- MCSlot
    AiPlayers = 0
    MaxSessions = 3
    ObserverLimit = 1
    MaxPending = 1
    SharedSlots = TRUE
    ReleaseController = TRUE
    MaxRows = 3
    Budget = 2
    MinCharge = 1
    Skews = 1
INVARIANTS
    TypeOK
    Seated
PROPERTIES
    SeatsKept
    HoldsEnd
CHECK_DEADLOCK FALSE
