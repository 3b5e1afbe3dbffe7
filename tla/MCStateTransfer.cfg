SPECIFICATION Spec
CONSTANTS
    a = a
    b = b
    o = o
    None = None
    Peer <- MCPeer
    Watcher <- MCWatcher
    Starters <- MCStarters
    Delay = 1
    Window = 1
    Chunks = 2
    MaxTurn = 2
    MaxClients = 3
INVARIANTS
    TypeOK
    OnOneWay
    OwnState
PROPERTIES
    JoinsEnd
CHECK_DEADLOCK FALSE
