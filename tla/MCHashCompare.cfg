SPECIFICATION Spec
CONSTANTS
    a = a
    b = b
    ai = ai
    h1 = h1
    h2 = h2
    Peer <- MCPeer
    AiHost = ai
    Hash <- MCHash
    FullHashEvery = 3
    InitialReadyTurn = 1
    MaxTurn = 3
SYMMETRY MCSymmetry
INVARIANTS
    TypeOK
    LatchIsRight
    PendingIsDue
PROPERTIES
    ReferencesStable
CHECK_DEADLOCK FALSE
