SPECIFICATION Spec
CONSTANTS
    a = a
    b = b
    o = o
    Peer <- MCPeer
    Player <- MCPlayer
    DelayedObserver <- MCDelayed
    CommandDelay = 2
    DelayTurns = 2
    MaxTurn = 5
    MaxCommands = 2
INVARIANTS
    TypeOK
    EveryoneServed
PROPERTIES
    FeedKeepsItsDistance
    SharesOneLog
CHECK_DEADLOCK FALSE
