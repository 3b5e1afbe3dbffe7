SPECIFICATION ResumedSpec
CONSTANTS
    a = a
    b = b
    o = o
    Peer <- MCPeer
    Player <- MCPlayer
    DelayedObserver <- MCDelayed
    CommandDelay = 2
    DelayTurns = 2
    MaxTurn = 5
    MaxCommands = 2
PROPERTIES
    StoppedFeedHolds
CHECK_DEADLOCK FALSE
