CONSTANTS
    Windows = 6
    WindowSize = 2
    FreeWindows = 3
    InTransit = 2
    MaxWaiting = 3
    Slots = {1, 2}
    Plans <- MCPlans
SPECIFICATION Spec
INVARIANTS
    TypeOK
    LinkConsistent
PROPERTIES
    Fifo
    SlotsSettle
CHECK_DEADLOCK FALSE
