SPECIFICATION Spec
CONSTANTS
    a = a
    b = b
    None = None
    Process <- MCProcess
    MaxAttempts = 3
    KeepFinished = FALSE
INVARIANT ResumedByOne
CHECK_DEADLOCK FALSE
