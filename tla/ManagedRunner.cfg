SPECIFICATION RunnerSpec
CONSTANTS
    Sessions = {a, b}
    a = a
    b = b
    MaxInbox = 1
    Managed = {a, b}
    MaxDepth = 2
    MaxWakes = 1
    Window = 2
    MaxFailures = 2
    MaxBackoff = 1
    MaxMoves = 3
    MaxFaults = 1
INVARIANTS
    InOnePlace
    AnsweredOnce
    RepliesFit
PROPERTIES
    WakesAreServed
CHECK_DEADLOCK FALSE
