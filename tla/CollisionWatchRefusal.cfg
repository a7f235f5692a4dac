SPECIFICATION Spec
CONSTANTS
    a = a
    b = b
    c = c
    Sessions = {a, b}
    Remote = {}
    Files = {1}
    Symbols <- OneSymbol
    Arrivals <- NewOrReading
    MaxNamed = 3
    MaxEvents = 3
INVARIANTS
    RefusalsCanBeReleased
CHECK_DEADLOCK FALSE
