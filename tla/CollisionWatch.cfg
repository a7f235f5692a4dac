SPECIFICATION Spec
CONSTANTS
    a = a
    b = b
    c = c
    Sessions = {a, b, c}
    Remote = {a}
    Files = {1}
    Symbols <- OneSymbol
    Arrivals <- NewOrReading
    MaxNamed = 1
    MaxEvents = 3
SYMMETRY Symmetric
INVARIANTS
    WritersMeet
    ClaimantsMeet
    OpenedOnce
CHECK_DEADLOCK FALSE
