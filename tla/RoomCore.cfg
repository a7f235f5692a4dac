SPECIFICATION Spec
CONSTANTS
    s1 = s1
    s2 = s2
    whole = whole
    part = part
    file = file
    Sessions = {s1, s2}
    Symbols = {whole, part}
    Paths = {file}
    PathOf <- OneFile
    Nil = Nil
    LeaseTtl = 2
    HeartbeatLog = 1
    SnapshotEvery = 2
    DiskFaults = FALSE
    ClockStepsBack = FALSE
    MaxSeq = 5
    ClientsUntil = 3
    MaxNow = 4
    MaxFaults = 0
SYMMETRY Symmetry
INVARIANTS
    WritesFenced
    NoEarlyExpiry
    NoLeaseOutlivesItsSession
    RequestsAnswered
PROPERTIES
    ImplementsLeaseTable
CHECK_DEADLOCK FALSE
