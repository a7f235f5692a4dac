SPECIFICATION Spec
CONSTANTS
    s1 = s1
    s2 = s2
    whole = whole
    part = part
    file = file
    Sessions = {s1, s2}
    Symbols = {whole, part}
    Paths = {file}
    PathOf <- OneFile
    Nil = Nil
    LeaseTtl = 1
    HeartbeatLog = 0
    SnapshotEvery = 2
    DiskFaults = FALSE
    ClockStepsBack = TRUE
    MaxSeq = 5
    ClientsUntil = 1
    MaxNow = 1
    MaxFaults = 1
SYMMETRY Symmetry
INVARIANTS
    LeaseExclusive
    RecoversExactly
    ExactlyOnce
CHECK_DEADLOCK FALSE
