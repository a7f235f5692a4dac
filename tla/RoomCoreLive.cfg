SPECIFICATION FairSpec
CONSTANTS
    s1 = s1
    s2 = s2
    whole = whole
    part = part
    file = file
    Sessions = {s1}
    Symbols = {whole}
    Paths = {file}
    PathOf <- OneSymbol
    Nil = Nil
    LeaseTtl = 1
    HeartbeatLog = 0
    SnapshotEvery = 2
    DiskFaults = TRUE
    ClockStepsBack = FALSE
    MaxSeq = 4
    ClientsUntil = 0
    MaxNow = 5
    MaxFaults = 2
INVARIANTS
    TokensIncrease
PROPERTIES
    LeasesEnd
CHECK_DEADLOCK FALSE
