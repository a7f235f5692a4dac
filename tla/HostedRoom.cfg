SPECIFICATION HostedSpec
CONSTANTS
    d = d
    only = only
    Daemons = {d}
    Dashboards = {w}
    Asks = {a}
    SessionOf <- OneSession
    Symbols = {x}
    x = x
    file = file
    Paths = {file}
    PathOf <- OneSymbol
    Nil = Nil
    LeaseTtl = 1
    HeartbeatLog = 1
    ReplayBatch = 2
    MaxSockets = 2
    MaxMoves = 2
    ClientsUntil = 0
    MaxNow = 1
INVARIANTS
    StreamsAreWhole
    AlarmCovers
    SubmitsLandInOrder
PROPERTIES
    SubmitsAreKept
CHECK_DEADLOCK FALSE
