SPECIFICATION FairSpec
CONSTANTS
    a = a  b = b
    c1 = c1  c2 = c2
    k1 = k1  k2 = k2
    userId = userId
    Sessions = {a, b}
    Collisions = {c1, c2}
    Debatable = {c1, c2}
    WriterOf <- Writers
    AffectedOf <- Affected
    Contracts = {k1, k2}
    SymbolOf <- Symbol
    CollisionSymbol <- Primaries
    NoContract = NoContract
    Timeout = 1
    MaxRounds = 2
    MaxNow = 1
    AgentMoves = 0
    HumanMoves = 1
    WorkerMoves = 0
    MaxFaults = 1
INVARIANTS
    VersionsDistinct
PROPERTIES
    NoneWaitsForever
CHECK_DEADLOCK FALSE
