SPECIFICATION FairSpec
CONSTANTS
    a = a  b = b
    c1 = c1  c2 = c2
    k1 = k1  k2 = k2
    userId = userId
    Sessions = {a, b}
    Collisions = {c1}
    Debatable = {c1}
    WriterOf <- Writer1
    AffectedOf <- Affected1
    Contracts = {k1, k2}
    SymbolOf <- Symbol
    CollisionSymbol <- Primary
    NoContract = NoContract
    Timeout = 1
    MaxRounds = 2
    MaxNow = 1
    AgentMoves = 2
    HumanMoves = 1
    WorkerMoves = 1
    MaxFaults = 1
INVARIANTS
    ReleasedByConsent
    LedgerIsAgreed
PROPERTIES
    NegotiationsSettle
CHECK_DEADLOCK FALSE
