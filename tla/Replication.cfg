SPECIFICATION FairSpec
CONSTANTS
    MaxOthers = 1
    MaxConns = 2
    MaxStray = 1
INVARIANTS
    ReplicaIsExact
    RejoinStands
    HistoryIsTheLog
PROPERTIES
    CatchesUp
CHECK_DEADLOCK FALSE
