SPECIFICATION PlannerSpec
CONSTANTS
    ann = ann
    bob = bob
    Agents <- InOrder
    Files = {1}
    SymbolKeys <- OneSymbol
    Drafts <- OneDraft
    MaxMoves = 2
INVARIANTS
    OnlyLateNewsIsOverruled
    PlanIsCurrent
PROPERTIES
    ComesToRest
CHECK_DEADLOCK FALSE
