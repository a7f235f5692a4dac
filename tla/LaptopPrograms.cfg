SPECIFICATION Spec
CONSTANTS
    me = me
    other = other
    f1 = f1
    f2 = f2
    f3 = f3
    f4 = f4
    Lines <- ThreeLines
    MaxQueue = 1
    Urgent = 2
    Local = me
    VoiceAll = FALSE
    System = room
    MaxMutes = 2
    LocalAgent = me
    SpeakForAll = FALSE
    RoomSpeaker = room
    MaxClicks = 3
    Collisions = {c1, c2}
    MaxKeys = 3
    MaxBreaks = 1
    Repos = {"r1", "r2"}
    HostFiles = {"settings", "claude"}
    Shared = "claude"
    Preset = {"claude", "hook"}
    MaxDaemons = 2
    MaxCrashes = 1
    MaxEdits = 1
    MaxJoins = 2
    AgentHosts = {"claude-code", "codex", "gemini-cli", "antigravity"}
    ToolCalls <- ThreeCalls
    Watched <- Sources
    MaxCalls = 1
    MaxTurns = 2
    MaxDeaths = 1
    Requests <- ThreeRequests
    Members = {me, other}
    Outcomes = {"yes", "no"}
    Markets <- TwoMarkets
    OwnerOf <- Owners
    Starting = 100
    Cost <- TwoOutcomeCost
    TimeOutcome <- Buckets
    MaxTs = 2
    MaxTrades = 3
    MaxEvents = 2
INVARIANTS
    DraftsAreOwn
    LeavesNoTrace
    FailsClosed
    NoSilentWrite
    AnswersAccountForAll
    ForecastsAreClosingPrices
PROPERTIES
    NothingHangs
CHECK_DEADLOCK FALSE
