SPECIFICATION Spec
CONSTANTS
    p1 = p1  p2 = p2  s1 = s1  s2 = s2  s3 = s3  a1 = a1
    Procs <- MCOne
    InstrumentOrder <- MCPair
    Ids <- MCIds2
    AlertIds <- MCAlerts
    Markets <- MCMarkets
    FlagSettings <- MCFlags
    Decision <- MCDecision
    FreshTicks = 0
    Window = 240
    MaxTime = 2
    AwareTimestamps = FALSE
    MayFail = FALSE
INVARIANTS
    ScanFallbackAnswers
CHECK_DEADLOCK FALSE
