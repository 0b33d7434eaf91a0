SPECIFICATION Spec
CONSTANTS
    p1 = p1  p2 = p2  s1 = s1  s2 = s2  s3 = s3  a1 = a1
    Procs <- MCProcs
    InstrumentOrder <- MCPair
    Ids <- MCIds2
    AlertIds <- MCNone
    Markets <- MCMarkets
    FlagSettings <- MCFlags
    Decision <- MCDecision
    FreshTicks = 1
    Window = 240
    MaxTime = 2
    AwareTimestamps = TRUE
    MayFail = FALSE
PROPERTIES
    PaperModeHolds
CHECK_DEADLOCK FALSE
