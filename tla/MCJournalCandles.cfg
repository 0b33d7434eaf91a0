SPECIFICATION FairSpec
CONSTANTS
    p1 = p1  p2 = p2  s1 = s1  s2 = s2  s3 = s3  a1 = a1
    Procs <- MCProcs
    InstrumentOrder <- MCPair
    Ids <- MCIds2
    AlertIds <- MCNone
    Markets <- MCGood
    FlagSettings <- MCLive
    Decision <- MCGoodLive
    FreshTicks = 1
    Window = 2
    MaxTime = 3
    AwareTimestamps = TRUE
    MayFail = FALSE
INVARIANTS
    RecentCandlesWhole
PROPERTIES
    SignalsGetDecided
CHECK_DEADLOCK FALSE
