SPECIFICATION Spec
CONSTANTS
    p1 = p1  p2 = p2  s1 = s1  s2 = s2  s3 = s3  a1 = a1
    Procs <- MCProcs
    InstrumentOrder <- MCPairs
    Ids <- MCIds
    AlertIds <- MCNone
    Markets <- MCGood
    FlagSettings <- MCLive
    Decision <- MCGoodLive
    FreshTicks = 1
    Window = 240
    MaxTime = 1
    AwareTimestamps = TRUE
    MayFail = FALSE
SYMMETRY Symmetric3
INVARIANTS
    EveryDecisionJournaled
PROPERTIES
    AnswersGoForward
CHECK_DEADLOCK FALSE
