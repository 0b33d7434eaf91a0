SPECIFICATION Spec
CONSTANTS
    p1 = p1  p2 = p2  s1 = s1  s2 = s2  s3 = s3  a1 = a1
    Procs <- MCProcs
    InstrumentOrder <- MCPair
    Ids <- MCIds2
    AlertIds <- MCAlerts
    Markets <- MCMarkets
    FlagSettings <- MCFlags
    Decision <- MCDecision
    FreshTicks = 0
    Window = 2
    MaxTime = 1
    AwareTimestamps = TRUE
    MayFail = TRUE
SYMMETRY Symmetric
INVARIANTS
    TypeOK
    AuditRefersToCommitted
    OneAuditPerSignal
    AlertedSignalsCleared
PROPERTIES
    ImplementsLedger
    RecommendationsLapse
CHECK_DEADLOCK FALSE
