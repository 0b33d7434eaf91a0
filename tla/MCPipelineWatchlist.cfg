SPECIFICATION Spec
CONSTANTS
    Strengths <- MCStrengths
    Reaches <- MCReaches
    Markets <- MCMarkets
    FlagSettings <- MCFlags
INVARIANTS
    WatchlistMeetsThreshold
CHECK_DEADLOCK FALSE
