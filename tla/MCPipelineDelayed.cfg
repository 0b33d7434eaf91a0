SPECIFICATION Spec
CONSTANTS
    Strengths <- MCStrengths
    Reaches <- MCReaches
    Markets <- MCMarkets
    FlagSettings <- MCFlags
INVARIANTS
    OnlyLiveDataRecommends
CHECK_DEADLOCK FALSE
