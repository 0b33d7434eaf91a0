SPECIFICATION Spec
CONSTANTS
    Strengths <- MCStrengths
    Reaches <- MCReaches
    Markets <- MCMarkets
    FlagSettings <- MCFlags
INVARIANTS
    RegimeDataUsable
CHECK_DEADLOCK FALSE
