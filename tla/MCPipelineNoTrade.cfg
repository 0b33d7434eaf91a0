SPECIFICATION Spec
CONSTANTS
    Strengths <- MCStrengths
    Reaches <- MCReaches
    Markets <- MCMarkets
    FlagSettings <- MCFlags
INVARIANTS
    NoTradeIsRejected
CHECK_DEADLOCK FALSE
