SPECIFICATION Spec
CONSTANTS
    Strengths <- MCStrengths
    Reaches <- MCReaches
    Markets <- MCMarkets
    FlagSettings <- MCFlags
INVARIANTS
    TypeOK
    DisplayedClearsHardGates
    DisplayFollowsGates
    DecisionNamesTheGate
    BlockedStrategyNotSelected
    ScoreBands
    QuoteGatesSilent
CHECK_DEADLOCK FALSE
