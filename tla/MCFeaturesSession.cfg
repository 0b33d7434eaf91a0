SPECIFICATION Spec
CONSTANTS
    Fast = 2
    Slow = 3
    Period = 2
    RangePeriod = 3
    Kept = 2
    Candles <- MCChoppy
    BarHours = 4
    Anchor = 0
    Limit = 5
    ClockStep = 2
INVARIANTS
    SessionBlocks
CHECK_DEADLOCK FALSE
