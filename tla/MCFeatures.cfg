SPECIFICATION Spec
CONSTANTS
    Fast = 2
    Slow = 3
    Period = 2
    RangePeriod = 3
    Kept = 2
    Candles <- MCCandles
    BarHours = 4
    Anchor = 0
    Limit = 7
    ClockStep = 2
INVARIANTS
    TypeOK
    AveragesAmongCloses
PROPERTIES
    SwingsStand
CHECK_DEADLOCK FALSE
