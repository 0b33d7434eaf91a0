SPECIFICATION Spec
CONSTANTS
    Calendars <- MCCalendars
    Step = 5
    MaxTime = 130
INVARIANTS
    HighImpactBlacksOut
CHECK_DEADLOCK FALSE
