SPECIFICATION Spec
CONSTANTS
    Calendars <- MCCalendars
    Step = 5
    MaxTime = 130
INVARIANTS
    FirstEventBlacksOut
PROPERTIES
    BlackoutLasts
CHECK_DEADLOCK FALSE
