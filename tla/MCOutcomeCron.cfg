SPECIFICATION FairSpec
CONSTANTS
    t1 = t1  t2 = t2  s1 = s1  s2 = s2
    Trackers <- MCOne
    Ids <- MCIds
    Plans <- MCPlans
    Ranges <- MCPlain
    ManualOutcomes <- MCNoManual
    OpenLimit = 1
    LastIssue = 2
    MaxTime = 6
    Forming = FALSE
    MayFail = TRUE
PROPERTIES
    DirectionalSettled
CHECK_DEADLOCK FALSE
