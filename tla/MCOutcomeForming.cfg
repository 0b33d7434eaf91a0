SPECIFICATION Spec
CONSTANTS
    t1 = t1  t2 = t2  s1 = s1  s2 = s2
    Trackers <- MCTwo
    Ids <- MCId
    Plans <- MCPlans
    Ranges <- MCRanges
    ManualOutcomes <- MCNoManual
    OpenLimit = 2
    LastIssue = 0
    MaxTime = 4
    Forming = TRUE
    MayFail = FALSE
SYMMETRY Symmetric
INVARIANTS
    VerdictsStand
CHECK_DEADLOCK FALSE
