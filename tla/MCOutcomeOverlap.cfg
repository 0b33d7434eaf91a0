SPECIFICATION Spec
CONSTANTS
    t1 = t1  t2 = t2  s1 = s1  s2 = s2
    Trackers <- MCTwo
    Ids <- MCId
    Plans <- MCPlans
    Ranges <- MCRanges
    ManualOutcomes <- MCManual
    OpenLimit = 2
    LastIssue = 1
    MaxTime = 6
    Forming = FALSE
    MayFail = TRUE
SYMMETRY Symmetric
INVARIANTS
    TypeOK
    VerdictsStand
    VerdictsAgree
CHECK_DEADLOCK FALSE
