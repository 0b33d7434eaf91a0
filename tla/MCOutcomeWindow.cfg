SPECIFICATION Spec
CONSTANTS
    t1 = t1  t2 = t2  s1 = s1  s2 = s2
    Trackers <- MCOne
    Ids <- MCId
    Plans <- MCFew
    Ranges <- MCPlain
    ManualOutcomes <- MCNoManual
    OpenLimit = 2
    LastIssue = 1
    MaxTime = 4
    Forming = FALSE
    MayFail = FALSE
INVARIANTS
    EntryWindowOpen
CHECK_DEADLOCK FALSE
