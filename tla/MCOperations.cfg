SPECIFICATION FairSpec
CONSTANTS
    w1 = w1  w2 = w2  j1 = j1
    Web <- MCWeb
    Workers <- MCWorkers
    Releases <- MCReleases
    MaxRuns = 2
    MayRaise = TRUE
INVARIANTS
    TypeOK
    FirstDefinitionsUnique
    ReferenceDataComplete
PROPERTIES
    PatchesSurvive
    WebServes
CHECK_DEADLOCK FALSE
