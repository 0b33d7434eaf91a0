SPECIFICATION FairSpec
CONSTANTS
    InstrumentOrder <- MCInstruments
    MaxDecisions = 2
INVARIANTS
    TypeOK
    ErrorFreeIsCurrent
PROPERTIES
    ScanIsShown
CHECK_DEADLOCK FALSE
