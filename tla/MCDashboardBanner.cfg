SPECIFICATION Spec
CONSTANTS
    InstrumentOrder <- MCInstruments
    MaxDecisions = 2
INVARIANTS
    LiveBannerIsLive
CHECK_DEADLOCK FALSE
