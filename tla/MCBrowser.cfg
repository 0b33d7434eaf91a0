SPECIFICATION FairBrowserSpec
CONSTANTS
    Tickers <- MCTickers
    Listed <- MCListed
    Samples <- MCSamples
    Default = "AAPL"
    Typed <- MCTyped
    Calls = {c1, c2}
    MaxTimers = 1
    MaxReloads = 1
INVARIANTS
    BrowserTypeOK
    GoKeepsTicker
PROPERTIES
    LoadingEnds
CHECK_DEADLOCK FALSE
