SPECIFICATION BrowserSpec
CONSTANTS
    Tickers <- MCTickers
    Listed <- MCListed
    Samples <- MCSamples
    Default = "AAPL"
    Typed <- MCMisread
    Calls = {c1, c2}
    MaxTimers = 0
    MaxReloads = 0
INVARIANTS
    PageNamesTicker
    GoKeepsTicker
CHECK_DEADLOCK FALSE
