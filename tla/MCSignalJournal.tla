--------------------------- MODULE MCSignalJournal ---------------------------
EXTENDS SignalJournal, TLC

CONSTANTS p1, p2, s1, s2, s3, a1

MCProcs == {p1, p2}
MCOne == {p1}
MCIds == {s1, s2, s3}
MCIds2 == {s1, s2}
MCPairs == <<"EUR_USD", "GBP_USD">>
MCPair == <<"EUR_USD">>
MCAlerts == {a1}
MCNone == {}

(* A setup that clears the gates in the recommending band, and the same    *)
(* with the data statuses of the mock provider.                            *)
Good ==
    [candles |-> TRUE, candleStatus |-> "LIVE", complete |-> TRUE, quoteStatus |-> "LIVE",
     h1 |-> [trend |-> "bullish", strength |-> 100],
     h4 |-> [trend |-> "bullish", strength |-> 100, volatility |-> "normal",
             lowLiq |-> FALSE, status |-> "LIVE"],
     reach |-> 0, spreadWide |-> FALSE, news |-> "clear"]
MCMarkets == {Good, [Good EXCEPT !.candleStatus = "MOCK", !.quoteStatus = "MOCK"]}

Live == EnvironmentFlags(TRUE, FALSE)
Paper == EnvironmentFlags(FALSE, TRUE)
MCFlags == {Live, Paper}
MCLive == {Live}
MCGood == {Good}

(* The rules' verdicts for these markets; JournalAssumption compares them  *)
(* with Decide.                                                            *)
MCVerdict(m, f) ==
    IF m # Good
    THEN [decision |-> "REJECTED_DATA_QUALITY", display |-> "no_trade",
          rejection |-> "Data quality failed", alert |-> FALSE]
    ELSE IF f = Live
    THEN [decision |-> "VALID_RECOMMENDATION", display |-> "trade_recommendation",
          rejection |-> Clear, alert |-> TRUE]
    ELSE [decision |-> "WATCHLIST_ONLY", display |-> "watchlist",
          rejection |-> "Live recommendations are disabled", alert |-> FALSE]

MCDecision == [m \in MCMarkets |-> [f \in MCFlags |-> MCVerdict(m, f)]]
MCGoodLive == [m \in MCGood |-> [f \in MCLive |-> MCVerdict(m, f)]]

Symmetric == Permutations(MCProcs) \cup Permutations(MCIds2)
Symmetric3 == Permutations(MCProcs) \cup Permutations(MCIds)
=============================================================================
