------------------------------ MODULE MCPipeline ------------------------------
(* GateMarkets: every combination of data statuses, news and spread, with a  *)
(* few feature values: what the gates do.  RankedMarkets: usable live data   *)
(* with every trend, strength, volatility, session and stop distance the     *)
(* rules tell apart: what selection, plan and ranking do.  The strengths sit *)
(* on and around the thresholds 35 (trend), 40 (a range of 60) and 100 (the  *)
(* confidence clamp).                                                        *)
EXTENDS DecisionPipeline

MCStrengths == {0, 34, 35, 39, 40, 41, 90, 100}
MCReaches == {-1000, -400, -300, -295, 0, 300, 2000}

GateRegimes ==
    { [trend |-> "bullish", strength |-> 100, volatility |-> "normal",
       lowLiq |-> FALSE, status |-> "LIVE"],
      [trend |-> "bullish", strength |-> 100, volatility |-> "normal",
       lowLiq |-> FALSE, status |-> "STALE"],
      [trend |-> "neutral", strength |-> 0, volatility |-> "compressed",
       lowLiq |-> TRUE, status |-> "STALE"] }
GateMarkets ==
    [candles : {TRUE}, candleStatus : DataStatuses, complete : BOOLEAN,
     quoteStatus : DataStatuses, h1 : [trend : {"bullish", "neutral"}, strength : {0, 100}],
     h4 : GateRegimes, reach : {-400, 0, 2000}, spreadWide : BOOLEAN, news : NewsStatuses]
    \cup
    [candles : {FALSE}, candleStatus : {"UNAVAILABLE"}, complete : {FALSE},
     quoteStatus : DataStatuses, h1 : [trend : {"neutral"}, strength : {0}],
     h4 : GateRegimes, reach : {0}, spreadWide : BOOLEAN, news : NewsStatuses]
RankedMarkets ==
    [candles : {TRUE}, candleStatus : {"LIVE"}, complete : {TRUE}, quoteStatus : {"LIVE"},
     h1 : [trend : {"bullish", "bearish", "neutral"}, strength : {0, 90, 100}],
     h4 : [trend : {"bullish", "bearish", "neutral"}, strength : MCStrengths,
           volatility : {"compressed", "normal"}, lowLiq : BOOLEAN, status : {"LIVE"}],
     reach : {-1000, -300, -295, 0, 300, 2000}, spreadWide : {FALSE},
     news : {"clear", "caution"}]

MCMarkets == GateMarkets \cup RankedMarkets
MCFlags == {EnvironmentFlags(l, p) : l \in BOOLEAN, p \in BOOLEAN}
=============================================================================
