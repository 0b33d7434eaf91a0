---------------------------- MODULE DecisionRules ----------------------------
(***************************************************************************)
(* The decision rules of one scan, as operators: data quality, regime,     *)
(* strategy evaluation and selection, risk plan, ranking, risk review and  *)
(* the final arbiter.  They are the pure functions SignalJournalService    *)
(* .scan_instrument calls between reading the market and journaling.       *)
(*                                                                         *)
(* Prices are integers in thousandths of the setup ATR, relative to the    *)
(* quote's mid; percentages, scores and reward/risk ratios are hundredths. *)
(* A rejection reason of None is Clear.                                    *)
(***************************************************************************)
EXTENDS Integers, Sequences

DataStatuses == {"LIVE", "DELAYED", "MOCK", "STALE", "DEGRADED", "UNAVAILABLE"}
BlockingDataStatuses == {"MOCK", "STALE", "DEGRADED", "UNAVAILABLE"}

Directions == {"long", "short", "none"}
NewsStatuses == {"clear", "caution", "blackout"}
DisplayModes == {"trade_recommendation", "watchlist", "no_trade"}

Clear == "clear"

Least(a, b) == IF a <= b THEN a ELSE b
Greatest(a, b) == IF a >= b THEN a ELSE b

-----------------------------------------------------------------------------
(* What a scan reads.  "candles" is FALSE when the provider returns no H1  *)
(* candle; h1 and h4 are the features the engine computes from the setup   *)
(* and the regime timeframe; "reach" is the distance from the quote to the *)
(* swing structure the stop hides behind, negative when the quote is       *)
(* already beyond it.                                                      *)

FeatureSet(strengths) ==
    [trend : {"bullish", "bearish", "neutral"}, strength : strengths]

RegimeFeatureSet(strengths) ==
    [trend      : {"bullish", "bearish", "neutral"},
     strength   : strengths,
     volatility : {"compressed", "expanding", "normal"},
     lowLiq     : BOOLEAN,
     status     : DataStatuses]

MarketSet(strengths, reaches) ==
    [candles      : BOOLEAN,
     candleStatus : DataStatuses,
     complete     : BOOLEAN,
     quoteStatus  : DataStatuses,
     h1           : FeatureSet(strengths),
     h4           : RegimeFeatureSet(strengths),
     reach        : reaches,
     spreadWide   : BOOLEAN,
     news         : NewsStatuses]

FlagSet == [live : BOOLEAN, paper : BOOLEAN, alerts : BOOLEAN]

(* Settings.feature_flags as the arbiter sees it: the environment sets the *)
(* two modes, ALERTS_ENABLED is the constant of FEATURE_FLAGS.             *)
EnvironmentFlags(live, paper) == [live |-> live, paper |-> paper, alerts |-> TRUE]

Blackout(m) == m.news = "blackout"

-----------------------------------------------------------------------------
(* Feature engine: an empty candle list has neutral, strengthless features *)
(* and an UNAVAILABLE status.                                              *)
SetupFeatures(m) ==
    IF m.candles
    THEN [trend |-> m.h1.trend, strength |-> m.h1.strength, status |-> m.candleStatus]
    ELSE [trend |-> "neutral", strength |-> 0, status |-> "UNAVAILABLE"]

(* Data quality gate.                                                      *)
DataQuality(m) ==
    LET passed == /\ m.candles
                  /\ m.complete
                  /\ m.candleStatus \notin BlockingDataStatuses
                  /\ m.quoteStatus \notin BlockingDataStatuses
    IN [passed |-> passed,
        status |-> SetupFeatures(m).status,
        reason |-> IF ~m.candles THEN "Missing latest candle"
                   ELSE IF m.candleStatus \in BlockingDataStatuses THEN "Candle data status"
                   ELSE IF m.quoteStatus \in BlockingDataStatuses THEN "Quote data status"
                   ELSE Clear]

(* Regime engine, from the H4 features.                                    *)
TrendRegime(f) == f.strength >= 35 /\ f.trend # "neutral"
RangeStrength(f) == 100 - Least(100, f.strength)

TrendFollowers == {"ema_trend_pullback", "breakout_retest", "macd_momentum_continuation"}
RangeTraders == {"bollinger_mean_reversion", "engulfing_at_structure", "rsi_divergence_reversal"}

PreferredStrategies(f) ==
    (IF TrendRegime(f) THEN TrendFollowers
     ELSE IF RangeStrength(f) >= 60 THEN RangeTraders ELSE {})
    \cup (IF f.volatility = "compressed" THEN {"donchian_breakout"} ELSE {})

BlockedStrategies(f) ==
    (IF TrendRegime(f) THEN {"bollinger_mean_reversion"} ELSE {})
    \cup (IF f.lowLiq THEN {"asian_range_breakout", "london_continuation"} ELSE {})

-----------------------------------------------------------------------------
(* The strategy plugins, in the order the registry lists them.  Fault: a   *)
(* registry that opens with a session strategy, which wins every tie.      *)
FaultStrategies ==
    << [id |-> "london_continuation", family |-> "trend_following"],
       [id |-> "ema_trend_pullback",  family |-> "trend_following"] >>

Strategies ==
    << [id |-> "ema_trend_pullback",         family |-> "trend_following"],
       [id |-> "breakout_retest",            family |-> "breakout"],
       [id |-> "asian_range_breakout",       family |-> "session_breakout"],
       [id |-> "london_continuation",        family |-> "trend_following"],
       [id |-> "rsi_divergence_reversal",    family |-> "reversal"],
       [id |-> "macd_momentum_continuation", family |-> "momentum"],
       [id |-> "bollinger_mean_reversion",   family |-> "mean_reversion"],
       [id |-> "donchian_breakout",          family |-> "breakout"],
       [id |-> "adx_trend_strength_filter",  family |-> "filter"],
       [id |-> "engulfing_at_structure",     family |-> "structure"],
       [id |-> "liquidity_sweep_reversal",   family |-> "reversal"],
       [id |-> "multi_timeframe_alignment",  family |-> "filter"] >>

StrategyIds == {Strategies[i].id : i \in DOMAIN Strategies}

Direction(f) == IF f.trend = "bullish" THEN "long"
                ELSE IF f.trend = "bearish" THEN "short" ELSE "none"

Sign(direction) == IF direction = "short" THEN -1 ELSE 1

(* Tenths of the risk at which the first and the second target are placed. *)
FaultFirstTarget == 14
FirstTarget == 16
SecondTarget == 22

(* RuleStrategy._levels.  "entry" is the side of the zone the risk engine  *)
(* measures from: its high for a long, its low for a short.                *)
Levels(direction, reach) ==
    LET s == Sign(direction)
        risk == Greatest(300 + reach, 600)
    IN [entry |-> s * 100,
        stop  |-> s * (-reach - 200),
        tp1   |-> s * (100 + (FirstTarget * risk) \div 10),
        tp2   |-> s * (100 + (SecondTarget * risk) \div 10)]

NoLevels == [entry |-> 0, stop |-> 0, tp1 |-> 0, tp2 |-> 0]

(* Fault: the bonuses are added after the clamp.                           *)
FaultClamp(confidence) == confidence
Clamp(confidence) == Greatest(0, Least(10000, confidence))

Confidence(strategy, h1, h4) ==
    LET base == Least(10000, 4500 + 55 * h1.strength)
        reversion == IF /\ RangeStrength(h4) > 60
                        /\ strategy.family \in {"mean_reversion", "reversal", "structure"}
                     THEN 1000 ELSE 0
        preferred == IF strategy.id \in PreferredStrategies(h4) THEN 800 ELSE 0
    IN Clamp(base + reversion + preferred)

(* RuleStrategy._status.                                                   *)
Status(strategy, direction, m) ==
    IF direction = "none" \/ Blackout(m) THEN "rejected"
    ELSE IF strategy.id \in BlockedStrategies(m.h4) THEN "watchlist" ELSE "active"

(* RuleStrategy.evaluate.                                                  *)
Evaluate(strategy, m) ==
    LET h1 == SetupFeatures(m)
        direction == Direction(h1)
    IN [strategy   |-> strategy.id,
        direction  |-> direction,
        status     |-> Status(strategy, direction, m),
        levels     |-> IF direction = "none" THEN NoLevels ELSE Levels(direction, m.reach),
        hasLevels  |-> direction # "none",
        flagged    |-> m.news # "clear" \/ m.spreadWide,
        confidence |-> Confidence(strategy, h1, m.h4),
        dataStatus |-> h1.status]

ScoreSeed(signal, h4) ==
    signal.confidence - (IF signal.status = "rejected" THEN 2500 ELSE 0)
                      + (IF signal.strategy \in PreferredStrategies(h4) THEN 800 ELSE 0)

(* max(signals, key=score_seed): the first of the highest.                 *)
Best(signals, h4) ==
    LET seed(i) == ScoreSeed(signals[i], h4)
    IN signals[CHOOSE i \in DOMAIN signals :
                 \A j \in DOMAIN signals : /\ seed(j) <= seed(i)
                                           /\ j < i => seed(j) < seed(i)]

SelectSignal(m) ==
    Best([i \in DOMAIN Strategies |-> Evaluate(Strategies[i], m)], m.h4)

-----------------------------------------------------------------------------
(* Distance from the entry to the stop, negative when the stop is on the   *)
(* winning side.  Fault: its absolute value, as the outcome tracker takes. *)
FaultStopDistance(signal) ==
    Greatest(signal.levels.entry - signal.levels.stop, signal.levels.stop - signal.levels.entry)
StopDistance(signal) ==
    Sign(signal.direction) * (signal.levels.entry - signal.levels.stop)

(* RiskEngine.build_plan.  A ratio of None is 0, as every reader of it     *)
(* treats it.  "mid" is the quote the plan is checked against.             *)
Plan(signal, mid, m) ==
    LET lv == signal.levels
        s == Sign(signal.direction)
        risk == StopDistance(signal)
        reward(tp) == s * (tp - lv.entry)
        ratio(tp) == (100 * reward(tp) + risk \div 2) \div risk
        measured == signal.hasLevels /\ risk > 0
        rejection == IF ~signal.hasLevels THEN "Missing stop loss"
                     ELSE IF risk <= 0 THEN "Stop distance is invalid"
                     ELSE IF 10 * reward(lv.tp1) < 15 * risk THEN "Reward/risk is below 1.5"
                     ELSE IF m.spreadWide THEN "Spread is too wide"
                     ELSE IF s * (mid - lv.entry) > 1500 THEN "Entry is already missed"
                     ELSE IF Blackout(m) THEN "High-impact news blackout is active"
                     ELSE Clear
    IN [levels    |-> lv,
        hasLevels |-> signal.hasLevels,
        rr1       |-> IF measured THEN ratio(lv.tp1) ELSE 0,
        rr2       |-> IF measured THEN ratio(lv.tp2) ELSE 0,
        missed    |-> rejection = "Entry is already missed",
        rejection |-> rejection]

-----------------------------------------------------------------------------
(* The historical_strategy_edge part: the same for every strategy.  Fault:  *)
(* a better one.                                                           *)
FaultHistoricalEdge == 60
HistoricalEdge == 45

(* RankingEngine.rank: the eight weighted parts, in hundredths.            *)
Score(signal, m, plan) ==
      20 * (IF signal.strategy \in PreferredStrategies(m.h4) THEN 100
            ELSE IF BlockedStrategies(m.h4) = {} THEN 65 ELSE 45)
    + 15 * (IF signal.direction # "none" /\ m.h4.trend # "neutral" THEN 80 ELSE 50)
    + 15 * HistoricalEdge
    + Least(1500, 6 * plan.rr1)
    + 10 * (IF signal.hasLevels THEN 75 ELSE 0)
    + 10 * (IF m.h4.volatility # "compressed" THEN 80 ELSE 60)
    + 10 * (IF m.news = "clear" THEN 100 ELSE IF m.news = "caution" THEN 40 ELSE 0)
    + 5 * (IF signal.flagged THEN 65 ELSE 100)

(* Fault: a watchlist entry takes 70, the middle of its band.               *)
FaultRankDecision(score) ==
    IF score >= 8500 THEN "STRONG_RECOMMENDATION"
    ELSE IF score >= 7500 THEN "VALID_RECOMMENDATION"
    ELSE IF score >= 7000 THEN "WATCHLIST_ONLY"
    ELSE IF score >= 5000 THEN "WEAK_SETUP"
    ELSE "NO_TRADE"
RankDecision(score) ==
    IF score >= 8500 THEN "STRONG_RECOMMENDATION"
    ELSE IF score >= 7500 THEN "VALID_RECOMMENDATION"
    ELSE IF score >= 6500 THEN "WATCHLIST_ONLY"
    ELSE IF score >= 5000 THEN "WEAK_SETUP"
    ELSE "NO_TRADE"

Rank(signal, m, plan, qualityPassed) ==
    LET score == Score(signal, m, plan)
        rejection == IF ~qualityPassed THEN "Data quality failed"
                     ELSE IF signal.dataStatus \in BlockingDataStatuses THEN "Data status blocks"
                     ELSE IF Blackout(m) THEN "High-impact news blackout is active"
                     ELSE IF ~plan.hasLevels THEN "Missing stop loss"
                     ELSE IF plan.rr1 < 150 THEN "Reward/risk is below 1.5"
                     ELSE IF plan.missed THEN "Entry is already missed"
                     ELSE plan.rejection
    IN IF rejection # Clear
       THEN [score |-> Least(score, 4900), decision |-> "NO_TRADE", rejection |-> rejection]
       ELSE [score     |-> score,
             decision  |-> RankDecision(score),
             rejection |-> IF RankDecision(score) = "NO_TRADE"
                           THEN "Score below threshold" ELSE Clear]

(* NO_TRADE is what a gate makes of a ranking, never a low score alone.     *)
OnlyGatesReject(ranking) ==
    /\ ranking.decision = "NO_TRADE" <=> ranking.rejection # Clear
    /\ ranking.rejection # "Score below threshold"

Recommending == {"STRONG_RECOMMENDATION", "VALID_RECOMMENDATION"}

(* The display mode a ranking decision alone would give.                   *)
DisplayOf(decision) ==
    IF decision \in Recommending THEN "trade_recommendation"
    ELSE IF decision = "WATCHLIST_ONLY" THEN "watchlist" ELSE "no_trade"

-----------------------------------------------------------------------------
(* LLMProvider.run_risk_review.                                            *)
RiskReview(ranking, m, plan) ==
    LET rejection == IF plan.missed THEN "Entry is already missed"
                     ELSE IF ~plan.hasLevels THEN "Missing stop loss"
                     ELSE IF plan.rr1 < 150 THEN "Reward/risk is below 1.5"
                     ELSE IF Blackout(m) THEN "News blackout is active"
                     ELSE ranking.rejection
    IN [passed    |-> rejection = Clear,
        rejection |-> rejection,
        mode      |-> IF rejection # Clear /\ ranking.decision \in Recommending
                      THEN "no_trade" ELSE DisplayOf(ranking.decision)]

-----------------------------------------------------------------------------
(* FinalArbiter.decide.                                                    *)
Verdict(decision, display, reason, flags) ==
    [decision  |-> decision,
     display   |-> display,
     rejection |-> reason,
     alert     |-> display # "no_trade" /\ flags.alerts /\ ~flags.paper]

(* Live recommendations are off or paper validation is on. *)
HeldBack(flags) == ~flags.live \/ flags.paper

(* The plan's reason mentions the spread.  Fault: the match is case        *)
(* sensitive, and the reason is capitalised.                               *)
FaultNamesSpread(reason) == FALSE
NamesSpread(reason) == reason = "Spread is too wide"

Arbitrate(quality, m, ranking, plan, review, flags) ==
    LET reject(decision, reason) == Verdict(decision, "no_trade", reason, flags) IN
    IF ~quality.passed
    THEN reject("REJECTED_DATA_QUALITY",
                IF ranking.rejection # Clear THEN ranking.rejection ELSE "Data quality failed")
    ELSE IF quality.status \in BlockingDataStatuses
    THEN reject(IF quality.status = "STALE" THEN "REJECTED_STALE" ELSE "REJECTED_DATA_QUALITY",
                "Data status blocks recommendations")
    ELSE IF Blackout(m)
    THEN reject("REJECTED_NEWS_BLACKOUT", "High-impact news blackout is active")
    ELSE IF NamesSpread(plan.rejection)
    THEN reject("REJECTED_SPREAD", plan.rejection)
    ELSE IF plan.rejection = "Reward/risk is below 1.5"
    THEN reject("REJECTED_RR", plan.rejection)
    ELSE IF plan.missed
    THEN reject("REJECTED_MISSED_ENTRY", "Entry is already missed")
    ELSE IF ~review.passed
    THEN reject("REJECTED_AI_REVIEW", review.rejection)
    ELSE IF HeldBack(flags)
    THEN Verdict("WATCHLIST_ONLY", "watchlist", "Live recommendations are disabled", flags)
    ELSE Verdict(ranking.decision, DisplayOf(ranking.decision), ranking.rejection, flags)

RankDecisions ==
    {"STRONG_RECOMMENDATION", "VALID_RECOMMENDATION", "WATCHLIST_ONLY", "WEAK_SETUP", "NO_TRADE"}

ArbiterDecisions ==
    {"REJECTED_DATA_QUALITY", "REJECTED_STALE", "REJECTED_NEWS_BLACKOUT", "REJECTED_SPREAD",
     "REJECTED_RR", "REJECTED_MISSED_ENTRY", "REJECTED_AI_REVIEW"}

Reasons ==
    {Clear, "Missing stop loss", "Stop distance is invalid", "Reward/risk is below 1.5",
     "Spread is too wide", "Entry is already missed", "High-impact news blackout is active",
     "News blackout is active", "Data quality failed", "Data status blocks",
     "Data status blocks recommendations", "Score below threshold",
     "Live recommendations are disabled"}

VerdictSet ==
    [decision  : RankDecisions \cup ArbiterDecisions,
     display   : DisplayModes,
     rejection : Reasons,
     alert     : BOOLEAN]

-----------------------------------------------------------------------------
(* The whole decision of one scan.                                         *)
Decide(m, flags) ==
    LET signal == SelectSignal(m)
        plan == Plan(signal, 0, m)
        quality == DataQuality(m)
        ranking == Rank(signal, m, plan, quality.passed)
        review == RiskReview(ranking, m, plan)
    IN Arbitrate(quality, m, ranking, plan, review, flags)

(* A market the hard gates let through: usable, complete data on both      *)
(* feeds, no blackout, an acceptable spread.                               *)
MarketClears(m) ==
    /\ m.candles /\ m.complete
    /\ m.candleStatus \notin BlockingDataStatuses
    /\ m.quoteStatus \notin BlockingDataStatuses
    /\ m.news # "blackout"
    /\ ~m.spreadWide

=============================================================================
