--------------------------- MODULE DecisionPipeline ---------------------------
(***************************************************************************)
(* One pass of SignalJournalService.scan_instrument through the engines,   *)
(* step by step: read the market, evaluate the strategies and keep one     *)
(* signal, build its risk plan, rank it, review it, arbitrate.  The        *)
(* journaling around these steps is SignalJournal's.                       *)
(***************************************************************************)
EXTENDS DecisionRules

CONSTANTS
    Strengths,     \* trend strengths the features may show, 0..100
    Reaches,       \* distances from the quote to the stop's structure
    Markets,       \* the markets a scan may read
    FlagSettings   \* the feature flags a deployment may run with

ASSUME PipelineAssumption ==
    /\ Strengths \subseteq 0..100
    /\ Reaches \subseteq Int
    /\ Markets \subseteq MarketSet(Strengths, Reaches)
    /\ FlagSettings \subseteq FlagSet

VARIABLES
    stage,     \* the step the scan has reached
    market,    \* what it read from the providers
    flags,     \* Settings.feature_flags of this process
    quality,   \* DataQualityStatus
    signal,    \* the selected StrategySignalOut
    plan,      \* RiskPlanOut
    ranking,   \* RankingResultOut
    review,    \* RiskReviewOut
    final      \* ArbiterDecisionOut

vars == <<stage, market, flags, quality, signal, plan, ranking, review, final>>

Stages == {"read", "evaluate", "plan", "rank", "review", "arbitrate", "done"}

NotYet == [none |-> TRUE]

Init ==
    /\ stage = "read"
    /\ market \in Markets
    /\ flags \in FlagSettings
    /\ quality = NotYet /\ signal = NotYet /\ plan = NotYet
    /\ ranking = NotYet /\ review = NotYet /\ final = NotYet

(* Providers have answered: assess the data. *)
AssessQuality ==
    /\ stage = "read"
    /\ quality' = DataQuality(market)
    /\ stage' = "evaluate"
    /\ UNCHANGED <<market, flags, signal, plan, ranking, review, final>>

EvaluateStrategies ==
    /\ stage = "evaluate"
    /\ signal' = SelectSignal(market)
    /\ stage' = "plan"
    /\ UNCHANGED <<market, flags, quality, plan, ranking, review, final>>

(* The plan is built against the quote the levels were computed from. *)
BuildPlan ==
    /\ stage = "plan"
    /\ plan' = Plan(signal, 0, market)
    /\ stage' = "rank"
    /\ UNCHANGED <<market, flags, quality, signal, ranking, review, final>>

RankSetup ==
    /\ stage = "rank"
    /\ ranking' = Rank(signal, market, plan, quality.passed)
    /\ stage' = "review"
    /\ UNCHANGED <<market, flags, quality, signal, plan, review, final>>

ReviewRisk ==
    /\ stage = "review"
    /\ review' = RiskReview(ranking, market, plan)
    /\ stage' = "arbitrate"
    /\ UNCHANGED <<market, flags, quality, signal, plan, ranking, final>>

DecideFinally ==
    /\ stage = "arbitrate"
    /\ final' = Arbitrate(quality, market, ranking, plan, review, flags)
    /\ stage' = "done"
    /\ UNCHANGED <<market, flags, quality, signal, plan, ranking, review>>

Next ==
    \/ AssessQuality
    \/ EvaluateStrategies
    \/ BuildPlan
    \/ RankSetup
    \/ ReviewRisk
    \/ DecideFinally

Spec == Init /\ [][Next]_vars

-----------------------------------------------------------------------------
SignalSet ==
    [strategy : StrategyIds, direction : Directions,
     status : {"active", "watchlist", "rejected"},
     levels : [entry : Int, stop : Int, tp1 : Int, tp2 : Int], hasLevels : BOOLEAN,
     flagged : BOOLEAN, confidence : 0..10000, dataStatus : DataStatuses]

(* Every value a scan journals is of the shape its schema declares: the     *)
(* confidence within 0..100, scores within 0..100, ratios not negative.    *)
TypeOK ==
    /\ stage \in Stages
    /\ market \in Markets
    /\ flags \in FlagSettings
    /\ signal \in SignalSet \cup {NotYet}
    /\ plan # NotYet => plan.rr1 >= 0 /\ plan.rr2 >= 0
    /\ ranking # NotYet => ranking.score \in 0..10000
    /\ final \in VerdictSet \cup {NotYet}

Done == stage = "done"

(* A plan that can be traded: directional, its stop on the losing side of  *)
(* the entry, and at least 1.5 times the risk to the first target.         *)
TradablePlan ==
    LET reward == Sign(signal.direction) * (plan.levels.tp1 - plan.levels.entry)
        risk == Sign(signal.direction) * (plan.levels.entry - plan.levels.stop)
    IN /\ signal.direction # "none"
       /\ risk > 0
       /\ 2 * reward >= 3 * risk

HardGatesPass == MarketClears(market) /\ TradablePlan

(* Whatever is displayed as a recommendation or a watchlist entry, and     *)
(* whatever may be alerted on, has passed every hard gate: usable data,    *)
(* no blackout, an acceptable spread, a stop on the right side and enough  *)
(* reward.  The gates are spread over the quality check, the risk engine,  *)
(* the ranking, the review and the arbiter's ladder.                       *)
DisplayedClearsHardGates ==
    Done /\ (final.display # "no_trade" \/ final.alert) => HardGatesPass

(* Nothing that passed every hard gate is lost either: what is displayed   *)
(* follows from the gates and the score in live mode, and from the gates   *)
(* alone while recommendations are held back, weak setups included.        *)
DisplayFollowsGates ==
    Done =>
        final.display =
            IF ~HardGatesPass THEN "no_trade"
            ELSE IF ~flags.live \/ flags.paper THEN "watchlist"
            ELSE IF ranking.score >= 7500 THEN "trade_recommendation"
            ELSE IF ranking.score >= 6500 THEN "watchlist" ELSE "no_trade"

(* The decision code of a refusal says which hard gate refused, the first  *)
(* of data, blackout, levels and spread that failed.  Missing and invalid  *)
(* levels, a hard gate to CONTRIBUTING.md, have no code of their own in    *)
(* the ladder: they, and nothing else, are recorded as REJECTED_AI_REVIEW, *)
(* so a wide spread on a plan without levels is too.                       *)
DecisionNamesTheGate ==
    Done =>
        LET usable == /\ market.candles /\ market.complete
                      /\ market.candleStatus \notin BlockingDataStatuses
                      /\ market.quoteStatus \notin BlockingDataStatuses
            quiet == usable /\ ~Blackout(market)
        IN /\ final.decision \in {"REJECTED_DATA_QUALITY", "REJECTED_STALE"} <=> ~usable
           /\ final.decision = "REJECTED_NEWS_BLACKOUT" <=> usable /\ Blackout(market)
           /\ final.decision = "REJECTED_AI_REVIEW" <=> quiet /\ ~TradablePlan
           /\ final.decision = "REJECTED_SPREAD" <=>
                  quiet /\ TradablePlan /\ market.spreadWide

(* The signal journaled for a market is never one whose strategy the       *)
(* regime engine blocks: the confidence bonuses, their clamp at 100 and    *)
(* the preference bonus of the selection always let another one win.       *)
BlockedStrategyNotSelected ==
    stage \notin {"read", "evaluate"} =>
        signal.strategy \notin BlockedStrategies(market.h4)

(* The weights and the constant historical edge bound the score: no setup  *)
(* reaches the strong band, and none that clears the gates falls below the *)
(* weak one.                                                               *)
ScoreBands ==
    stage \in {"review", "arbitrate", "done"} =>
        /\ ranking.score <= 8425
        /\ OnlyGatesReject(ranking)

(* The levels and the plan use one quote, so neither the missed entry gate *)
(* nor the reward/risk gate of the risk engine decides a scan.             *)
QuoteGatesSilent ==
    Done => final.decision \notin {"REJECTED_MISSED_ENTRY", "REJECTED_RR"}

-----------------------------------------------------------------------------
(* What comments, constants and endpoints of the repository say.           *)

(* "X data blocks live recommendations" for every X other than LIVE        *)
(* (data_status endpoint).                                                 *)
OnlyLiveDataRecommends ==
    Done /\ final.display = "trade_recommendation" =>
        market.candleStatus = "LIVE" /\ market.quoteStatus = "LIVE"

(* "Non-live or degraded data blocks user-facing live recommendations":    *)
(* the data the regime is classified from included.                        *)
RegimeDataUsable ==
    Done /\ final.display = "trade_recommendation" =>
        market.h4.status \notin BlockingDataStatuses

(* WATCHLIST_THRESHOLD = 65: a watchlist entry scores at least that.       *)
WatchlistMeetsThreshold ==
    Done /\ final.display = "watchlist" => ranking.score >= 6500

(* "rejected_or_no_trade" of the journal statistics counts the decisions   *)
(* that begin with REJECTED: every decision shown as no_trade is one.      *)
NoTradeIsRejected ==
    Done /\ final.display = "no_trade" =>
        final.decision \in ArbiterDecisions

=============================================================================
