---------------------------- MODULE DecisionProofs ----------------------------
(***************************************************************************)
(* The properties of DecisionPipeline, for every set of readable markets   *)
(* and of flag settings.  The inductive invariant says what each engine    *)
(* has computed once its step is done; the properties follow from it by    *)
(* the lemmas about the decision rules.                                    *)
(***************************************************************************)
EXTENDS DecisionPipeline, DecisionLemmas

Before(stages) == stage \in stages

StageInv ==
    /\ stage \in Stages
    /\ market \in Markets
    /\ flags \in FlagSettings
    /\ quality = IF Before({"read"}) THEN NotYet ELSE DataQuality(market)
    /\ signal = IF Before({"read", "evaluate"}) THEN NotYet ELSE SelectSignal(market)
    /\ plan = IF Before({"read", "evaluate", "plan"}) THEN NotYet
              ELSE Plan(signal, 0, market)
    /\ ranking = IF Before({"read", "evaluate", "plan", "rank"}) THEN NotYet
                 ELSE Rank(signal, market, plan, quality.passed)
    /\ review = IF Before({"read", "evaluate", "plan", "rank", "review"}) THEN NotYet
                ELSE RiskReview(ranking, market, plan)
    /\ final = IF stage = "done"
               THEN Arbitrate(quality, market, ranking, plan, review, flags) ELSE NotYet

(* The scan starts with nothing computed.                                  *)
LEMMA StageInit == Init => StageInv
BY DEF Init, StageInv, Stages, Before

(* Every step computes what its engine computes from the results before.   *)
LEMMA StageNext == StageInv /\ [Next]_vars => StageInv'
<1>. SUFFICES ASSUME StageInv, [Next]_vars PROVE StageInv'
  OBVIOUS
<1>1. CASE AssessQuality
  BY <1>1 DEF StageInv, AssessQuality, Stages, Before
<1>2. CASE EvaluateStrategies
  BY <1>2 DEF StageInv, EvaluateStrategies, Stages, Before
<1>3. CASE BuildPlan
  BY <1>3 DEF StageInv, BuildPlan, Stages, Before
<1>4. CASE RankSetup
  BY <1>4 DEF StageInv, RankSetup, Stages, Before
<1>5. CASE ReviewRisk
  BY <1>5 DEF StageInv, ReviewRisk, Stages, Before
<1>6. CASE DecideFinally
  BY <1>6 DEF StageInv, DecideFinally, Stages, Before
<1>7. CASE UNCHANGED vars
  BY <1>7 DEF StageInv, vars, Stages, Before
<1>. QED
  BY <1>1, <1>2, <1>3, <1>4, <1>5, <1>6, <1>7 DEF Next

(* What each stage holds is what its engine computed.                      *)
THEOREM Computed == Spec => []StageInv
BY StageInit, StageNext, PTL DEF Spec

-----------------------------------------------------------------------------
(* The configured markets are readable, the configured flags are flags.    *)
LEMMA Configured ==
    /\ \A m \in Markets : m \in ReadableMarkets
    /\ \A f \in FlagSettings : f \in FlagSet
<1>1. MarketSet(Strengths, Reaches) \subseteq ReadableMarkets
  BY PipelineAssumption DEF MarketSet, ReadableMarkets, FeatureSet, RegimeFeatureSet
<1>. QED
  BY <1>1, PipelineAssumption

(* What a finished scan knows.                                             *)
LEMMA WhenDone ==
    ASSUME StageInv, stage = "done"
    PROVE  /\ market \in ReadableMarkets /\ flags \in FlagSet
           /\ signal = SelectSignal(market)
           /\ plan = Plan(signal, 0, market)
           /\ quality = DataQuality(market)
           /\ ranking = Rank(signal, market, plan, quality.passed)
           /\ review = RiskReview(ranking, market, plan)
           /\ final = Arbitrate(quality, market, ranking, plan, review, flags)
BY Configured DEF StageInv, Before

(* The plan of a finished scan is tradable exactly when it has levels with  *)
(* the stop on the losing side.                                            *)
LEMMA TradableWhenDone ==
    ASSUME StageInv, Done
    PROVE  TradablePlan <=> signal.hasLevels /\ ~(StopDistance(signal) <= 0)
<1>1. stage = "done" /\ JournaledSignal(signal, market) /\ market.reach \in Int
  BY WhenDone, SelectedSignal DEF Done, ReadableMarkets, MarketSet
<1>2. plan.levels = signal.levels
  BY <1>1, WhenDone, PlanKeepsLevels
<1>3. CASE signal.direction = "none"
  BY <1>1, <1>3 DEF JournaledSignal, TradablePlan
<1>4. CASE signal.direction # "none"
  <2>1. signal.hasLevels /\ signal.direction \in {"long", "short"}
        /\ signal.levels = Levels(signal.direction, market.reach)
    BY <1>1, <1>4 DEF JournaledSignal, Directions
  <2>2. SpacedLevels(signal.levels, Sign(signal.direction), market.reach)
    BY <1>1, <2>1, LevelsAreSpaced
  <2>. DEFINE risk == StopDistance(signal)
              reward == Sign(signal.direction) * (signal.levels.tp1 - signal.levels.entry)
  <2>3. risk \in Int /\ reward \in Int /\ 10 * reward >= 15 * risk
    BY <1>1, <2>2 DEF SpacedLevels, StopDistance
  <2>4. TradablePlan <=> risk > 0 /\ 2 * reward >= 3 * risk
    BY <1>2, <1>4 DEF TradablePlan, StopDistance
  <2>5. risk > 0 /\ 2 * reward >= 3 * risk <=> ~(risk <= 0)
    <3>. HIDE DEF risk, reward
    <3>. QED
      BY <2>3
  <2>. QED
    BY <2>1, <2>4, <2>5
<1>. QED
  BY <1>3, <1>4

(* What a scan in this state displays or allows an alert for has passed    *)
(* every hard gate.                                                        *)
LEMMA StageGates == StageInv => DisplayedClearsHardGates
<1>. SUFFICES ASSUME StageInv, Done, final.display # "no_trade" \/ final.alert
              PROVE  HardGatesPass
  BY DEF DisplayedClearsHardGates
<1>1. stage = "done"
  BY DEF Done
<1>2. /\ MarketClears(market)
      /\ signal.hasLevels
      /\ ~(StopDistance(signal) <= 0)
  BY <1>1, WhenDone, DisplayedClears
<1>. QED
  BY <1>2, TradableWhenDone DEF HardGatesPass

(* Whatever is displayed or may be alerted on has passed every hard gate.  *)
THEOREM HardGates == Spec => []DisplayedClearsHardGates
BY StageGates, Computed, PTL

(* The strategy of the journaled signal is never a blocked one.            *)
THEOREM NeverBlocked == Spec => []BlockedStrategyNotSelected
<1>1. StageInv => BlockedStrategyNotSelected
  <2>. SUFFICES ASSUME StageInv, stage \notin {"read", "evaluate"}
                PROVE  signal.strategy \notin BlockedStrategies(market.h4)
    BY DEF BlockedStrategyNotSelected
  <2>1. signal = SelectSignal(market) /\ market \in ReadableMarkets
    BY Configured DEF StageInv, Before
  <2>. QED
    BY <2>1, BlockedNeverSelected
<1>. QED
  BY <1>1, Computed, PTL

(* No setup reaches the strong band, and only a rejection is a NO_TRADE.   *)
THEOREM Bands == Spec => []ScoreBands
<1>1. StageInv => ScoreBands
  <2>. SUFFICES ASSUME StageInv, stage \in {"review", "arbitrate", "done"}
                PROVE  ranking.score <= 8425 /\ OnlyGatesReject(ranking)
    BY DEF ScoreBands
  <2>1. /\ signal = SelectSignal(market) /\ market \in ReadableMarkets
        /\ plan = Plan(signal, 0, market)
        /\ ranking = Rank(signal, market, plan, quality.passed)
    BY Configured DEF StageInv, Before
  <2>2. RankedWithinBands(ranking)
    BY <2>1, SelectedRanking
  <2>. QED
    BY <2>2, BandParts
<1>. QED
  BY <1>1, Computed, PTL

(* The plan of a finished scan: neither its entry missed nor its reward    *)
(* too small.                                                              *)
LEMMA PlanWhenDone ==
    ASSUME StageInv, stage = "done"
    PROVE  /\ ~plan.missed
           /\ plan.rejection \in {"Missing stop loss", "Stop distance is invalid",
                                  "Spread is too wide", Clear,
                                  "High-impact news blackout is active"}
BY WhenDone, SelectedPlan

(* Neither the missed entry gate nor the reward/risk gate decides a scan.  *)
THEOREM SilentGates == Spec => []QuoteGatesSilent
<1>1. StageInv => QuoteGatesSilent
  <2>. SUFFICES ASSUME StageInv, Done
                PROVE  final.decision \notin {"REJECTED_MISSED_ENTRY", "REJECTED_RR"}
    BY DEF QuoteGatesSilent
  <2>1. stage = "done"
    BY DEF Done
  <2>2. ~plan.missed /\ plan.rejection # "Reward/risk is below 1.5"
    BY <2>1, PlanWhenDone DEF Clear
  <2>3. final = Arbitrate(quality, market, ranking, plan, review, flags)
    BY <2>1, WhenDone
  <2>4. ranking.decision \notin {"REJECTED_MISSED_ENTRY", "REJECTED_RR"}
    BY <2>1, WhenDone, RankDecides DEF ArbiterDecisions
  <2>. QED
    BY <2>2, <2>3, <2>4 DEF Arbitrate, Verdict
<1>. QED
  BY <1>1, Computed, PTL

(* When each refusing code of the arbiter's ladder is given, where neither *)
(* the missed entry nor the reward/risk gate decides.                      *)
Named(d, q, m, p, rv) ==
    /\ d \in {"REJECTED_DATA_QUALITY", "REJECTED_STALE"} <=> ~q.passed
    /\ d = "REJECTED_NEWS_BLACKOUT" <=> q.passed /\ Blackout(m)
    /\ d = "REJECTED_SPREAD" <=> q.passed /\ ~Blackout(m) /\ NamesSpread(p.rejection)
    /\ d = "REJECTED_AI_REVIEW" <=>
          q.passed /\ ~Blackout(m) /\ ~NamesSpread(p.rejection) /\ ~rv.passed

SilentPlan(p) == ~p.missed /\ p.rejection # "Reward/risk is below 1.5"
Assessed(q) == q.passed \in BOOLEAN /\ (q.passed => q.status \notin BlockingDataStatuses)

LEMMA LadderCodes ==
    ASSUME NEW q, NEW m, NEW r, NEW p, NEW rv, NEW f,
           r.decision \in RankDecisions, SilentPlan(p), Assessed(q)
    PROVE  Named(Arbitrate(q, m, r, p, rv, f).decision, q, m, p, rv)
<1>. DEFINE v == Arbitrate(q, m, r, p, rv, f)
<1>. USE DEF Named, SilentPlan, Assessed
<1>1. CASE ~q.passed
  BY <1>1 DEF Arbitrate, Verdict
<1>2. CASE q.passed /\ Blackout(m)
  BY <1>2 DEF Arbitrate, Verdict
<1>3. CASE q.passed /\ ~Blackout(m) /\ NamesSpread(p.rejection)
  BY <1>3 DEF Arbitrate, Verdict
<1>4. CASE q.passed /\ ~Blackout(m) /\ ~NamesSpread(p.rejection) /\ ~rv.passed
  BY <1>4 DEF Arbitrate, Verdict
<1>5. CASE q.passed /\ ~Blackout(m) /\ ~NamesSpread(p.rejection) /\ rv.passed
  <2>1. v.decision \in {"WATCHLIST_ONLY", r.decision}
    BY <1>5 DEF Arbitrate, Verdict
  <2>. QED
    BY <1>5, <2>1 DEF RankDecisions
<1>. QED
  BY <1>1, <1>2, <1>3, <1>4, <1>5

(* A plan without objections passes the ranking and the review, given      *)
(* usable data and no blackout.                                            *)
LEMMA UnobjectedPasses ==
    ASSUME NEW sig, NEW m, NEW pl, pl.rejection = Clear, pl.hasLevels,
           ~(pl.rr1 < 150), ~pl.missed, ~Blackout(m),
           sig.dataStatus \notin BlockingDataStatuses
    PROVE  RiskReview(Rank(sig, m, pl, TRUE), m, pl).passed
           \/ Rank(sig, m, pl, TRUE).rejection = "Score below threshold"
BY DEF RiskReview, Rank, Clear

(* The plan of a scan without a rejection has its ratio, and its entry is   *)
(* not missed.                                                             *)
LEMMA PlanRatio ==
    \A m \in ReadableMarkets :
        LET pl == Plan(SelectSignal(m), 0, m)
        IN pl.rejection = Clear => pl.hasLevels /\ ~(pl.rr1 < 150) /\ ~pl.missed
<1>. SUFFICES ASSUME NEW m \in ReadableMarkets, NEW pl, pl = Plan(SelectSignal(m), 0, m),
                     pl.rejection = Clear
              PROVE  pl.hasLevels /\ ~(pl.rr1 < 150) /\ ~pl.missed
  OBVIOUS
<1>1. pl.rejection \notin {"Missing stop loss", "Stop distance is invalid"}
  BY DEF Clear
<1>2. pl.rr1 \in Nat /\ pl.rr1 >= 150 /\ ~pl.missed
  BY <1>1, SelectedPlan
<1>3. ~(pl.rr1 < 150)
  <2>1. \A n \in Nat : n >= 150 => ~(n < 150)
    OBVIOUS
  <2>. QED
    BY <1>2, <2>1
<1>4. pl.hasLevels
  BY UnrejectedPlan DEF Plan
<1>. QED
  BY <1>2, <1>3, <1>4

(* The plan mentions a blackout only in one.                               *)
LEMMA PlanSeesBlackout ==
    ASSUME NEW sig, NEW m,
           Plan(sig, 0, m).rejection = "High-impact news blackout is active"
    PROVE  Blackout(m)
BY DEF Plan, Clear

-----------------------------------------------------------------------------
(* The journaled signal has the shape of its schema.                       *)
LEMMA SignalTyped ==
    \A m \in ReadableMarkets : SelectSignal(m) \in SignalSet
<1>. SUFFICES ASSUME NEW m \in ReadableMarkets PROVE SelectSignal(m) \in SignalSet
  OBVIOUS
<1>. DEFINE chosen == SelectSignal(m)
<1>1. JournaledSignal(chosen, m) /\ m.reach \in Int
  BY SelectedSignal DEF ReadableMarkets, MarketSet
<1>2. chosen.levels \in LevelSet
  <2>1. CASE chosen.direction = "none"
    BY <1>1, <2>1 DEF JournaledSignal, NoLevels, LevelSet
  <2>2. CASE chosen.direction # "none"
    <3>1. chosen.direction \in {"long", "short"}
          /\ chosen.levels = Levels(chosen.direction, m.reach)
      BY <1>1, <2>2 DEF JournaledSignal, Directions
    <3>2. SpacedLevels(Levels(chosen.direction, m.reach), Sign(chosen.direction), m.reach)
      BY <1>1, <3>1, LevelsAreSpaced
    <3>3. Levels(chosen.direction, m.reach) \in LevelSet
      BY <3>2 DEF SpacedLevels
    <3>. QED
      BY <3>1, <3>3
  <2>. QED
    BY <2>1, <2>2
<1>3. chosen.dataStatus \in DataStatuses
  BY <1>1, SetupStrength DEF JournaledSignal
<1>4. chosen.confidence \in 0..10000
  BY <1>1 DEF JournaledSignal, Confidences
<1>. HIDE DEF chosen
<1>5. chosen \in SignalSet
  BY <1>1, <1>2, <1>3, <1>4 DEF JournaledSignal, SignalSet, LevelSet
<1>. QED
  BY <1>5 DEF chosen


(* Every value a scan computes has the shape of its schema.                *)
THEOREM PipelineTyped == Spec => []TypeOK
<1>1. StageInv => TypeOK
  <2>. SUFFICES ASSUME StageInv PROVE TypeOK
    OBVIOUS
  <2>1. market \in ReadableMarkets /\ flags \in FlagSet
    BY Configured DEF StageInv
  <2>2. signal \in SignalSet \cup {NotYet}
    BY <2>1, SignalTyped DEF StageInv, Before
  <2>3. plan # NotYet => plan.rr1 >= 0 /\ plan.rr2 >= 0
    <3>1. ASSUME plan # NotYet PROVE plan = Plan(SelectSignal(market), 0, market)
      BY <3>1 DEF StageInv, Before, Stages
    <3>2. plan # NotYet => plan.rr1 \in Nat /\ plan.rr2 \in Nat
      BY <2>1, <3>1, SelectedPlan
    <3>3. \A n \in Nat : n >= 0
      OBVIOUS
    <3>. QED
      BY <3>2, <3>3
  <2>4. ranking # NotYet => ranking.score \in 0..10000
    <3>1. ASSUME ranking # NotYet
          PROVE  ranking = Rank(SelectSignal(market), market,
                                Plan(SelectSignal(market), 0, market), quality.passed)
      BY <3>1 DEF StageInv, Before, Stages
    <3>2. ranking # NotYet => RankedWithinBands(ranking)
      BY <2>1, <3>1, SelectedRanking
    <3>3. \A r : RankedWithinBands(r) => r.score \in 0..10000
      <4>1. \A n \in Scores : n \in 0..10000
        BY DEF Scores
      <4>. QED
        BY <4>1 DEF RankedWithinBands
    <3>. QED
      BY <3>2, <3>3
  <2>5. final \in VerdictSet \cup {NotYet}
    <3>1. CASE stage = "done"
      <4>1. /\ plan = Plan(signal, 0, market)
            /\ ranking = Rank(signal, market, plan, quality.passed)
            /\ review = RiskReview(ranking, market, plan)
            /\ final = Arbitrate(quality, market, ranking, plan, review, flags)
        BY <3>1, WhenDone
      <4>2. /\ plan.rejection \in Reasons
            /\ ranking.decision \in RankDecisions /\ ranking.rejection \in Reasons
            /\ review.rejection \in Reasons
        BY <4>1, ReasonsTyped
      <4>. QED
        BY <2>1, <4>1, <4>2, VerdictTyped
    <3>2. CASE stage # "done"
      BY <3>2 DEF StageInv
    <3>. QED
      BY <3>1, <3>2
  <2>6. stage \in Stages /\ market \in Markets /\ flags \in FlagSettings
    BY DEF StageInv
  <2>. QED
    BY <2>2, <2>3, <2>4, <2>5, <2>6 DEF TypeOK
<1>. QED
  BY <1>1, Computed, PTL

-----------------------------------------------------------------------------
(* The risk engine has no objection to a stop on the losing side.          *)
LEMMA PlanWithStop ==
    \A sig, mid, m :
        sig.hasLevels /\ ~(StopDistance(sig) <= 0) =>
            Plan(sig, mid, m).rejection
                \notin {"Missing stop loss", "Stop distance is invalid"}
BY DEF Plan, Clear

(* The plan of a scan whose hard gates pass has no objection.              *)
LEMMA ClearPlan ==
    ASSUME StageInv, Done, HardGatesPass
    PROVE  plan.rejection = Clear
<1>1. /\ market \in ReadableMarkets
      /\ signal = SelectSignal(market)
      /\ plan = Plan(signal, 0, market)
  BY WhenDone DEF Done
<1>2. plan.rejection \in {"Missing stop loss", "Stop distance is invalid",
                          "Spread is too wide", Clear,
                          "High-impact news blackout is active"}
  BY <1>1, SelectedPlan
<1>3. plan.levels = signal.levels
  BY <1>1, PlanKeepsLevels
<1>4. plan.rejection # "Spread is too wide"
  <2>1. plan.rejection = "Spread is too wide" => market.spreadWide
    BY <1>1, SelectedPlan
  <2>. QED
    BY <2>1 DEF HardGatesPass, MarketClears
<1>5. plan.rejection # "High-impact news blackout is active"
  BY <1>1, PlanSeesBlackout DEF HardGatesPass, MarketClears, Blackout
<1>6. signal.hasLevels /\ ~(StopDistance(signal) <= 0)
  BY TradableWhenDone DEF HardGatesPass
<1>8. plan.rejection \notin {"Missing stop loss", "Stop distance is invalid"}
  BY <1>1, <1>6, PlanWithStop
<1>. QED
  BY <1>2, <1>4, <1>5, <1>8

(* A scan whose hard gates pass is shown as its flags and its rank say.    *)
LEMMA PassedScan ==
    ASSUME StageInv, Done, HardGatesPass
    PROVE  /\ final.display = IF HeldBack(flags) THEN "watchlist"
                              ELSE DisplayOf(ranking.decision)
           /\ ranking.score \in Int
           /\ ranking.decision = RankDecision(ranking.score)
           /\ review.passed
<1>1. /\ market \in ReadableMarkets
      /\ signal = SelectSignal(market)
      /\ plan = Plan(signal, 0, market)
      /\ quality = DataQuality(market)
      /\ ranking = Rank(signal, market, plan, quality.passed)
      /\ review = RiskReview(ranking, market, plan)
      /\ final = Arbitrate(quality, market, ranking, plan, review, flags)
  BY WhenDone DEF Done
<1>2. plan.rejection = Clear
  BY ClearPlan
<1>3. plan.hasLevels /\ ~(plan.rr1 < 150) /\ ~plan.missed
  BY <1>1, <1>2, PlanRatio
<1>4. /\ quality.passed = TRUE
      /\ quality.status \notin BlockingDataStatuses
      /\ ~Blackout(market)
  BY <1>1 DEF HardGatesPass, MarketClears, DataQuality, SetupFeatures, Blackout
<1>5. signal.dataStatus = quality.status
  BY <1>1, SelectedSignal DEF JournaledSignal, DataQuality
<1>6. ranking.rejection # "Score below threshold"
  <2>1. RankedWithinBands(ranking)
    BY <1>1, SelectedRanking
  <2>2. OnlyGatesReject(ranking)
    BY <2>1, BandParts
  <2>. QED
    BY <2>2 DEF OnlyGatesReject
<1>7. review.passed
  BY <1>1, <1>2, <1>3, <1>4, <1>5, <1>6, UnobjectedPasses
<1>8. final.display = IF HeldBack(flags) THEN "watchlist" ELSE DisplayOf(ranking.decision)
  BY <1>1, <1>2, <1>3, <1>4, <1>7 DEF Arbitrate, Verdict, NamesSpread, Clear
<1>9. RankedScored(ranking, signal, market, plan)
  <2>1. ranking.rejection = Clear
    BY <1>1, <1>7, PassedReview
  <2>. QED
    BY <1>1, <2>1, RankCases DEF RankedRejected
<1>10. ranking.score \in Int /\ ranking.decision = RankDecision(ranking.score)
  <2>1. \A n \in Scores : n \in Int
    BY DEF Scores
  <2>2. Score(signal, market, plan) \in Scores
    BY <1>1, SelectedPlan, ScoreRange
  <2>. QED
    BY <1>9, <2>1, <2>2 DEF RankedScored
<1>. QED
  BY <1>7, <1>8, <1>10

(* The risk engine objects to missing levels, and to a stop on the winning *)
(* side, before anything else.                                             *)
LEMMA PlanWithoutStop ==
    \A sig, mid, m :
        Plan(sig, mid, m).rejection \notin {"Missing stop loss", "Stop distance is invalid"} =>
            sig.hasLevels /\ ~(StopDistance(sig) <= 0)
BY DEF Plan, Clear

(* The code of a refusal says which hard gate refused; only a plan without *)
(* valid levels, which has no code of its own, is put down to the review.  *)
THEOREM GateNamed == Spec => []DecisionNamesTheGate
<1>1. StageInv => DecisionNamesTheGate
  <2>. DEFINE usable == /\ market.candles /\ market.complete
                        /\ market.candleStatus \notin BlockingDataStatuses
                        /\ market.quoteStatus \notin BlockingDataStatuses
              quiet == usable /\ ~Blackout(market)
  <2>. SUFFICES ASSUME StageInv, Done
                PROVE  /\ final.decision \in {"REJECTED_DATA_QUALITY", "REJECTED_STALE"}
                              <=> ~usable
                       /\ final.decision = "REJECTED_NEWS_BLACKOUT" <=>
                              usable /\ Blackout(market)
                       /\ final.decision = "REJECTED_AI_REVIEW" <=> quiet /\ ~TradablePlan
                       /\ final.decision = "REJECTED_SPREAD" <=>
                              quiet /\ TradablePlan /\ market.spreadWide
    BY DEF DecisionNamesTheGate
  <2>1. /\ market \in ReadableMarkets
        /\ signal = SelectSignal(market)
        /\ plan = Plan(signal, 0, market)
        /\ quality = DataQuality(market)
        /\ ranking = Rank(signal, market, plan, quality.passed)
        /\ review = RiskReview(ranking, market, plan)
        /\ final = Arbitrate(quality, market, ranking, plan, review, flags)
    BY WhenDone DEF Done
  <2>2. /\ quality.passed \in BOOLEAN /\ (quality.passed <=> usable)
        /\ quality.passed => quality.status \notin BlockingDataStatuses
    BY <2>1 DEF DataQuality, SetupFeatures
  <2>3. /\ ~plan.missed /\ plan.rejection # "Reward/risk is below 1.5"
        /\ plan.rejection \in {"Missing stop loss", "Stop distance is invalid",
                               "Spread is too wide", Clear,
                               "High-impact news blackout is active"}
        /\ plan.rejection = "Spread is too wide" => market.spreadWide
    BY <2>1, SelectedPlan DEF Clear
  <2>4. /\ ranking.decision \in RankDecisions
        /\ final = Arbitrate(quality, market, ranking, plan, review, flags)
    BY <2>1, ReasonsTyped
  <2>5. /\ final.decision \in {"REJECTED_DATA_QUALITY", "REJECTED_STALE"} <=> ~quality.passed
        /\ final.decision = "REJECTED_NEWS_BLACKOUT" <=> quality.passed /\ Blackout(market)
        /\ final.decision = "REJECTED_SPREAD" <=>
              quality.passed /\ ~Blackout(market) /\ NamesSpread(plan.rejection)
        /\ final.decision = "REJECTED_AI_REVIEW" <=>
              /\ quality.passed /\ ~Blackout(market)
              /\ ~NamesSpread(plan.rejection) /\ ~review.passed
    <3>1. SilentPlan(plan) /\ Assessed(quality)
      BY <2>2, <2>3 DEF SilentPlan, Assessed
    <3>2. Named(final.decision, quality, market, plan, review)
      BY <2>4, <3>1, LadderCodes
    <3>. QED
      BY <3>2 DEF Named
  <2>6. CASE quiet /\ ~TradablePlan
    <3>1. plan.rejection \in {"Missing stop loss", "Stop distance is invalid"}
      BY <2>1, <2>6, TradableWhenDone, PlanWithoutStop
    <3>2. ~NamesSpread(plan.rejection) /\ plan.rejection # Clear
      BY <3>1 DEF NamesSpread, Clear
    <3>3. ~review.passed
      BY <2>1, <3>2, PassedReview, UnrejectedRanking
    <3>. QED
      BY <2>2, <2>5, <2>6, <3>2, <3>3
  <2>7. CASE quiet /\ TradablePlan /\ market.spreadWide
    <3>1. plan.rejection \notin {"Missing stop loss", "Stop distance is invalid"}
      BY <2>1, <2>7, TradableWhenDone, PlanWithStop
    <3>2. plan.rejection # Clear
      BY <2>1, <2>7, UnrejectedPlan
    <3>3. plan.rejection # "High-impact news blackout is active"
      BY <2>1, <2>7, PlanSeesBlackout
    <3>4. NamesSpread(plan.rejection)
      BY <2>3, <3>1, <3>2, <3>3 DEF NamesSpread
    <3>. QED
      BY <2>2, <2>5, <2>7, <3>4
  <2>8. CASE quiet /\ TradablePlan /\ ~market.spreadWide
    <3>1. HardGatesPass
      BY <2>8 DEF HardGatesPass, MarketClears, Blackout
    <3>2. review.passed
      BY <3>1, PassedScan
    <3>3. ~NamesSpread(plan.rejection)
      BY <2>3, <2>8 DEF NamesSpread
    <3>. QED
      BY <2>2, <2>5, <2>8, <3>2, <3>3
  <2>9. CASE ~quiet
    BY <2>2, <2>5, <2>9
  <2>. QED
    BY <2>6, <2>7, <2>8, <2>9
<1>. QED
  BY <1>1, Computed, PTL

(* The display of a rank, by its score.                                    *)
LEMMA DisplayBands ==
    ASSUME NEW score \in Int
    PROVE  DisplayOf(RankDecision(score)) =
             IF score >= 7500 THEN "trade_recommendation"
             ELSE IF score >= 6500 THEN "watchlist" ELSE "no_trade"
BY DEF DisplayOf, RankDecision, Recommending

(* What is displayed follows from the hard gates, the score and the flags. *)
THEOREM DisplayFollows == Spec => []DisplayFollowsGates
<1>1. StageInv => DisplayFollowsGates
  <2>. SUFFICES ASSUME StageInv, Done
                PROVE  final.display =
                         IF ~HardGatesPass THEN "no_trade"
                         ELSE IF ~flags.live \/ flags.paper THEN "watchlist"
                         ELSE IF ranking.score >= 7500 THEN "trade_recommendation"
                         ELSE IF ranking.score >= 6500 THEN "watchlist" ELSE "no_trade"
    BY DEF DisplayFollowsGates
  <2>1. CASE ~HardGatesPass
    BY <2>1, StageGates DEF DisplayedClearsHardGates
  <2>2. CASE HardGatesPass
    <3>1. HeldBack(flags) <=> ~flags.live \/ flags.paper
      BY DEF HeldBack
    <3>2. /\ final.display = IF HeldBack(flags) THEN "watchlist"
                             ELSE DisplayOf(ranking.decision)
          /\ ranking.score \in Int
          /\ ranking.decision = RankDecision(ranking.score)
      BY <2>2, PassedScan
    <3>3. DisplayOf(ranking.decision) =
             IF ranking.score >= 7500 THEN "trade_recommendation"
             ELSE IF ranking.score >= 6500 THEN "watchlist" ELSE "no_trade"
      BY <3>2, DisplayBands
    <3>. QED
      BY <2>2, <3>1, <3>2, <3>3
  <2>. QED
    BY <2>1, <2>2
<1>. QED
  BY <1>1, Computed, PTL
=============================================================================
