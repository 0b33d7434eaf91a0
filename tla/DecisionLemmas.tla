---------------------------- MODULE DecisionLemmas ----------------------------
(***************************************************************************)
(* The decision rules for every market: what the arbiter lets through,     *)
(* which of the strategies' signals a scan keeps, and the reward/risk      *)
(* ratio of the plan it makes of it.                                       *)
(***************************************************************************)
EXTENDS DecisionRules, WellFoundedInduction, TLAPS

(* The reward/risk test of the risk engine.                                *)
EnoughReward(signal) ==
    ~(10 * (Sign(signal.direction) * (signal.levels.tp1 - signal.levels.entry))
        < 15 * StopDistance(signal))

-----------------------------------------------------------------------------
(* The data quality gate passes only complete data of usable feeds.        *)
LEMMA QualityMeansUsable ==
    ASSUME NEW m, DataQuality(m).passed
    PROVE  /\ m.candles /\ m.complete
           /\ m.candleStatus \notin BlockingDataStatuses
           /\ m.quoteStatus \notin BlockingDataStatuses
BY DEF DataQuality

(* A plan without a rejection reason has levels, a stop on the losing side *)
(* of the entry, enough reward, and was built with an acceptable spread    *)
(* and no blackout (RiskEngine.build_plan).                                *)
LEMMA UnrejectedPlan ==
    ASSUME NEW signal, NEW mid, NEW m, Plan(signal, mid, m).rejection = Clear
    PROVE  /\ signal.hasLevels
           /\ ~(StopDistance(signal) <= 0)
           /\ EnoughReward(signal)
           /\ ~m.spreadWide
           /\ ~Blackout(m)
BY DEF Plan, Clear, EnoughReward

(* A setup the ranking engine does not reject has an unrejected plan.      *)
LEMMA UnrejectedRanking ==
    ASSUME NEW signal, NEW m, NEW plan, NEW passed,
           Rank(signal, m, plan, passed).rejection = Clear
    PROVE  plan.rejection = Clear
BY DEF Rank, Clear

(* A passed risk review means the ranking did not reject.                  *)
LEMMA PassedReview ==
    ASSUME NEW ranking, NEW m, NEW plan, RiskReview(ranking, m, plan).passed
    PROVE  ranking.rejection = Clear
BY DEF RiskReview, Clear

(* The arbiter displays, or lets alert on, only what passed the quality    *)
(* gate and the review.                                                    *)
LEMMA DisplayedPassed ==
    ASSUME NEW quality, NEW m, NEW ranking, NEW plan, NEW review, NEW f \in FlagSet,
           LET v == Arbitrate(quality, m, ranking, plan, review, f)
           IN v.display # "no_trade" \/ v.alert
    PROVE  quality.passed /\ ~Blackout(m) /\ review.passed
BY DEF Arbitrate, Verdict, FlagSet

(* A trade recommendation is shown only with live recommendations on,      *)
(* paper validation off, and a recommending rank.                          *)
LEMMA RecommendedIsLive ==
    ASSUME NEW quality, NEW m, NEW ranking, NEW plan, NEW review, NEW f \in FlagSet,
           Arbitrate(quality, m, ranking, plan, review, f).display = "trade_recommendation"
    PROVE  f.live /\ ~f.paper /\ ranking.decision \in Recommending
BY DEF Arbitrate, Verdict, FlagSet, HeldBack, DisplayOf

(* The gates together: what is displayed, or may be alerted on, was        *)
(* decided on a market that clears them all and on a tradable plan.        *)
LEMMA DisplayedClears ==
    ASSUME NEW signal, NEW mid, NEW m, NEW f \in FlagSet,
           NEW plan, plan = Plan(signal, mid, m),
           NEW quality, quality = DataQuality(m),
           NEW ranking, ranking = Rank(signal, m, plan, quality.passed),
           NEW review, review = RiskReview(ranking, m, plan),
           LET v == Arbitrate(quality, m, ranking, plan, review, f)
           IN v.display # "no_trade" \/ v.alert
    PROVE  /\ MarketClears(m)
           /\ signal.hasLevels
           /\ ~(StopDistance(signal) <= 0)
           /\ EnoughReward(signal)
<1>1. quality.passed /\ ~Blackout(m) /\ review.passed
  BY DisplayedPassed
<1>2. ranking.rejection = Clear
  BY <1>1, PassedReview
<1>3. plan.rejection = Clear
  BY <1>2, UnrejectedRanking
<1>4. /\ signal.hasLevels /\ ~(StopDistance(signal) <= 0)
      /\ EnoughReward(signal) /\ ~m.spreadWide
  BY <1>3, UnrejectedPlan
<1>5. /\ m.candles /\ m.complete
      /\ m.candleStatus \notin BlockingDataStatuses
      /\ m.quoteStatus \notin BlockingDataStatuses
  BY <1>1, QualityMeansUsable
<1>. QED
  BY <1>1, <1>4, <1>5 DEF MarketClears, Blackout

(* The decision of a scan, as the journal records it: displayed or         *)
(* alertable only for a market that clears the hard gates.                 *)
THEOREM DecideClears ==
    ASSUME NEW m, NEW f \in FlagSet,
           Decide(m, f).display # "no_trade" \/ Decide(m, f).alert
    PROVE  MarketClears(m)
<1>. DEFINE signal == SelectSignal(m)
            plan == Plan(signal, 0, m)
            quality == DataQuality(m)
            ranking == Rank(signal, m, plan, quality.passed)
            review == RiskReview(ranking, m, plan)
            v == Arbitrate(quality, m, ranking, plan, review, f)
<1>1. Decide(m, f) = v
  BY DEF Decide
<1>2. v.display # "no_trade" \/ v.alert
  BY <1>1
<1>. HIDE DEF signal, v
<1>. QED
  BY <1>2, DisplayedClears DEF v

(* A verdict is of the codes, modes and reasons of its schema.             *)
LEMMA VerdictTyped ==
    ASSUME NEW q, NEW m, NEW r, NEW p, NEW rv, NEW f \in FlagSet,
           r.decision \in RankDecisions, r.rejection \in Reasons, p.rejection \in Reasons,
           rv.rejection \in Reasons
    PROVE  Arbitrate(q, m, r, p, rv, f) \in VerdictSet
<1>. DEFINE v == Arbitrate(q, m, r, p, rv, f)
            Shaped(d, e, w) == /\ d \in RankDecisions \cup ArbiterDecisions
                               /\ e \in DisplayModes /\ w \in Reasons
<1>1. \A d, e, w : Shaped(d, e, w) => Verdict(d, e, w, f) \in VerdictSet
  BY DEF Verdict, VerdictSet, FlagSet
<1>2. /\ "REJECTED_DATA_QUALITY" \in ArbiterDecisions /\ "REJECTED_STALE" \in ArbiterDecisions
      /\ "REJECTED_NEWS_BLACKOUT" \in ArbiterDecisions /\ "REJECTED_SPREAD" \in ArbiterDecisions
      /\ "REJECTED_RR" \in ArbiterDecisions /\ "REJECTED_MISSED_ENTRY" \in ArbiterDecisions
      /\ "REJECTED_AI_REVIEW" \in ArbiterDecisions /\ "WATCHLIST_ONLY" \in RankDecisions
  BY DEF ArbiterDecisions, RankDecisions
<1>3. /\ "no_trade" \in DisplayModes /\ "watchlist" \in DisplayModes
      /\ DisplayOf(r.decision) \in DisplayModes
  BY DEF DisplayModes, DisplayOf
<1>4. /\ "Data quality failed" \in Reasons /\ "Data status blocks recommendations" \in Reasons
      /\ "High-impact news blackout is active" \in Reasons
      /\ "Entry is already missed" \in Reasons
      /\ "Live recommendations are disabled" \in Reasons
  BY DEF Reasons
<1>5. \E d, e, w : Shaped(d, e, w) /\ v = Verdict(d, e, w, f)
  BY <1>2, <1>3, <1>4, Zenon DEF Arbitrate
<1>. QED
  BY <1>1, <1>5

(* Every reason and code of a scan is one of those declared.               *)
LEMMA ReasonsTyped ==
    ASSUME NEW s, NEW m, NEW passed,
           NEW p, p = Plan(s, 0, m),
           NEW r, r = Rank(s, m, p, passed),
           NEW rv, rv = RiskReview(r, m, p)
    PROVE  /\ p.rejection \in Reasons
           /\ r.decision \in RankDecisions /\ r.rejection \in Reasons
           /\ rv.rejection \in Reasons
<1>1. p.rejection \in Reasons
  <2>. DEFINE badStop == StopDistance(s) <= 0
              poor == 10 * (Sign(s.direction) * (s.levels.tp1 - s.levels.entry))
                        < 15 * StopDistance(s)
              missed == Sign(s.direction) * (0 - s.levels.entry) > 1500
  <2>1. p.rejection =
           IF ~s.hasLevels THEN "Missing stop loss"
           ELSE IF badStop THEN "Stop distance is invalid"
           ELSE IF poor THEN "Reward/risk is below 1.5"
           ELSE IF m.spreadWide THEN "Spread is too wide"
           ELSE IF missed THEN "Entry is already missed"
           ELSE IF Blackout(m) THEN "High-impact news blackout is active"
           ELSE Clear
    BY DEF Plan
  <2>. HIDE DEF badStop, poor, missed
  <2>. QED
    BY <2>1 DEF Reasons
<1>2. r.rejection \in Reasons
  BY <1>1 DEF Rank, Reasons
<1>3. r.decision \in RankDecisions
  <2>1. r.decision = "NO_TRADE" \/ \E n : r.decision = RankDecision(n)
    BY DEF Rank
  <2>2. \A n : RankDecision(n) \in RankDecisions
    BY DEF RankDecision, RankDecisions
  <2>3. "NO_TRADE" \in RankDecisions
    BY DEF RankDecisions
  <2>. QED
    BY <2>1, <2>2, <2>3
<1>4. rv.rejection \in Reasons
  BY <1>2 DEF RiskReview, Reasons
<1>. QED
  BY <1>1, <1>2, <1>3, <1>4
-----------------------------------------------------------------------------
(* The selection.                                                          *)

(* Every non-empty set of naturals has a least element.                    *)
LEMMA LeastNatural ==
    ASSUME NEW T \in SUBSET Nat, T # {}
    PROVE  \E x \in T : \A y \in T : x <= y
<1>1. \E x \in T : \A y \in T : ~(<<y, x>> \in OpToRel(<, Nat))
  <2>. HIDE DEF OpToRel, IsWellFoundedOn
  <2>. QED
    BY NatLessThanWellFounded, WFMin
<1>2. PICK x \in T : \A y \in T : ~(<<y, x>> \in OpToRel(<, Nat))
  BY <1>1
<1>3. \A y \in T : ~(y < x)
  BY <1>2 DEF OpToRel
<1>. QED
  BY <1>3

(* Of finitely many bounded numbers one is the first of the highest.       *)
LEMMA FirstHighest ==
    \A n \in Nat, u \in Int : \A f \in [1..n -> Int] :
        n > 0 /\ (\A i \in 1..n : f[i] <= u) =>
            \E i \in 1..n : \A j \in 1..n : f[j] <= f[i] /\ (j < i => f[j] < f[i])
<1>. SUFFICES ASSUME NEW n \in Nat, NEW u \in Int, NEW f \in [1..n -> Int],
                     n > 0, \A i \in 1..n : f[i] <= u
              PROVE  \E i \in 1..n : \A j \in 1..n : f[j] <= f[i] /\ (j < i => f[j] < f[i])
  OBVIOUS
<1>. DEFINE Gaps == {u - f[i] : i \in 1..n}
<1>1. Gaps \in SUBSET Nat /\ Gaps # {}
  <2>1. \A i \in 1..n : u - f[i] \in Nat
    OBVIOUS
  <2>2. 1 \in 1..n
    OBVIOUS
  <2>. QED
    BY <2>1, <2>2
<1>2. PICK x \in Gaps : \A y \in Gaps : x <= y
  <2>. HIDE DEF Gaps
  <2>. QED
    BY <1>1, LeastNatural
<1>3. PICK k \in 1..n : x = u - f[k]
  BY <1>2
<1>4. \A j \in 1..n : f[j] <= f[k]
  <2>. TAKE j \in 1..n
  <2>1. u - f[k] <= u - f[j]
    BY <1>2, <1>3
  <2>. QED
    BY <2>1
<1>. DEFINE Highest == {i \in 1..n : f[i] = f[k]}
<1>5. Highest \in SUBSET Nat /\ Highest # {}
  OBVIOUS
<1>6. PICK i \in Highest : \A j \in Highest : i <= j
  <2>. HIDE DEF Highest
  <2>. QED
    BY <1>5, LeastNatural
<1>. QED
  <2>1. i \in 1..n /\ f[i] = f[k]
    BY <1>6
  <2>2. \A j \in 1..n : j < i => f[j] # f[k]
    BY <1>6
  <2>3. ASSUME NEW j \in 1..n
        PROVE  f[j] <= f[i] /\ (j < i => f[j] < f[i])
    BY <1>4, <2>1, <2>2
  <2>. QED
    BY <2>1, <2>3

-----------------------------------------------------------------------------
(* Markets with trend strengths in percent, as the feature engine computes *)
(* them.                                                                   *)
ReadableMarkets == MarketSet(0..100, Int)

(* Hundredths of a percent of confidence.                                  *)
Confidences == 0..10000

(* A confidence stays within 0 and 100 percent (RuleStrategy.evaluate).    *)
LEMMA ConfidenceRange ==
    \A strategy, h1, h4 :
        h1.strength \in 0..100 => Confidence(strategy, h1, h4) \in Confidences
<1>. SUFFICES ASSUME NEW strategy, NEW h1, NEW h4, h1.strength \in 0..100
              PROVE  Confidence(strategy, h1, h4) \in Confidences
  OBVIOUS
<1>. DEFINE base == Least(10000, 4500 + 55 * h1.strength)
            reversion == IF /\ RangeStrength(h4) > 60
                            /\ strategy.family \in {"mean_reversion", "reversal", "structure"}
                         THEN 1000 ELSE 0
            preferred == IF strategy.id \in PreferredStrategies(h4) THEN 800 ELSE 0
<1>1. base \in Int
  BY DEF Least
<1>2. reversion \in Int /\ preferred \in Int
  OBVIOUS
<1>3. Confidence(strategy, h1, h4) = Clamp(base + reversion + preferred)
  BY DEF Confidence
<1>. HIDE DEF base, reversion, preferred
<1>. QED
  BY <1>1, <1>2, <1>3 DEF Clamp, Least, Greatest, Confidences

(* The setup features of a readable market have a strength in percent.     *)
LEMMA SetupStrength ==
    ASSUME NEW m \in ReadableMarkets
    PROVE  /\ SetupFeatures(m).strength \in 0..100
           /\ SetupFeatures(m).trend \in {"bullish", "bearish", "neutral"}
           /\ SetupFeatures(m).status \in DataStatuses
BY DEF SetupFeatures, ReadableMarkets, MarketSet, FeatureSet, DataStatuses

(* The selection score of every strategy's signal is a number below 110.   *)
LEMMA SeedRange ==
    ASSUME NEW m \in ReadableMarkets, NEW i \in 1..12
    PROVE  LET seed == ScoreSeed(Evaluate(Strategies[i], m), m.h4)
           IN seed \in Int /\ seed <= 10800
<1>. DEFINE e == Evaluate(Strategies[i], m)
            c == Confidence(Strategies[i], SetupFeatures(m), m.h4)
            penalty == IF e.status = "rejected" THEN 2500 ELSE 0
            bonus == IF e.strategy \in PreferredStrategies(m.h4) THEN 800 ELSE 0
<1>1. SetupFeatures(m).strength \in 0..100
  BY SetupStrength
<1>2. c \in Confidences
  BY <1>1, ConfidenceRange
<1>3. e.confidence = c
  BY DEF Evaluate
<1>4. ScoreSeed(e, m.h4) = c - penalty + bonus
  BY <1>3 DEF ScoreSeed
<1>5. penalty \in 0..2500 /\ bonus \in 0..800
  OBVIOUS
<1>. HIDE DEF penalty, bonus, c
<1>. QED
  BY <1>2, <1>4, <1>5 DEF Confidences

(* max(signals, key=score_seed) returns the first signal of the highest    *)
(* score.                                                                  *)
THEOREM SelectionIsFirstHighest ==
    ASSUME NEW m \in ReadableMarkets
    PROVE  \E i \in 1..12 :
              /\ SelectSignal(m) = Evaluate(Strategies[i], m)
              /\ \A j \in 1..12 :
                    LET seed(k) == ScoreSeed(Evaluate(Strategies[k], m), m.h4)
                    IN seed(j) <= seed(i) /\ (j < i => seed(j) < seed(i))
<1>. DEFINE seed(k) == ScoreSeed(Evaluate(Strategies[k], m), m.h4)
            f == [k \in 1..12 |-> seed(k)]
            First(i) == \A j \in 1..12 : seed(j) <= seed(i) /\ (j < i => seed(j) < seed(i))
            signals == [i \in DOMAIN Strategies |-> Evaluate(Strategies[i], m)]
<1>1. \A k \in 1..12 : seed(k) \in Int /\ seed(k) <= 10800
  BY SeedRange
<1>2. \E i \in 1..12 : First(i)
  <2>. HIDE DEF seed
  <2>1. f \in [1..12 -> Int]
    BY <1>1
  <2>2. \A k \in 1..12 : f[k] <= 10800
    BY <1>1
  <2>3. \E i \in 1..12 : \A j \in 1..12 : f[j] <= f[i] /\ (j < i => f[j] < f[i])
    <3>. HIDE DEF f
    <3>. DEFINE count == 12
                bound == 10800
    <3>1. count \in Nat /\ count > 0 /\ bound \in Int
      OBVIOUS
    <3>2. f \in [1..count -> Int] /\ \A k \in 1..count : f[k] <= bound
      BY <2>1, <2>2
    <3>. HIDE DEF count, bound
    <3>3. \E i \in 1..count : \A j \in 1..count : f[j] <= f[i] /\ (j < i => f[j] < f[i])
      BY <3>1, <3>2, FirstHighest
    <3>. QED
      BY <3>3 DEF count
  <2>. QED
    BY <2>3
<1>3. DOMAIN Strategies = 1..12
  BY DEF Strategies
<1>4. DOMAIN signals = 1..12 /\ \A k \in 1..12 : signals[k] = Evaluate(Strategies[k], m)
  BY <1>3
<1>5. SelectSignal(m) = signals[CHOOSE i \in 1..12 : First(i)]
  <2>1. SelectSignal(m) = Best(signals, m.h4)
    BY DEF SelectSignal
  <2>. DEFINE score(k) == ScoreSeed(signals[k], m.h4)
  <2>2. \A k \in 1..12 : score(k) = seed(k)
    BY <1>4
  <2>3. Best(signals, m.h4) =
          signals[CHOOSE i \in 1..12 :
                    \A j \in 1..12 : score(j) <= score(i) /\ (j < i => score(j) < score(i))]
    <3>. HIDE DEF signals
    <3>. QED
      BY <1>4 DEF Best
  <2>4. \A i \in 1..12 :
          (\A j \in 1..12 : score(j) <= score(i) /\ (j < i => score(j) < score(i))) <=> First(i)
    <3>. HIDE DEF score, seed
    <3>. QED
      BY <2>2
  <2>5. (CHOOSE i \in 1..12 : \A j \in 1..12 : score(j) <= score(i) /\ (j < i => score(j) < score(i)))
          = (CHOOSE i \in 1..12 : First(i))
    <3>. HIDE DEF score, First
    <3>. QED
      BY <2>4
  <2>. HIDE DEF signals, First, score
  <2>. QED
    BY <2>1, <2>3, <2>5
<1>6. PICK i \in 1..12 : i = (CHOOSE k \in 1..12 : First(k)) /\ First(i)
  <2>. HIDE DEF First
  <2>. QED
    BY <1>2
<1>. QED
  BY <1>4, <1>5, <1>6

(* A signal is rejected for the market's sake: all strategies' are, or     *)
(* none.                                                                   *)
LEMMA RejectionIsCommon ==
    ASSUME NEW m, NEW s1, NEW s2
    PROVE  (Evaluate(s1, m).status = "rejected") <=> (Evaluate(s2, m).status = "rejected")
BY DEF Evaluate, Status

(* The signal a scan journals is never of a strategy its regime blocks:    *)
(* the EMA pullback always scores at least as much as a blocked one, more  *)
(* than the mean reversion in a trend, and it is listed first.             *)
THEOREM BlockedNeverSelected ==
    ASSUME NEW m \in ReadableMarkets
    PROVE  SelectSignal(m).strategy \notin BlockedStrategies(m.h4)
<1>. DEFINE seed(k) == ScoreSeed(Evaluate(Strategies[k], m), m.h4)
            base == Least(10000, 4500 + 55 * SetupFeatures(m).strength)
            penalty == IF Evaluate(Strategies[1], m).status = "rejected" THEN 2500 ELSE 0
            reversion == IF RangeStrength(m.h4) > 60 THEN 1000 ELSE 0
            preferred == IF "ema_trend_pullback" \in PreferredStrategies(m.h4) THEN 800 ELSE 0
<1>1. base \in 0..10000 /\ penalty \in {0, 2500} /\ reversion \in {0, 1000} /\ preferred \in {0, 800}
  <2>1. base \in 0..10000
    <3>1. PICK strength \in 0..100 : SetupFeatures(m).strength = strength
      BY SetupStrength
    <3>2. Least(10000, 4500 + 55 * strength) \in 0..10000
      BY DEF Least
    <3>. QED
      BY <3>1, <3>2
  <2>2. penalty \in {0, 2500} /\ reversion \in {0, 1000} /\ preferred \in {0, 800}
    OBVIOUS
  <2>. HIDE DEF base, penalty, reversion, preferred
  <2>. QED
    BY <2>1, <2>2
<1>2. PICK i \in 1..12 :
         /\ SelectSignal(m) = Evaluate(Strategies[i], m)
         /\ \A j \in 1..12 : seed(j) <= seed(i) /\ (j < i => seed(j) < seed(i))
  BY SelectionIsFirstHighest
<1>3. SelectSignal(m).strategy = Strategies[i].id
  BY <1>2 DEF Evaluate
<1>4. seed(1) = Clamp(base + preferred) - penalty + preferred
  <2>1. Strategies[1] = [id |-> "ema_trend_pullback", family |-> "trend_following"]
    BY DEF Strategies
  <2>2. Confidence(Strategies[1], SetupFeatures(m), m.h4) = Clamp(base + 0 + preferred)
    BY <2>1 DEF Confidence
  <2>3. Evaluate(Strategies[1], m).confidence = Confidence(Strategies[1], SetupFeatures(m), m.h4)
        /\ Evaluate(Strategies[1], m).strategy = "ema_trend_pullback"
    BY <2>1 DEF Evaluate
  <2>4. seed(1) = Clamp(base + 0 + preferred) - penalty + preferred
    BY <2>2, <2>3 DEF ScoreSeed
  <2>5. base + 0 + preferred = base + preferred
    <3>. HIDE DEF base, preferred
    <3>. QED
      BY <1>1
  <2>. QED
    BY <2>4, <2>5
<1>5. ASSUME Strategies[i].id \in BlockedStrategies(m.h4)
      PROVE  FALSE
  <2>1. CASE i = 7
    <3>1. Strategies[7] = [id |-> "bollinger_mean_reversion", family |-> "mean_reversion"]
      BY DEF Strategies
    <3>2. TrendRegime(m.h4)
      BY <1>5, <2>1, <3>1 DEF BlockedStrategies
    <3>3. /\ "bollinger_mean_reversion" \notin PreferredStrategies(m.h4)
          /\ "ema_trend_pullback" \in PreferredStrategies(m.h4)
      BY <3>2 DEF PreferredStrategies, TrendFollowers
    <3>4. Evaluate(Strategies[7], m).confidence = Clamp(base + reversion + 0)
      BY <3>1, <3>3 DEF Evaluate, Confidence
    <3>5. Evaluate(Strategies[7], m).strategy = "bollinger_mean_reversion"
      BY <3>1 DEF Evaluate
    <3>6. seed(7) = Clamp(base + reversion + 0) - penalty + 0
      BY <3>3, <3>4, <3>5, RejectionIsCommon DEF ScoreSeed
    <3>7. preferred = 800
      BY <3>3
    <3>8. seed(1) <= seed(7)
      BY <1>2, <2>1
    <3>. HIDE DEF seed, base, penalty, reversion, preferred
    <3>. QED
      BY <1>1, <1>4, <3>6, <3>7, <3>8 DEF Clamp, Least, Greatest
  <2>2. CASE i \in {3, 4}
    <3>1. Strategies[i].id \in {"asian_range_breakout", "london_continuation"}
          /\ Strategies[i].family \in {"session_breakout", "trend_following"}
      BY <2>2 DEF Strategies
    <3>2. Strategies[i].id \notin PreferredStrategies(m.h4)
      BY <3>1 DEF PreferredStrategies, TrendFollowers, RangeTraders
    <3>3. Evaluate(Strategies[i], m).confidence = Clamp(base + 0 + 0)
      BY <3>1, <3>2 DEF Evaluate, Confidence
    <3>4. Evaluate(Strategies[i], m).strategy = Strategies[i].id
      BY DEF Evaluate
    <3>5. seed(i) = Clamp(base + 0 + 0) - penalty + 0
      BY <3>2, <3>3, <3>4, RejectionIsCommon DEF ScoreSeed
    <3>6. seed(1) < seed(i)
      BY <1>2, <2>2
    <3>. HIDE DEF seed, base, penalty, preferred
    <3>. QED
      BY <1>1, <1>4, <3>5, <3>6 DEF Clamp, Least, Greatest
  <2>3. i = 7 \/ i \in {3, 4}
    <3>1. BlockedStrategies(m.h4) \subseteq
             {"bollinger_mean_reversion", "asian_range_breakout", "london_continuation"}
      BY DEF BlockedStrategies
    <3>2. Strategies[i].id \in
             {"bollinger_mean_reversion", "asian_range_breakout", "london_continuation"}
      BY <1>5, <3>1
    <3>. QED
      BY <3>2 DEF Strategies
  <2>. QED
    BY <2>1, <2>2, <2>3
<1>. QED
  BY <1>3, <1>5
-----------------------------------------------------------------------------
(* The plan.                                                               *)

LevelSet == [entry : Int, stop : Int, tp1 : Int, tp2 : Int]

(* Rounding a quotient of naturals down gives a natural.                   *)
LEMMA QuotientNatural ==
    \A x \in Nat, y \in Nat : y > 0 => x \div y \in Nat
OBVIOUS

(* A quotient is at least k when its dividend is k divisors.               *)
LEMMA QuotientAtLeast ==
    \A x \in Int, y \in Nat : y > 0 /\ x >= 150 * y => x \div y >= 150
OBVIOUS

(* Levels on either side (s) of the quote: the stop 300 + reach away from  *)
(* the entry, both targets on the winning side, the first of them at least *)
(* 1.5 times as far.                                                       *)
SpacedLevels(lv, s, reach) ==
    /\ lv \in LevelSet
    /\ lv.entry = s * 100
    /\ s * (lv.entry - lv.stop) = 300 + reach
    /\ s * (lv.tp1 - lv.entry) \in Nat
    /\ s * (lv.tp2 - lv.entry) \in Nat
    /\ 10 * (s * (lv.tp1 - lv.entry)) >= 15 * (300 + reach)

(* RuleStrategy._levels spaces the levels of a direction so.               *)
LEMMA LevelsAreSpaced ==
    \A direction \in {"long", "short"}, reach \in Int :
        SpacedLevels(Levels(direction, reach), Sign(direction), reach)
<1>. SUFFICES ASSUME NEW direction \in {"long", "short"}, NEW reach \in Int
              PROVE  SpacedLevels(Levels(direction, reach), Sign(direction), reach)
  OBVIOUS
<1>. DEFINE risk == Greatest(300 + reach, 600)
            d1 == (16 * risk) \div 10
            d2 == (22 * risk) \div 10
            s == Sign(direction)
<1>1. risk \in Int /\ risk >= 600 /\ risk >= 300 + reach
  BY DEF Greatest
<1>2. d1 \in Nat /\ d2 \in Nat /\ 10 * d1 >= 15 * risk
  <2>. HIDE DEF risk
  <2>. QED
    BY <1>1
<1>3. s = 1 \/ s = -1
  BY DEF Sign
<1>4. Levels(direction, reach) =
        [entry |-> s * 100, stop |-> s * (-reach - 200),
         tp1 |-> s * (100 + d1), tp2 |-> s * (100 + d2)]
  BY DEF Levels, FirstTarget, SecondTarget
<1>. HIDE DEF risk, d1, d2, s
<1>5. /\ s * 100 \in Int /\ s * (-reach - 200) \in Int
      /\ s * (100 + d1) \in Int /\ s * (100 + d2) \in Int
      /\ s * (s * 100 - s * (-reach - 200)) = 300 + reach
      /\ s * (s * (100 + d1) - s * 100) = d1
      /\ s * (s * (100 + d2) - s * 100) = d2
  BY <1>2, <1>3
<1>6. 10 * d1 >= 15 * (300 + reach)
  BY <1>1, <1>2
<1>. QED
  BY <1>2, <1>4, <1>5, <1>6 DEF SpacedLevels, LevelSet, s

(* The journaled signal: of a known strategy, with a confidence in         *)
(* percent, and with levels exactly when it has a direction.               *)
JournaledSignal(signal, m) ==
    /\ signal.strategy \in StrategyIds
    /\ signal.direction \in Directions
    /\ signal.status \in {"active", "watchlist", "rejected"}
    /\ signal.hasLevels \in BOOLEAN
    /\ signal.hasLevels <=> signal.direction # "none"
    /\ signal.flagged \in BOOLEAN
    /\ signal.confidence \in Confidences
    /\ signal.dataStatus = SetupFeatures(m).status
    /\ signal.levels = IF signal.direction = "none" THEN NoLevels
                       ELSE Levels(signal.direction, m.reach)
    /\ signal = [strategy |-> signal.strategy, direction |-> signal.direction,
                 status |-> signal.status, levels |-> signal.levels,
                 hasLevels |-> signal.hasLevels, flagged |-> signal.flagged,
                 confidence |-> signal.confidence, dataStatus |-> signal.dataStatus]

(* Every scan's selection is such a signal.                                *)
LEMMA SelectedSignal ==
    \A m \in ReadableMarkets : JournaledSignal(SelectSignal(m), m)
<1>. SUFFICES ASSUME NEW m \in ReadableMarkets
              PROVE  JournaledSignal(SelectSignal(m), m)
  OBVIOUS
<1>1. PICK i \in 1..12 : SelectSignal(m) = Evaluate(Strategies[i], m)
  BY SelectionIsFirstHighest
<1>. DEFINE c == Confidence(Strategies[i], SetupFeatures(m), m.h4)
            d == Direction(SetupFeatures(m))
            status == Status(Strategies[i], d, m)
<1>2. Strategies[i].id \in StrategyIds
  BY DEF StrategyIds, Strategies
<1>3. d \in Directions
  BY DEF Direction, Directions
<1>4. status \in {"active", "watchlist", "rejected"}
  BY DEF Status
<1>5. c \in Confidences
  <2>1. SetupFeatures(m).strength \in 0..100
    BY SetupStrength
  <2>. QED
    BY <2>1, ConfidenceRange
<1>6. SelectSignal(m) =
        [strategy   |-> Strategies[i].id,
         direction  |-> d,
         status     |-> status,
         levels     |-> IF d = "none" THEN NoLevels ELSE Levels(d, m.reach),
         hasLevels  |-> d # "none",
         flagged    |-> m.news # "clear" \/ m.spreadWide,
         confidence |-> c,
         dataStatus |-> SetupFeatures(m).status]
  BY <1>1 DEF Evaluate
<1>. DEFINE signal == SelectSignal(m)
<1>. HIDE DEF c, d, status, signal
<1>7. /\ signal.strategy = Strategies[i].id /\ signal.direction = d
      /\ signal.status = status /\ signal.hasLevels = (d # "none")
      /\ signal.flagged = (m.news # "clear" \/ m.spreadWide)
      /\ signal.confidence = c /\ signal.dataStatus = SetupFeatures(m).status
      /\ signal.levels = IF d = "none" THEN NoLevels ELSE Levels(d, m.reach)
  BY <1>6 DEF signal
<1>8. signal = [strategy |-> signal.strategy, direction |-> signal.direction,
                status |-> signal.status, levels |-> signal.levels,
                hasLevels |-> signal.hasLevels, flagged |-> signal.flagged,
                confidence |-> signal.confidence, dataStatus |-> signal.dataStatus]
  BY <1>6, <1>7 DEF signal
<1>9. JournaledSignal(signal, m)
  BY <1>2, <1>3, <1>4, <1>5, <1>7, <1>8 DEF JournaledSignal
<1>. QED
  BY <1>9 DEF signal

(* The price has run away from the entry, by more than 1.5 ATR.            *)
Missed(signal, mid) == Sign(signal.direction) * (mid - signal.levels.entry) > 1500

(* The rejection of a plan with levels, enough reward, and an entry that is *)
(* not missed.                                                             *)
LEMMA RejectionOfMeasuredPlan ==
    \A signal, mid, m :
        signal.hasLevels /\ EnoughReward(signal) /\ ~Missed(signal, mid) =>
            Plan(signal, mid, m).rejection =
              IF StopDistance(signal) <= 0 THEN "Stop distance is invalid"
              ELSE IF m.spreadWide THEN "Spread is too wide"
              ELSE IF Blackout(m) THEN "High-impact news blackout is active"
              ELSE Clear
BY DEF Plan, EnoughReward, Missed

(* A plan carries the signal's own levels.                                 *)
LEMMA PlanKeepsLevels ==
    \A signal, mid, m : Plan(signal, mid, m).levels = signal.levels
BY DEF Plan

(* What the engine plans for the journaled signal: it is either without a  *)
(* direction, or has the distances of its levels; the ratios are naturals, *)
(* at least 1.5 when a stop can be measured.                               *)
LEMMA SelectedPlan ==
    ASSUME NEW m \in ReadableMarkets,
           NEW signal, signal = SelectSignal(m),
           NEW plan, plan = Plan(signal, 0, m)
    PROVE  /\ plan.rr1 \in Nat /\ plan.rr2 \in Nat
           /\ plan.hasLevels <=> signal.hasLevels
           /\ plan.levels = signal.levels
           /\ ~plan.missed
           /\ plan.rejection \in {"Missing stop loss", "Stop distance is invalid",
                                  "Spread is too wide", Clear,
                                  "High-impact news blackout is active"}
           /\ plan.rejection \notin {"Missing stop loss", "Stop distance is invalid"} =>
                 plan.rr1 >= 150 /\ StopDistance(signal) > 0
           /\ plan.rejection = "Spread is too wide" => m.spreadWide
<1>. DEFINE lv == signal.levels
            s == Sign(signal.direction)
            risk == StopDistance(signal)
            w1 == s * (lv.tp1 - lv.entry)
            w2 == s * (lv.tp2 - lv.entry)
<1>1. m.reach \in Int /\ JournaledSignal(signal, m)
  BY SelectedSignal DEF ReadableMarkets, MarketSet
<1>2. CASE signal.direction = "none"
  <2>1. ~signal.hasLevels
    BY <1>1, <1>2 DEF JournaledSignal
  <2>. QED
    BY <2>1 DEF Plan, Clear
<1>3. CASE signal.direction # "none"
  <2>1. signal.hasLevels /\ signal.direction \in {"long", "short"}
        /\ lv = Levels(signal.direction, m.reach)
    BY <1>1, <1>3 DEF JournaledSignal, Directions
  <2>2. /\ lv \in LevelSet /\ lv.entry = s * 100
        /\ risk = 300 + m.reach
        /\ w1 \in Nat /\ w2 \in Nat
        /\ 10 * w1 >= 15 * (300 + m.reach)
    <3>1. SpacedLevels(lv, s, m.reach)
      BY <1>1, <2>1, LevelsAreSpaced
    <3>. QED
      BY <3>1 DEF SpacedLevels, StopDistance
  <2>3. s = 1 \/ s = -1
    BY DEF Sign
  <2>4. risk \in Int /\ 10 * w1 >= 15 * risk
    BY <1>1, <2>2
  <2>5. ~Missed(signal, 0)
    BY <2>2, <2>3 DEF Missed
  <2>. DEFINE q1 == (100 * w1 + risk \div 2) \div risk
              q2 == (100 * w2 + risk \div 2) \div risk
  <2>6. risk > 0 => q1 \in Nat /\ q2 \in Nat /\ q1 >= 150
    <3>. SUFFICES ASSUME risk > 0 PROVE q1 \in Nat /\ q2 \in Nat /\ q1 >= 150
      OBVIOUS
    <3>. HIDE DEF risk, w1, w2
    <3>1. risk \in Nat /\ risk \div 2 \in Nat
      BY <2>4
    <3>2. 100 * w1 + risk \div 2 \in Nat /\ 100 * w2 + risk \div 2 \in Nat
      BY <3>1, <2>2
    <3>3. 100 * w1 + risk \div 2 >= 150 * risk
      BY <3>1, <2>2, <2>4
    <3>. QED
      BY <3>1, <3>2, <3>3, QuotientNatural, QuotientAtLeast
  <2>7. EnoughReward(signal)
    <3>. HIDE DEF w1, risk
    <3>1. ~(10 * w1 < 15 * risk)
      BY <2>2, <2>4
    <3>. QED
      BY <3>1 DEF EnoughReward, w1, risk
  <2>8. /\ plan.hasLevels /\ plan.levels = lv
        /\ plan.rr1 = (IF risk > 0 THEN q1 ELSE 0)
        /\ plan.rr2 = (IF risk > 0 THEN q2 ELSE 0)
        /\ plan.missed <=> (plan.rejection = "Entry is already missed")
        /\ plan.rejection = IF risk <= 0 THEN "Stop distance is invalid"
                            ELSE IF m.spreadWide THEN "Spread is too wide"
                            ELSE IF Blackout(m) THEN "High-impact news blackout is active"
                            ELSE Clear
    <3>1. plan.hasLevels /\ plan.levels = lv
      BY <2>1 DEF Plan
    <3>2. /\ plan.rr1 = (IF risk > 0 THEN q1 ELSE 0)
          /\ plan.rr2 = (IF risk > 0 THEN q2 ELSE 0)
      BY <2>1 DEF Plan
    <3>3. plan.missed <=> (plan.rejection = "Entry is already missed")
      BY DEF Plan
    <3>4. plan.rejection = IF risk <= 0 THEN "Stop distance is invalid"
                           ELSE IF m.spreadWide THEN "Spread is too wide"
                           ELSE IF Blackout(m) THEN "High-impact news blackout is active"
                           ELSE Clear
      BY <2>1, <2>5, <2>7, RejectionOfMeasuredPlan
    <3>. QED
      BY <3>1, <3>2, <3>3, <3>4
  <2>. HIDE DEF risk, q1, q2, lv, w1, w2
  <2>9. risk <= 0 \/ risk > 0
    BY <2>4
  <2>10. CASE risk <= 0
    <3>1. ~(risk > 0)
      BY <2>4, <2>10
    <3>2. plan.rejection = "Stop distance is invalid"
      BY <2>8, <2>10
    <3>3. plan.hasLevels /\ plan.levels = lv
      BY <2>8
    <3>4. ~plan.missed
      BY <2>8, <3>2
    <3>5. plan.levels = signal.levels /\ (plan.hasLevels <=> signal.hasLevels)
      BY <2>1, <3>3 DEF lv
    <3>6. plan.rr1 \in Nat /\ plan.rr2 \in Nat
      <4>1. plan.rr1 = 0 /\ plan.rr2 = 0
        BY <2>8, <3>1
      <4>2. 0 \in Nat
        OBVIOUS
      <4>. QED
        BY <4>1, <4>2, Zenon
    <3>7. plan.rejection \in {"Missing stop loss", "Stop distance is invalid"}
      BY <3>2
    <3>8. plan.rejection # "Spread is too wide"
      BY <3>2
    <3>. QED
      BY <3>4, <3>5, <3>6, <3>7, <3>8
  <2>11. CASE risk > 0
    <3>1. ~(risk <= 0)
      BY <2>4, <2>11
    <3>2. plan.rr1 \in Nat /\ plan.rr2 \in Nat /\ plan.rr1 >= 150
      BY <2>6, <2>8, <2>11
    <3>. QED
      BY <2>1, <2>8, <2>11, <3>1, <3>2 DEF lv, risk, Clear
  <2>. QED
    BY <2>9, <2>10, <2>11
<1>. QED
  BY <1>2, <1>3

Scores == 0..8425
AboveWeak(score) == score >= 5300
WorthScoring(signal, m, plan) ==
    signal.hasLevels /\ ~(plan.rr1 < 150) /\ m.news \in {"clear", "caution"}

(* The weights bound every score: below the strong band, and above the     *)
(* weak one when the plan has its reward and the news allow it.            *)
LEMMA ScoreRange ==
    \A m, signal, plan : plan.rr1 \in Nat =>
        /\ Score(signal, m, plan) \in Scores
        /\ WorthScoring(signal, m, plan) => AboveWeak(Score(signal, m, plan))
<1>. SUFFICES ASSUME NEW m, NEW signal, NEW plan, plan.rr1 \in Nat
              PROVE  /\ Score(signal, m, plan) \in Scores
                     /\ WorthScoring(signal, m, plan) => AboveWeak(Score(signal, m, plan))
  OBVIOUS
<1>. DEFINE strategy == 20 * (IF signal.strategy \in PreferredStrategies(m.h4) THEN 100
                              ELSE IF BlockedStrategies(m.h4) = {} THEN 65 ELSE 45)
            trend == 15 * (IF signal.direction # "none" /\ m.h4.trend # "neutral"
                           THEN 80 ELSE 50)
            edge == 15 * HistoricalEdge
            reward == Least(1500, 6 * plan.rr1)
            levels == 10 * (IF signal.hasLevels THEN 75 ELSE 0)
            volatility == 10 * (IF m.h4.volatility # "compressed" THEN 80 ELSE 60)
            news == 10 * (IF m.news = "clear" THEN 100 ELSE IF m.news = "caution" THEN 40 ELSE 0)
            flagged == 5 * (IF signal.flagged THEN 65 ELSE 100)
<1>1. Score(signal, m, plan) =
        strategy + trend + edge + reward + levels + volatility + news + flagged
  BY DEF Score
<1>2. /\ strategy \in 900..2000 /\ trend \in 750..1200 /\ edge = 675
      /\ levels \in 0..750 /\ volatility \in 600..800
      /\ news \in 0..1000 /\ flagged \in 325..500
  BY DEF HistoricalEdge
<1>3. reward \in 0..1500 /\ (~(plan.rr1 < 150) => reward >= 900)
  <2>1. PICK r \in Nat : plan.rr1 = r
    OBVIOUS
  <2>2. Least(1500, 6 * r) \in 0..1500 /\ (~(r < 150) => Least(1500, 6 * r) >= 900)
    BY DEF Least
  <2>. QED
    BY <2>1, <2>2
<1>4. signal.hasLevels => levels = 750
  OBVIOUS
<1>5. m.news \in {"clear", "caution"} => news >= 400
  OBVIOUS
<1>. HIDE DEF strategy, trend, edge, reward, levels, volatility, news, flagged
<1>6. Score(signal, m, plan) \in 0..8425
  BY <1>1, <1>2, <1>3
<1>7. ASSUME WorthScoring(signal, m, plan)
      PROVE  Score(signal, m, plan) >= 5300
  <2>1. reward >= 900 /\ levels = 750 /\ news >= 400
    BY <1>3, <1>4, <1>5, <1>7 DEF WorthScoring
  <2>. QED
    BY <1>1, <1>2, <1>3, <2>1
<1>. QED
  BY <1>6, <1>7 DEF Scores, AboveWeak

(* The two ways out of RankingEngine.rank.                                 *)
RankRejections(plan) ==
    {"Data quality failed", "Data status blocks", "High-impact news blackout is active",
     "Missing stop loss", "Reward/risk is below 1.5", "Entry is already missed",
     plan.rejection}

RankedRejected(r, signal, m, plan) ==
    /\ r.score = Least(Score(signal, m, plan), 4900)
    /\ r.decision = "NO_TRADE"
    /\ r.rejection # Clear
    /\ r.rejection \in RankRejections(plan)

RankedScored(r, signal, m, plan) ==
    /\ ~Blackout(m) /\ plan.hasLevels /\ ~(plan.rr1 < 150) /\ plan.rejection = Clear
    /\ r.score = Score(signal, m, plan)
    /\ r.decision = RankDecision(Score(signal, m, plan))
    /\ RankDecision(Score(signal, m, plan)) # "NO_TRADE" => r.rejection = Clear

LEMMA RankCases ==
    \A signal, m, plan, passed :
        \/ RankedRejected(Rank(signal, m, plan, passed), signal, m, plan)
        \/ RankedScored(Rank(signal, m, plan, passed), signal, m, plan)
<1>. SUFFICES ASSUME NEW signal, NEW m, NEW plan, NEW passed
              PROVE  \/ RankedRejected(Rank(signal, m, plan, passed), signal, m, plan)
                     \/ RankedScored(Rank(signal, m, plan, passed), signal, m, plan)
  OBVIOUS
<1>. DEFINE score == Score(signal, m, plan)
            rejection == IF ~passed THEN "Data quality failed"
                         ELSE IF signal.dataStatus \in BlockingDataStatuses THEN "Data status blocks"
                         ELSE IF Blackout(m) THEN "High-impact news blackout is active"
                         ELSE IF ~plan.hasLevels THEN "Missing stop loss"
                         ELSE IF plan.rr1 < 150 THEN "Reward/risk is below 1.5"
                         ELSE IF plan.missed THEN "Entry is already missed"
                         ELSE plan.rejection
            weak == IF RankDecision(score) = "NO_TRADE" THEN "Score below threshold" ELSE Clear
<1>1. Rank(signal, m, plan, passed) =
        IF rejection # Clear
        THEN [score |-> Least(score, 4900), decision |-> "NO_TRADE", rejection |-> rejection]
        ELSE [score |-> score, decision |-> RankDecision(score), rejection |-> weak]
  BY DEF Rank
<1>2. rejection \in RankRejections(plan)
  BY DEF RankRejections
<1>3. rejection = Clear =>
        ~Blackout(m) /\ plan.hasLevels /\ ~(plan.rr1 < 150) /\ plan.rejection = Clear
  BY DEF Clear
<1>4. RankDecision(score) # "NO_TRADE" => weak = Clear
  OBVIOUS
<1>. HIDE DEF score, rejection, weak
<1>5. CASE rejection # Clear
  <2>. DEFINE r == Rank(signal, m, plan, passed)
  <2>1. r = [score |-> Least(score, 4900), decision |-> "NO_TRADE", rejection |-> rejection]
    BY <1>1, <1>5
  <2>. HIDE DEF r
  <2>2. r.score = Least(score, 4900) /\ r.decision = "NO_TRADE" /\ r.rejection = rejection
    BY <2>1
  <2>3. r.score = Least(Score(signal, m, plan), 4900)
    BY <2>2 DEF score
  <2>4. r.rejection # Clear
    BY <2>2, <1>5
  <2>5. r.rejection \in RankRejections(plan)
    BY <2>2, <1>2
  <2>6. RankedRejected(r, signal, m, plan)
    BY <2>2, <2>3, <2>4, <2>5 DEF RankedRejected
  <2>. QED
    BY <2>6 DEF r
<1>6. CASE rejection = Clear
  BY <1>1, <1>3, <1>4, <1>6 DEF RankedScored, score
<1>. QED
  BY <1>5, <1>6

(* The ranking of the journaled signal: its score stays below the strong   *)
(* band, and NO_TRADE means a rejection, never a low score alone.          *)
RankedWithinBands(ranking) ==
    /\ ranking.score \in Scores
    /\ OnlyGatesReject(ranking)

LEMMA SelectedRanking ==
    ASSUME NEW m \in ReadableMarkets,
           NEW signal, signal = SelectSignal(m),
           NEW plan, plan = Plan(signal, 0, m),
           NEW passed
    PROVE  RankedWithinBands(Rank(signal, m, plan, passed))
<1>. DEFINE score == Score(signal, m, plan)
            ranking == Rank(signal, m, plan, passed)
<1>1. /\ plan.rr1 \in Nat
      /\ plan.hasLevels <=> signal.hasLevels
      /\ plan.rejection \in {"Missing stop loss", "Stop distance is invalid",
                             "Spread is too wide", Clear,
                             "High-impact news blackout is active"}
  BY SelectedPlan
<1>2. score \in Scores /\ (WorthScoring(signal, m, plan) => AboveWeak(score))
  BY <1>1, ScoreRange
<1>3. RankedRejected(ranking, signal, m, plan) \/ RankedScored(ranking, signal, m, plan)
  BY RankCases
<1>4. m.news \in {"clear", "caution", "blackout"}
  BY DEF ReadableMarkets, MarketSet, NewsStatuses
<1>. HIDE DEF score, ranking
<1>5. CASE RankedRejected(ranking, signal, m, plan)
  <2>1. ranking.score = Least(score, 4900)
    BY <1>5 DEF RankedRejected, score
  <2>2. Least(score, 4900) \in Scores
    BY <1>2 DEF Least, Scores
  <2>3. /\ ranking.decision = "NO_TRADE" /\ ranking.rejection # Clear
        /\ ranking.rejection # "Score below threshold"
    BY <1>1, <1>5 DEF RankedRejected, RankRejections, Clear
  <2>4. ranking.score \in Scores
    BY <2>1, <2>2
  <2>5. OnlyGatesReject(ranking)
    BY <2>3 DEF OnlyGatesReject
  <2>6. RankedWithinBands(ranking)
    BY <2>4, <2>5 DEF RankedWithinBands
  <2>. QED
    BY <2>6 DEF ranking
<1>6. CASE RankedScored(ranking, signal, m, plan)
  <2>1. /\ ~Blackout(m) /\ plan.hasLevels /\ ~(plan.rr1 < 150)
        /\ ranking.score = score /\ ranking.decision = RankDecision(score)
        /\ RankDecision(score) # "NO_TRADE" => ranking.rejection = Clear
    BY <1>6 DEF RankedScored, score
  <2>3. m.news \in {"clear", "caution"}
    BY <1>4, <2>1 DEF Blackout
  <2>4. WorthScoring(signal, m, plan)
    BY <1>1, <2>1, <2>3 DEF WorthScoring
  <2>5. score \in 0..8425 /\ score >= 5300
    BY <1>2, <2>4 DEF Scores, AboveWeak
  <2>6. RankDecision(score) # "NO_TRADE"
    BY <2>5 DEF RankDecision
  <2>7. Clear # "Score below threshold"
    BY DEF Clear
  <2>8. ranking.score \in Scores
    BY <1>2, <2>1
  <2>9. ranking.decision # "NO_TRADE" /\ ranking.rejection = Clear
    BY <2>1, <2>6
  <2>10. ranking.rejection # "Score below threshold"
    BY <2>7, <2>9
  <2>11. OnlyGatesReject(ranking)
    BY <2>9, <2>10 DEF OnlyGatesReject
  <2>12. RankedWithinBands(ranking)
    BY <2>8, <2>11 DEF RankedWithinBands
  <2>. QED
    BY <2>12 DEF ranking
<1>. QED
  BY <1>3, <1>5, <1>6

(* RankedWithinBands, part by part.                                        *)
LEMMA BandParts ==
    \A r : RankedWithinBands(r) => r.score <= 8425 /\ OnlyGatesReject(r)
<1>1. \A n \in Scores : n <= 8425
  BY DEF Scores
<1>. QED
  BY <1>1 DEF RankedWithinBands

(* A ranking never takes a decision code of the arbiter's own.             *)
LEMMA RankDecides ==
    \A signal, m, plan, passed :
        Rank(signal, m, plan, passed).decision \notin ArbiterDecisions
<1>. SUFFICES ASSUME NEW signal, NEW m, NEW plan, NEW passed
              PROVE  Rank(signal, m, plan, passed).decision \notin ArbiterDecisions
  OBVIOUS
<1>. DEFINE r == Rank(signal, m, plan, passed)
            score == Score(signal, m, plan)
<1>1. RankedRejected(r, signal, m, plan) \/ RankedScored(r, signal, m, plan)
  BY RankCases
<1>. HIDE DEF r, score
<1>2. r.decision = "NO_TRADE" \/ r.decision = RankDecision(score)
  BY <1>1 DEF RankedRejected, RankedScored, score
<1>3. \A n : RankDecision(n) \notin ArbiterDecisions
  BY DEF RankDecision, ArbiterDecisions
<1>4. r.decision \notin ArbiterDecisions
  BY <1>2, <1>3 DEF ArbiterDecisions
<1>. QED
  BY <1>4 DEF r

=============================================================================
