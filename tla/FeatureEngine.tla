----------------------------- MODULE FeatureEngine -----------------------------
(***************************************************************************)
(* FeatureEngine.calculate as operators over a list of candles: what the   *)
(* decisions read of it, for the regime (H4) and the setup (H1).  The      *)
(* indicators nothing decides by (RSI, MACD, Bollinger, Donchian, the      *)
(* ranges of days and sessions) are left out.                              *)
(*                                                                         *)
(* Prices are integers.  An average is a fraction [num, den], a sum where  *)
(* only comparisons follow.  Strength is a whole percent, rounded away     *)
(* from 40: the regime's bounds, 35 and a range strength of 60, say of it  *)
(* what they say of the code's float.                                      *)
(***************************************************************************)
EXTENDS DecisionRules, SequencesExt

CONSTANTS
    Fast, Slow,   \* periods of the trend averages, 50 and 200 in the code
    Period,       \* period of ATR and ADX, 14
    RangePeriod,  \* bars of the average range, 20
    Kept          \* swings kept, 5

ASSUME FeatureAssumption ==
    /\ {Fast, Slow, Period, RangePeriod, Kept} \subseteq Nat \ {0}
    /\ Fast <= Slow

CandleSet(prices) == {c \in [low : prices, high : prices, close : prices] :
                          c.low <= c.close /\ c.close <= c.high}

-----------------------------------------------------------------------------
(* s[-n:] *)
LastOf(s, n) == SubSeq(s, Greatest(1, Len(s) - n + 1), Len(s))
Abs(x) == Greatest(x, -x)
Total(s) ==
    LET upto[i \in 0 .. Len(s)] == IF i = 0 THEN 0 ELSE upto[i - 1] + s[i] IN upto[Len(s)]

(* The positions of the last n bars. *)
Recent(bars, n) == LastOf([i \in DOMAIN bars |-> i], n)
Each(s, f(_)) == [i \in DOMAIN s |-> f(s[i])]

(* One step of an exponential average of period n: k = 2 / (n + 1).        *)
(* Fault: 2 / (n - 1).                                                     *)
FaultSmooth(n, e, v) == [num |-> 2 * v * e.den + (n - 3) * e.num, den |-> (n - 1) * e.den]
Smooth(n, e, v) == [num |-> 2 * v * e.den + (n - 1) * e.num, den |-> (n + 1) * e.den]

(* _ema, for at least n values: from the mean of the first n on. *)
Ema(values, n) ==
    LET ema[i \in n .. Len(values)] ==
            IF i = n THEN [num |-> Total(SubSeq(values, 1, n)), den |-> n]
            ELSE Smooth(n, ema[i - 1], values[i])
    IN ema[Len(values)]

Whole(v) == [num |-> v, den |-> 1]
Below(x, y) == x.num * y.den < y.num * x.den

Closes(bars) == [i \in DOMAIN bars |-> bars[i].close]

Trend(bars) ==
    IF Len(bars) < Slow THEN "neutral"
    ELSE LET close == Whole(Last(bars).close)
             fast == Ema(Closes(bars), Fast)
             slow == Ema(Closes(bars), Slow)
         IN IF Below(fast, close) /\ Below(slow, fast) THEN "bullish"
            ELSE IF Below(close, fast) /\ Below(fast, slow) THEN "bearish"
            ELSE "neutral"

-----------------------------------------------------------------------------
Height(bar) == bar.high - bar.low

TrueRange(bars, i) ==
    LET previous == bars[i - 1].close IN
    Greatest(Height(bars[i]),
             Greatest(Abs(bars[i].high - previous), Abs(bars[i].low - previous)))

(* _atr times Period, for more than Period bars. *)
TrueRanges(bars) == Total(Each(Recent(bars, Period), LAMBDA i : TrueRange(bars, i)))

DirectionalMoves(bars) ==
    Total(Each(Recent(bars, Period),
               LAMBDA i : Abs(bars[i].high - bars[i - 1].high) + Abs(bars[i].low - bars[i - 1].low)))

(* moves / ranges * 50.  At 40 percent a trendless market still is a range, *)
(* at 40.1 no longer: what lies above is rounded up.                       *)
Percent(moves, ranges) ==
    (50 * moves + (IF 50 * moves > 40 * ranges THEN ranges - 1 ELSE 0)) \div ranges

(* trend_strength of _adx.  Fault: not capped.                             *)
FaultStrength(bars) ==
    IF Len(bars) <= Period + 1 \/ TrueRanges(bars) = 0 THEN 0
    ELSE Percent(DirectionalMoves(bars), TrueRanges(bars))
Strength(bars) ==
    IF Len(bars) <= Period + 1 \/ TrueRanges(bars) = 0 THEN 0
    ELSE Least(100, Percent(DirectionalMoves(bars), TrueRanges(bars)))

(* ATR against three and five quarters of the average range.               *)
Volatility(bars) ==
    IF Len(bars) <= Period \/ Len(bars) < RangePeriod THEN "normal"
    ELSE LET atr == 4 * RangePeriod * TrueRanges(bars)
             range == Period * Total(Each(LastOf(bars, RangePeriod), Height))
         IN IF atr = 0 \/ range = 0 THEN "normal"
            ELSE IF atr < 3 * range THEN "compressed"
            ELSE IF atr > 5 * range THEN "expanding" ELSE "normal"

-----------------------------------------------------------------------------
(* The bars that may be a swing: two on either side.  Fault: the last ones  *)
(* too, against the neighbours they have.                                  *)
FaultCentres(bars) == 3 .. Len(bars)
Centres(bars) == 3 .. Len(bars) - 2

(* _swings for the highs: those no bar of the five around exceeds, ties     *)
(* included, of which the last are kept.                                   *)
IsPeak(highs, i) ==
    /\ i \in Centres(highs)
    /\ \A j \in i - 2 .. Least(i + 2, Len(highs)) : highs[j] <= highs[i]
AllPeaks(highs) ==
    LET upto[i \in 0 .. Len(highs)] ==
            IF i = 0 THEN <<>>
            ELSE IF IsPeak(highs, i) THEN Append(upto[i - 1], highs[i]) ELSE upto[i - 1]
    IN upto[Len(highs)]
Peaks(highs) == LastOf(AllPeaks(highs), Kept)

SwingHighs(bars) == Peaks(Each(bars, LAMBDA c : c.high))
SwingLows(bars) == Each(Peaks(Each(bars, LAMBDA c : -c.low)), LAMBDA x : -x)

-----------------------------------------------------------------------------
SessionState(hour) ==
    IF hour < 7 THEN "asia" ELSE IF hour < 12 THEN "london"
    ELSE IF hour < 16 THEN "overlap" ELSE IF hour < 21 THEN "new_york" ELSE "low_liquidity"

(* The regime's features of these bars, the last of which opened at hour.  *)
RegimeFeatures(bars, hour, status) ==
    [trend      |-> Trend(bars),
     strength   |-> Strength(bars),
     volatility |-> Volatility(bars),
     lowLiq     |-> SessionState(hour) = "low_liquidity",
     status     |-> status]

=============================================================================
