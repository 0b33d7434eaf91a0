------------------------------ MODULE FeatureFeed ------------------------------
(***************************************************************************)
(* The features over time: a provider returns the last Limit complete bars *)
(* of a timeframe, a new one completes every BarHours hours, and a scan at *)
(* any hour computes features and regime from what it is given.            *)
(*                                                                         *)
(* What ForexCandleProvider is taken to promise: a bar that is complete    *)
(* keeps its prices from one answer to the next, as a market's bars do.    *)
(* (The deterministic mock computes prices from a bar's place in the       *)
(* answer, so its bars change under their timestamps.)                     *)
(***************************************************************************)
EXTENDS FeatureEngine

CONSTANTS
    Candles,   \* shapes a bar may have
    BarHours,  \* hours a bar covers, 4 for the regime
    Anchor,    \* the hour (UTC) bars are counted from, 0 in the mock
    Limit,     \* bars a scan asks for, 240 in the code
    ClockStep  \* hours the clock goes on at a time

ASSUME FeedAssumption ==
    /\ Candles \subseteq CandleSet(Int)
    /\ Limit \in Nat \ {0}
    /\ BarHours \in 1 .. 24 /\ 24 % BarHours = 0
    /\ Anchor \in 0 .. BarHours - 1
    /\ ClockStep \in 1 .. BarHours /\ BarHours % ClockStep = 0 /\ Anchor % ClockStep = 0

VARIABLES
    hour,  \* the hour of the day
    bars   \* the bars the provider returns

vars == <<hour, bars>>

Init == hour = 0 /\ bars = <<>>

(* The hour ClockStep hours on, and whether a bar completes then.           *)
NextHour == (hour + ClockStep) % 24
BarEnds == (24 + NextHour - Anchor) % BarHours = 0

(* The clock goes on within a bar. *)
Hours ==
    /\ ~BarEnds
    /\ hour' = NextHour
    /\ UNCHANGED bars

(* A bar completes and joins the window. *)
BarCompletes ==
    /\ BarEnds
    /\ hour' = NextHour
    /\ \E c \in Candles : bars' = LastOf(Append(bars, c), Limit)

Next == Hours \/ BarCompletes
Spec == Init /\ [][Next]_vars

(* The timestamp of the newest bar: the opening of the last complete one.   *)
OpenedAt == (24 + Anchor + ((24 + hour - Anchor) \div BarHours) * BarHours - BarHours) % 24

Regime == RegimeFeatures(bars, OpenedAt, "LIVE")

-----------------------------------------------------------------------------
(* The features are what the decision rules take for granted, however      *)
(* little history there is and however prices jump.                        *)
TypeOK ==
    /\ hour \in 0 .. 23
    /\ bars \in Seq(Candles) /\ Len(bars) <= Limit
    /\ Regime \in RegimeFeatureSet(0 .. 100)

(* Swing structure, which stops hide behind, never repaints: a new bar     *)
(* confirms at most one swing and the window lets go of at most the oldest, *)
(* the others stay as they are.                                            *)
Extends(old, new) ==
    \E k \in 0 .. Least(1, Len(old)) :
        LET rest == SubSeq(old, k + 1, Len(old)) IN
        IsPrefix(rest, new) /\ Len(new) <= Len(rest) + 1
SwingsStand ==
    [][Extends(SwingLows(bars), SwingLows(bars')) /\ Extends(SwingHighs(bars), SwingHighs(bars'))]_bars

(* A moving average lies among the closes it averages, so that a market    *)
(* that only fell is never a bullish one.                                  *)
AveragesAmongCloses ==
    Len(bars) >= Slow =>
        \A n \in {Fast, Slow} : LET e == Ema(Closes(bars), n) IN
            /\ \E i \in DOMAIN bars : ~Below(e, Whole(bars[i].close))
            /\ \E i \in DOMAIN bars : ~Below(Whole(bars[i].close), e)

-----------------------------------------------------------------------------
(* What the repository and the names in the code say.                      *)

(* "ADX trend strength": a market that went nowhere has none.              *)
Sideways ==
    /\ Len(bars) > Period + 1
    /\ \A i \in Len(bars) - Period + 1 .. Len(bars) : bars[i].close = bars[i - 1].close
StrengthNeedsTrend == Sideways => Strength(bars) < 35

(* "Session classifier with preferred/blocked strategy mapping": in the low *)
(* liquidity hours the two session strategies are blocked.                 *)
SessionBlocks ==
    bars # <<>> /\ SessionState(hour) = "low_liquidity" =>
        {"asian_range_breakout", "london_continuation"} \subseteq BlockedStrategies(Regime)
=============================================================================
