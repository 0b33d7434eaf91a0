---------------------------- MODULE OutcomeTracking ----------------------------
(***************************************************************************)
(* OutcomeTracker and POST /journal/outcome/update: what became of the     *)
(* signals the scans journaled.  A run (the outcome_tracking job, or POST  *)
(* /journal/outcome/track) reads the open signals, classifies each one by  *)
(* the H1 candles stored since, and commits all its rows at the end; runs  *)
(* of several processes overlap.                                           *)
(*                                                                         *)
(* A tick is half an hour: a signal is issued in the middle of an H1 bar   *)
(* or just after its start.  Timestamps are minutes; prices are the points *)
(* of one plan, relative to its entry.                                     *)
(***************************************************************************)
EXTENDS Integers, Sequences, FiniteSets

CONSTANTS
    Trackers,        \* processes that may run the tracker
    Ids,             \* uuids of the signals
    Plans,           \* trade plans a scan may journal
    Ranges,          \* prices half an hour may cover
    ManualOutcomes,  \* outcomes an operator may post
    OpenLimit,       \* open signals one run reads, 200 in the code
    LastIssue,       \* bound: the last tick a signal is issued at
    MaxTime,         \* bound on the clock
    Forming,         \* providers return the bar that is still forming, too
    MayFail          \* a run may be killed or raise

Directions == {"long", "short", "none"}
AutomaticOutcomes ==
    {"tp1_hit_before_sl", "tp2_hit_before_sl", "sl_hit", "expired", "still_open", "ambiguous"}
Outcomes == AutomaticOutcomes \cup {"manual_invalidated"}

(* A plan without direction has no levels: its stop is None in the code.   *)
(* A stop may lie on the winning side: rejected plans are tracked as well. *)
PlanSet == [direction : Directions, stop : Int, tp1 : Int, tp2 : Int]

ASSUME TrackingAssumption ==
    /\ Plans \subseteq PlanSet
    /\ \A p \in Plans :
          /\ p.direction = "long" => p.tp1 <= p.tp2
          /\ p.direction = "short" => p.tp1 >= p.tp2
    /\ Ranges \subseteq [low : Int, high : Int]
    /\ ManualOutcomes \subseteq Outcomes
    /\ OpenLimit \in Nat \ {0} /\ LastIssue \in Nat /\ MaxTime \in Nat
    /\ Forming \in BOOLEAN /\ MayFail \in BOOLEAN

VARIABLES
    path,      \* the range of every half hour gone by
    stored,    \* the H1 bars of the candles table, in order
    signals,   \* StrategySignal rows with their plans
    outcomes,  \* SignalOutcome rows
    run        \* what each tracker is doing

vars == <<path, stored, signals, outcomes, run>>

now == Len(path)

-----------------------------------------------------------------------------
Least(a, b) == IF a <= b THEN a ELSE b
Greatest(a, b) == IF a >= b THEN a ELSE b

(* The H1 bar k opens at the k-th full hour and covers two half hours, or  *)
(* the one there is of it so far.                                          *)
Opens(k) == 60 * k
Bar(k) ==
    LET first == path[2 * k + 1]
        second == path[Least(2 * k + 2, now)]
    IN [low |-> Least(first.low, second.low), high |-> Greatest(first.high, second.high)]

(* RiskEngine.build_plan: 45 minutes after the opening of the newest       *)
(* complete setup candle.  Fault: three hours, the branch of the other     *)
(* trigger timeframes.                                                     *)
FaultValidUntil(t) == Opens(t \div 2 - 1) + 180
ValidUntil(t) == Opens(t \div 2 - 1) + 45

SignalSet == [id : Ids, plan : Plans, at : Nat, validUntil : Int]
OutcomeSet == [signal : Ids, outcome : Outcomes, closed : Nat \cup {-1}, manual : BOOLEAN]

Idle == [pc |-> "idle"]
Working(todo, rows) == [pc |-> "work", todo |-> todo, rows |-> rows]

-----------------------------------------------------------------------------
Init ==
    /\ path = <<>>
    /\ stored = <<>>
    /\ signals = {} /\ outcomes = {}
    /\ run = [t \in Trackers |-> Idle]

(* The market moves. *)
HalfHour ==
    /\ now < MaxTime
    /\ \E r \in Ranges : path' = Append(path, r)
    /\ UNCHANGED <<stored, signals, outcomes, run>>

(* The bars a provider returns.  Fault: the forming one among them.         *)
FaultReturned == (now + 1) \div 2
Returned == IF Forming THEN (now + 1) \div 2 ELSE now \div 2

(* A scan or the candle_sync job stores the bars it finds missing.  One    *)
(* that is there is never updated.                                         *)
SyncCandles ==
    /\ Len(stored) < Returned
    /\ stored' = stored \o [n \in 1 .. Returned - Len(stored) |-> Bar(Len(stored) + n - 1)]
    /\ UNCHANGED <<path, signals, outcomes, run>>

(* A scan commits a signal and its plan. *)
IssueSignal(id) ==
    /\ now <= LastIssue
    /\ id \notin {s.id : s \in signals}
    /\ \E p \in Plans :
          signals' = signals \cup {[id |-> id, plan |-> p, at |-> now,
                                    validUntil |-> ValidUntil(now)]}
    /\ UNCHANGED <<path, stored, outcomes, run>>

-----------------------------------------------------------------------------
(* A signal is settled by any outcome but still_open. *)
Settled(id) == \E o \in outcomes : o.signal = id /\ o.outcome # "still_open"

(* The open signals. *)
Open == {s \in signals : ~Settled(s.id)}

(* The newest OpenLimit of them. *)
ReadOpenSignals(t) ==
    /\ run[t] = Idle
    /\ Open # {}
    /\ \E newest \in SUBSET Open :
          /\ Cardinality(newest) = Least(OpenLimit, Cardinality(Open))
          /\ \A s \in newest, u \in Open \ newest : u.at <= s.at
          /\ run' = [run EXCEPT ![t] = Working(newest, {})]
    /\ UNCHANGED <<path, stored, signals, outcomes>>

(* OutcomeTracker._candles_after: stored bars that open after the signal   *)
(* was created.  A signal of tick t is created past the tick itself.       *)
CandlesAfter(s) == {k \in 0 .. Len(stored) - 1 : Opens(k) > 30 * s.at}

HitStop(p, bar) ==
    IF p.direction = "long" THEN bar.low <= p.stop ELSE bar.high >= p.stop
HitTarget(p, target, bar) ==
    IF p.direction = "long" THEN bar.high >= target ELSE bar.low <= target

(* What the classification says at one candle, "none" to go on. *)
AtCandle(s, k) ==
    LET p == s.plan
        sl == HitStop(p, stored[k + 1])
        tp1 == HitTarget(p, p.tp1, stored[k + 1])
        tp2 == HitTarget(p, p.tp2, stored[k + 1])
    IN IF p.direction = "none" THEN "expired"
       ELSE IF sl /\ (tp1 \/ tp2) THEN "ambiguous"
       ELSE IF tp2 THEN "tp2_hit_before_sl"
       ELSE IF tp1 THEN "tp1_hit_before_sl"
       ELSE IF sl THEN "sl_hit"
       ELSE IF Opens(k) > s.validUntil THEN "expired" ELSE "none"

(* The candle the walk stops at: the first that decides.  Fault: the       *)
(* candles are walked newest first.                                        *)
FaultDeciding(s) ==
    {k \in CandlesAfter(s) :
        AtCandle(s, k) # "none" /\ \A j \in CandlesAfter(s) : j > k => AtCandle(s, j) = "none"}
Deciding(s) ==
    {k \in CandlesAfter(s) :
        AtCandle(s, k) # "none" /\ \A j \in CandlesAfter(s) : j < k => AtCandle(s, j) = "none"}

Row(s, outcome, closed) ==
    [signal |-> s.id, outcome |-> outcome, closed |-> closed, manual |-> FALSE]

(* OutcomeTracker._classify and the row made of it, if any. *)
Classified(s) ==
    IF CandlesAfter(s) = {} THEN {Row(s, "still_open", -1)}
    ELSE {Row(s, AtCandle(s, k), k) : k \in Deciding(s)}

(* One turn of the loop.  A plan without a stop is skipped. *)
TrackSignal(t) ==
    /\ run[t] # Idle
    /\ \E s \in run[t].todo :
          /\ \A u \in run[t].todo : u.at <= s.at
          /\ run' = [run EXCEPT ![t] =
                Working(run[t].todo \ {s},
                        run[t].rows \cup IF s.plan.direction = "none" THEN {} ELSE Classified(s))]
    /\ UNCHANGED <<path, stored, signals, outcomes>>

(* The commit at the end of the run. *)
CommitOutcomes(t) ==
    /\ run[t] # Idle
    /\ run[t].todo = {}
    /\ outcomes' = outcomes \cup run[t].rows
    /\ run' = [run EXCEPT ![t] = Idle]
    /\ UNCHANGED <<path, stored, signals>>

(* A run is killed or raises: nothing of it is committed. *)
AbortRun(t) ==
    /\ MayFail
    /\ run[t] # Idle
    /\ run' = [run EXCEPT ![t] = Idle]
    /\ UNCHANGED <<path, stored, signals, outcomes>>

(* POST /journal/outcome/update: whatever the state of the signal. *)
UpdateOutcome(id) ==
    /\ id \in {s.id : s \in signals}
    /\ \E o \in ManualOutcomes :
          outcomes' = outcomes \cup {[signal |-> id, outcome |-> o, closed |-> -1, manual |-> TRUE]}
    /\ UNCHANGED <<path, stored, signals, run>>

Track(t) == ReadOpenSignals(t) \/ TrackSignal(t) \/ CommitOutcomes(t)

Next ==
    \/ HalfHour
    \/ SyncCandles
    \/ \E id \in Ids : IssueSignal(id) \/ UpdateOutcome(id)
    \/ \E t \in Trackers : Track(t) \/ AbortRun(t)

Spec == Init /\ [][Next]_vars

(* Time passes, and cron starts candle syncs and tracking runs over and    *)
(* over, which go on once started; they may be killed, but not for ever:   *)
(* from some point on a run that ends is one that commits.                 *)
FairSpec ==
    /\ Spec
    /\ <>[][\A t \in Trackers : run[t] # Idle /\ run'[t] = Idle => CommitOutcomes(t)]_vars
    /\ WF_vars(HalfHour)
    /\ WF_vars(SyncCandles)
    /\ \A t \in Trackers : WF_vars(Track(t))

-----------------------------------------------------------------------------
TypeOK ==
    /\ path \in Seq(Ranges) /\ now <= MaxTime
    /\ stored \in Seq([low : Int, high : Int])
    /\ ~Forming => Len(stored) <= now \div 2
    /\ signals \subseteq SignalSet
    /\ outcomes \subseteq OutcomeSet
    /\ run \in [Trackers -> {Idle} \cup
                    [pc : {"work"}, todo : SUBSET signals, rows : SUBSET OutcomeSet]]

(* The levels of a signal that price reached or went through in bar k.     *)
Reached(s, k) ==
    {level \in {"stop", "tp1", "tp2"} :
        IF (s.plan.direction = "long") = (level = "stop")
        THEN Bar(k).low <= s.plan[level]
        ELSE Bar(k).high >= s.plan[level]}

(* A row that settles its signal by its candles.                           *)
Verdict(o) == ~o.manual /\ o.outcome # "still_open"

(* What the tracker recorded stays what all the bars say, however many     *)
(* have been stored since and whichever of several overlapping runs wrote  *)
(* it: nothing was reached and the entry window was open in every bar      *)
(* before the closing one, and the outcome names what that one reached.    *)
VerdictsStand ==
    \A o \in outcomes, s \in signals :
        o.signal = s.id /\ Verdict(o) =>
            LET reached == Reached(s, o.closed) IN
            /\ o.closed \in CandlesAfter(s)
            /\ \A k \in CandlesAfter(s) :
                  k < o.closed => Reached(s, k) = {} /\ Opens(k) <= s.validUntil
            /\ reached = {} <=> o.outcome = "expired"
            /\ reached = {"stop"} <=> o.outcome = "sl_hit"
            /\ reached = {"tp1"} <=> o.outcome = "tp1_hit_before_sl"
            /\ reached = {"tp1", "tp2"} <=> o.outcome = "tp2_hit_before_sl"

(* Overlapping runs agree: whichever bars a run found stored when it       *)
(* classified a signal, all the verdicts recorded for it are the same row. *)
VerdictsAgree ==
    \A o, u \in outcomes : o.signal = u.signal /\ Verdict(o) /\ Verdict(u) => o = u

(* The last tick at which a bar after issue can still complete. *)
InTime(s) == s.at \div 2 <= MaxTime \div 2 - 2

(* Every directional signal is eventually settled, however many are open   *)
(* besides those one run reads, and whenever runs were killed.             *)
DirectionalSettled ==
    \A id \in Ids :
        (\E s \in signals : s.id = id /\ s.plan.direction # "none" /\ InTime(s)) ~> Settled(id)

-----------------------------------------------------------------------------
(* What the repository says of the tracker.                                *)

(* "Determine TP/SL/expiry outcomes for open signals": a signal without    *)
(* direction expires too.                                                  *)
EverySignalSettled ==
    \A id \in Ids : (\E s \in signals : s.id = id /\ InTime(s)) ~> Settled(id)

(* A plan is "valid_for_candles" after it is journaled: its entry window   *)
(* is open when the signal is issued.                                      *)
EntryWindowOpen == \A s \in signals : s.validUntil > 30 * s.at

(* "tp1_hit_before_sl": price did not reach the stop between the signal    *)
(* and the bar that reached the target.                                    *)
TargetsHitBeforeStop ==
    \A o \in outcomes, s \in signals :
        o.signal = s.id /\ ~o.manual /\ o.outcome \in {"tp1_hit_before_sl", "tp2_hit_before_sl"} =>
            \A h \in s.at + 1 .. 2 * o.closed : ~HitStop(s.plan, path[h])

=============================================================================
