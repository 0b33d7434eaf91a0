---------------------------- MODULE OutcomeProofs ----------------------------
(***************************************************************************)
(* The safety of OutcomeTracking for any number of trackers and signals,   *)
(* any plans and prices, with overlapping runs that fail and operators who *)
(* post outcomes at any time.                                              *)
(***************************************************************************)
EXTENDS OutcomeTracking, SequenceTheorems, TLAPS

BarSet == [low : Int, high : Int]

(* A working run, and the halves of an hour.                               *)
LEMMA Runs ==
    ASSUME NEW S, NEW r \in {Idle} \cup [pc : {"work"}, todo : SUBSET S, rows : SUBSET OutcomeSet]
    PROVE  r # Idle => r.todo \subseteq S /\ r.rows \subseteq OutcomeSet
BY DEF Idle

LEMMA WorkingTyped ==
    ASSUME NEW S, NEW todo \in SUBSET S, NEW rows \in SUBSET OutcomeSet
    PROVE  /\ Working(todo, rows) \in [pc : {"work"}, todo : SUBSET S, rows : SUBSET OutcomeSet]
           /\ Working(todo, rows).todo = todo /\ Working(todo, rows).rows = rows
           /\ Working(todo, rows) # Idle
BY DEF Working, Idle

LEMMA Halves == \A n \in Nat : n \div 2 \in Nat /\ 2 * (n \div 2) <= n /\ n <= 2 * (n \div 2) + 1
OBVIOUS

(* The bar of a full or half hour gone by has a low and a high.            *)
LEMMA BarTyped ==
    ASSUME path \in Seq(Ranges), NEW k \in Nat, 2 * k + 1 <= now
    PROVE  Bar(k) \in BarSet
<1>1. now \in Nat /\ \A i \in 1 .. now : path[i] \in Ranges
  BY DEF now
<1>2. Least(2 * k + 2, now) \in 1 .. now /\ 2 * k + 1 \in 1 .. now
  BY <1>1 DEF Least
<1>3. path[2 * k + 1] \in BarSet /\ path[Least(2 * k + 2, now)] \in BarSet
  BY <1>1, <1>2, TrackingAssumption DEF BarSet
<1>4. \A a, b \in Int : Least(a, b) \in Int /\ Greatest(a, b) \in Int
  BY DEF Least, Greatest
<1>. QED
  BY <1>3, <1>4 DEF Bar, BarSet

(* What a sync stores: the stored bars stay, each new one is the bar of    *)
(* its hour.                                                               *)
LEMMA SyncStores ==
    ASSUME TypeOK, SyncCandles
    PROVE  /\ stored' \in Seq(BarSet) /\ Len(stored') = Returned
           /\ \A i \in 1 .. Len(stored) : stored'[i] = stored[i]
           /\ \A i \in Len(stored) + 1 .. Len(stored') : stored'[i] = Bar(i - 1)
<1>. DEFINE m == Returned - Len(stored)
            new == [n \in 1 .. m |-> Bar(Len(stored) + n - 1)]
<1>1. now \in Nat /\ Returned \in Nat /\ 2 * Returned <= now + 1
  <2>1. now \in Nat
    BY DEF TypeOK, now
  <2>. QED
    BY <2>1, Halves DEF Returned
<1>2. stored \in Seq(BarSet) /\ Len(stored) \in Nat /\ m \in Nat
  BY <1>1 DEF TypeOK, BarSet, SyncCandles
<1>3. \A n \in 1 .. m : Bar(Len(stored) + n - 1) \in BarSet
  <2>. SUFFICES ASSUME NEW n \in 1 .. m PROVE Bar(Len(stored) + n - 1) \in BarSet
    OBVIOUS
  <2>1. Len(stored) + n - 1 \in Nat /\ 2 * (Len(stored) + n - 1) + 1 <= now
    BY <1>1, <1>2
  <2>. QED
    BY <2>1, BarTyped DEF TypeOK
<1>4. new \in Seq(BarSet) /\ Len(new) = m
  <2>. HIDE DEF m
  <2>1. new \in [1 .. m -> BarSet]
    BY <1>3
  <2>. HIDE DEF new
  <2>. QED
    BY <1>2, <2>1
<1>5. stored' = stored \o new
  BY DEF SyncCandles
<1>6. /\ stored' \in Seq(BarSet) /\ Len(stored') = Len(stored) + m
      /\ \A i \in 1 .. Len(stored) + m : stored'[i] =
            IF i <= Len(stored) THEN stored[i] ELSE new[i - Len(stored)]
  <2>. HIDE DEF new, m
  <2>. QED
    BY <1>2, <1>4, <1>5, ConcatProperties
<1>7. ASSUME NEW i \in Len(stored) + 1 .. Len(stored') PROVE stored'[i] = Bar(i - 1)
  <2>1. i - Len(stored) \in 1 .. m /\ Len(stored) + (i - Len(stored)) - 1 = i - 1
    BY <1>2, <1>6
  <2>2. stored'[i] = new[i - Len(stored)]
    BY <1>2, <1>6
  <2>. QED
    BY <2>1, <2>2
<1>8. Len(stored') = Returned /\ \A i \in 1 .. Len(stored) : stored'[i] = stored[i]
  <2>. HIDE DEF new
  <2>. QED
    BY <1>1, <1>2, <1>6
<1>. QED
  BY <1>6, <1>7, <1>8

-----------------------------------------------------------------------------
(* Type correctness.                                                       *)
LEMMA ClassifiedTyped ==
    ASSUME TypeOK, NEW s \in signals, s.plan.direction # "none"
    PROVE  /\ Classified(s) \subseteq OutcomeSet
           /\ \A o \in Classified(s) : o.signal = s.id /\ o.manual = FALSE
<1>1. s.id \in Ids
  BY DEF TypeOK, SignalSet
<1>2. ASSUME NEW k \in Deciding(s)
      PROVE  AtCandle(s, k) \in AutomaticOutcomes /\ k \in Nat
  <2>1. AtCandle(s, k) # "none" /\ k \in Nat
    BY DEF Deciding, CandlesAfter
  <2>. QED
    BY <2>1 DEF AtCandle, AutomaticOutcomes
<1>3. \A outcome \in AutomaticOutcomes, closed \in Nat \cup {-1} :
         /\ Row(s, outcome, closed) \in OutcomeSet
         /\ Row(s, outcome, closed).signal = s.id /\ Row(s, outcome, closed).manual = FALSE
  BY <1>1 DEF Row, OutcomeSet, Outcomes
<1>. QED
  BY <1>2, <1>3 DEF Classified, AutomaticOutcomes

LEMMA TypeInit == Init => TypeOK
<1>. SUFFICES ASSUME Init PROVE TypeOK
  OBVIOUS
<1>1. now = 0 /\ Len(stored) = 0
  BY DEF Init, now
<1>. QED
  BY <1>1, TrackingAssumption, Halves DEF Init, TypeOK

(* A step of one run, and of nothing that is typed by it.                  *)
LEMMA RunUpdate ==
    ASSUME TypeOK, NEW t \in Trackers, NEW r, run' = [run EXCEPT ![t] = r],
           r \in {Idle} \cup [pc : {"work"}, todo : SUBSET signals, rows : SUBSET OutcomeSet]
    PROVE  /\ run' \in [Trackers -> {Idle} \cup
                             [pc : {"work"}, todo : SUBSET signals, rows : SUBSET OutcomeSet]]
           /\ run'[t] = r /\ \A u \in Trackers \ {t} : run'[u] = run[u]
BY DEF TypeOK

LEMMA TypeNext == TypeOK /\ [Next]_vars => TypeOK'
<1>. SUFFICES ASSUME TypeOK, [Next]_vars PROVE TypeOK'
  OBVIOUS
<1>0. /\ path \in Seq(Ranges) /\ now = Len(path) /\ now \in Nat
      /\ stored \in Seq(BarSet) /\ Len(stored) \in Nat
  BY DEF TypeOK, now, BarSet
<1>1. CASE HalfHour
  <2>1. path' \in Seq(Ranges) /\ now' = now + 1 /\ now' <= MaxTime
    BY <1>0, <1>1, TrackingAssumption DEF HalfHour, now
  <2>2. now \div 2 <= now' \div 2
    BY <1>0, <2>1
  <2>3. ~Forming => Len(stored) <= now' \div 2
    BY <1>0, <2>1, <2>2, Halves DEF TypeOK
  <2>. QED
    BY <1>1, <2>1, <2>3 DEF HalfHour, TypeOK
<1>2. CASE SyncCandles
  <2>1. stored' \in Seq(BarSet) /\ (~Forming => Len(stored') <= now \div 2)
    BY <1>0, <1>2, SyncStores, Halves DEF Returned
  <2>2. UNCHANGED <<path, now, signals, outcomes, run>>
    BY <1>2 DEF SyncCandles, now
  <2>. QED
    BY <2>1, <2>2 DEF TypeOK, BarSet
<1>3. ASSUME NEW id \in Ids, IssueSignal(id) PROVE TypeOK'
  <2>1. now \div 2 \in Nat
    BY <1>0, Halves
  <2>2. ValidUntil(now) \in Int
    BY <2>1 DEF ValidUntil, Opens
  <2>3. signals' \subseteq SignalSet /\ signals \subseteq signals'
    BY <1>0, <1>3, <2>2 DEF IssueSignal, SignalSet, TypeOK
  <2>4. run' \in [Trackers -> {Idle} \cup
                     [pc : {"work"}, todo : SUBSET signals', rows : SUBSET OutcomeSet]]
    BY <1>3, <2>3 DEF IssueSignal, TypeOK
  <2>5. UNCHANGED <<path, now, stored, outcomes>>
    BY <1>3 DEF IssueSignal, now
  <2>. QED
    BY <2>3, <2>4, <2>5 DEF TypeOK
<1>4. ASSUME NEW id \in Ids, UpdateOutcome(id) PROVE TypeOK'
  <2>1. outcomes' \subseteq OutcomeSet
    <3>1. PICK o \in ManualOutcomes :
             outcomes' = outcomes \cup {[signal |-> id, outcome |-> o, closed |-> -1,
                                         manual |-> TRUE]}
      BY <1>4 DEF UpdateOutcome
    <3>2. [signal |-> id, outcome |-> o, closed |-> -1, manual |-> TRUE] \in OutcomeSet
      BY TrackingAssumption DEF OutcomeSet
    <3>. QED
      BY <3>1, <3>2 DEF TypeOK
  <2>2. UNCHANGED <<path, now, stored, signals, run>>
    BY <1>4 DEF UpdateOutcome, now
  <2>. QED
    BY <2>1, <2>2 DEF TypeOK
<1>5. ASSUME NEW t \in Trackers, Track(t) \/ AbortRun(t) PROVE TypeOK'
  <2>0. UNCHANGED <<path, now, stored, signals>>
    BY <1>5 DEF Track, ReadOpenSignals, TrackSignal, CommitOutcomes, AbortRun, now
  <2>1. run[t] # Idle => run[t].todo \subseteq signals /\ run[t].rows \subseteq OutcomeSet
    BY Runs DEF TypeOK
  <2>2. CASE ReadOpenSignals(t)
    <3>1. PICK newest \in SUBSET Open : run' = [run EXCEPT ![t] = Working(newest, {})]
      BY <2>2 DEF ReadOpenSignals
    <3>2. newest \subseteq signals
      BY DEF Open
    <3>. QED
      BY <2>0, <2>2, <3>1, <3>2, WorkingTyped, RunUpdate DEF ReadOpenSignals, TypeOK
  <2>3. CASE TrackSignal(t)
    <3>1. PICK s \in run[t].todo :
             run' = [run EXCEPT ![t] =
                Working(run[t].todo \ {s},
                        run[t].rows \cup IF s.plan.direction = "none" THEN {} ELSE Classified(s))]
      BY <2>3 DEF TrackSignal
    <3>. DEFINE rows == run[t].rows \cup IF s.plan.direction = "none" THEN {} ELSE Classified(s)
    <3>2. s \in signals /\ run[t].todo \ {s} \in SUBSET signals /\ rows \in SUBSET OutcomeSet
      BY <2>1, <2>3, ClassifiedTyped DEF TrackSignal
    <3>. HIDE DEF rows
    <3>3. Working(run[t].todo \ {s}, rows)
             \in [pc : {"work"}, todo : SUBSET signals, rows : SUBSET OutcomeSet]
      BY <3>2 DEF Working
    <3>4. run' = [run EXCEPT ![t] = Working(run[t].todo \ {s}, rows)]
      BY <3>1 DEF rows
    <3>. QED
      BY <2>0, <2>3, <3>3, <3>4, RunUpdate DEF TrackSignal, TypeOK
  <2>4. CASE CommitOutcomes(t)
    <3>1. outcomes' \subseteq OutcomeSet
      BY <2>1, <2>4 DEF CommitOutcomes, TypeOK
    <3>. QED
      BY <2>0, <2>4, <3>1, RunUpdate DEF CommitOutcomes, TypeOK
  <2>5. CASE AbortRun(t)
    BY <2>0, <2>5, RunUpdate DEF AbortRun, TypeOK
  <2>. QED
    BY <1>5, <2>2, <2>3, <2>4, <2>5 DEF Track
<1>6. CASE UNCHANGED vars
  BY <1>6 DEF vars, TypeOK, now
<1>. QED
  BY <1>1, <1>2, <1>3, <1>4, <1>5, <1>6 DEF Next

(* Bars, signals, rows and runs have their shapes, and no bar is stored    *)
(* before it is over unless the provider returns forming ones.             *)
THEOREM TrackingTyped == Spec => []TypeOK
BY TypeInit, TypeNext, PTL DEF Spec

-----------------------------------------------------------------------------
(* Verdicts.  A verdict, recorded or about to be, is what the bars stored  *)
(* by now say of its signal: bars that are stored later come after the     *)
(* one that decided, and stored bars do not change.                        *)
Decides(o, s) ==
    /\ o.signal = s.id
    /\ s.plan.direction # "none"
    /\ o.closed \in CandlesAfter(s)
    /\ o.outcome = AtCandle(s, o.closed) /\ o.outcome # "none"
    /\ \A j \in CandlesAfter(s) : j < o.closed => AtCandle(s, j) = "none"

Justified(rows) == \A o \in rows : Verdict(o) => \E s \in signals : Decides(o, s)

SignalsUnique == \A s, u \in signals : s.id = u.id => s = u

TrackInv ==
    /\ TypeOK
    /\ SignalsUnique
    /\ Justified(outcomes)
    /\ \A t \in Trackers : run[t] # Idle => Justified(run[t].rows)

LEMMA TrackInit == Init => TrackInv
BY TypeInit DEF Init, TrackInv, SignalsUnique, Justified

(* Of a signal only one verdict can be decided.                            *)
LEMMA OneVerdict ==
    ASSUME TypeOK, NEW s \in signals, NEW o \in OutcomeSet, NEW u \in OutcomeSet,
           Decides(o, s), Decides(u, s), ~o.manual, ~u.manual
    PROVE  o = u
<1>1. o.closed \in Int /\ u.closed \in Int
  BY DEF Decides, CandlesAfter
<1>2. ~(o.closed < u.closed) /\ ~(u.closed < o.closed)
  BY DEF Decides
<1>3. o.closed = u.closed
  BY <1>1, <1>2
<1>4. o.signal = u.signal /\ o.outcome = u.outcome /\ o.manual = u.manual
  BY <1>3 DEF Decides, OutcomeSet
<1>. QED
  BY <1>3, <1>4 DEF OutcomeSet

(* More bars stored leave it decided.                                      *)
LEMMA DecidesStable ==
    ASSUME TypeOK, stored' \in Seq(BarSet), Len(stored) <= Len(stored'),
           \A i \in 1 .. Len(stored) : stored'[i] = stored[i],
           NEW s \in signals, NEW o, Decides(o, s)
    PROVE  Decides(o, s)'
<1>1. Len(stored) \in Nat /\ Len(stored') \in Nat
  BY DEF TypeOK, BarSet
<1>2. \A k \in 0 .. Len(stored) - 1 : AtCandle(s, k)' = AtCandle(s, k)
  <2>1. \A k \in 0 .. Len(stored) - 1 : stored'[k + 1] = stored[k + 1]
    BY <1>1
  <2>. QED
    BY <2>1 DEF AtCandle
<1>3. /\ CandlesAfter(s) \subseteq CandlesAfter(s)'
      /\ \A k \in CandlesAfter(s)' : k <= o.closed => k \in CandlesAfter(s)
      /\ CandlesAfter(s) \subseteq 0 .. Len(stored) - 1
  BY <1>1 DEF CandlesAfter, Decides
<1>4. o.closed \in CandlesAfter(s)
  BY DEF Decides
<1>5. \A j \in CandlesAfter(s)' : j < o.closed => AtCandle(s, j)' = "none"
  <2>. SUFFICES ASSUME NEW j \in CandlesAfter(s)', j < o.closed
                PROVE  AtCandle(s, j)' = "none"
    OBVIOUS
  <2>1. j \in Int /\ o.closed \in Int
    BY <1>1, <1>4 DEF CandlesAfter
  <2>2. j \in CandlesAfter(s) /\ AtCandle(s, j) = "none"
    BY <1>3, <2>1 DEF Decides
  <2>. QED
    BY <1>2, <1>3, <2>2
<1>6. o.outcome = AtCandle(s, o.closed)'
  BY <1>2, <1>3, <1>4 DEF Decides
<1>. QED
  BY <1>3, <1>4, <1>5, <1>6 DEF Decides

LEMMA JustifiedStable ==
    ASSUME TypeOK, stored' \in Seq(BarSet), Len(stored) <= Len(stored'),
           \A i \in 1 .. Len(stored) : stored'[i] = stored[i],
           signals \subseteq signals', NEW rows, Justified(rows)
    PROVE  Justified(rows)'
<1>1. \A o \in rows, s \in signals : Decides(o, s) => Decides(o, s)'
  BY DecidesStable
<1>. QED
  BY <1>1 DEF Justified

(* What a run makes of an open signal is justified.                        *)
LEMMA ClassifiedJustified ==
    ASSUME TypeOK, NEW s \in signals, s.plan.direction # "none"
    PROVE  Justified(Classified(s))
<1>. SUFFICES ASSUME NEW o \in Classified(s), Verdict(o) PROVE Decides(o, s)
  BY DEF Justified
<1>1. CandlesAfter(s) # {}
  BY DEF Classified, Row, Verdict
<1>2. PICK k \in Deciding(s) : o = Row(s, AtCandle(s, k), k)
  BY <1>1 DEF Classified
<1>3. o.signal = s.id /\ o.closed = k /\ o.outcome = AtCandle(s, k)
  BY <1>2 DEF Row
<1>. QED
  BY <1>3 DEF Deciding, Decides

LEMMA TrackNext == TrackInv /\ [Next]_vars => TrackInv'
<1>. SUFFICES ASSUME TrackInv, [Next]_vars PROVE TrackInv'
  OBVIOUS
<1>0. TypeOK /\ TypeOK'
  BY TypeNext DEF TrackInv
<1>1. /\ stored' \in Seq(BarSet) /\ Len(stored) <= Len(stored')
      /\ \A i \in 1 .. Len(stored) : stored'[i] = stored[i]
  <2>1. CASE SyncCandles
    <3>1. Len(stored) <= Returned
      BY <2>1, <1>0, Halves DEF SyncCandles, Returned, TypeOK, now
    <3>. QED
      BY <1>0, <2>1, <3>1, SyncStores
  <2>2. CASE stored' = stored
    <3>1. stored \in Seq(BarSet) /\ Len(stored) \in Nat
      BY <1>0 DEF TypeOK, BarSet
    <3>. QED
      BY <2>2, <3>1
  <2>3. SyncCandles \/ stored' = stored
    BY DEF Next, vars, HalfHour, IssueSignal, UpdateOutcome, Track, ReadOpenSignals, TrackSignal,
           CommitOutcomes, AbortRun
  <2>. QED
    BY <2>1, <2>2, <2>3
<1>2. signals \subseteq signals' /\ SignalsUnique'
  <2>1. CASE signals' = signals
    BY <2>1 DEF TrackInv, SignalsUnique
  <2>2. CASE \E id \in Ids : IssueSignal(id)
    BY <2>2 DEF IssueSignal, TrackInv, SignalsUnique
  <2>3. signals' = signals \/ \E id \in Ids : IssueSignal(id)
    BY DEF Next, vars, HalfHour, SyncCandles, UpdateOutcome, Track, ReadOpenSignals,
           TrackSignal, CommitOutcomes, AbortRun
  <2>. QED
    BY <2>1, <2>2, <2>3
<1>3. \A rows : Justified(rows) => Justified(rows)'
  BY <1>0, <1>1, <1>2, JustifiedStable
<1>4. ASSUME NEW t \in Trackers, run[t] # Idle PROVE Justified(run[t].rows)
  BY <1>4 DEF TrackInv
<1>5. Justified(outcomes')
  <2>1. CASE outcomes' = outcomes
    BY <2>1 DEF TrackInv
  <2>2. CASE \E id \in Ids : UpdateOutcome(id)
    BY <2>2 DEF UpdateOutcome, TrackInv, Justified, Verdict
  <2>3. ASSUME NEW t \in Trackers, CommitOutcomes(t) PROVE Justified(outcomes')
    BY <1>4, <2>3 DEF CommitOutcomes, TrackInv, Justified
  <2>4. \/ outcomes' = outcomes
        \/ \E id \in Ids : UpdateOutcome(id)
        \/ \E t \in Trackers : CommitOutcomes(t)
    BY DEF Next, vars, HalfHour, SyncCandles, IssueSignal, Track, ReadOpenSignals, TrackSignal,
           AbortRun
  <2>. QED
    BY <2>1, <2>2, <2>3, <2>4
<1>6. ASSUME NEW t \in Trackers, run'[t] # Idle PROVE Justified(run'[t].rows)
  <2>1. CASE run'[t] = run[t]
    BY <1>4, <1>6, <2>1
  <2>2. CASE ReadOpenSignals(t)
    <3>1. run'[t].rows = {}
      BY <1>0, <2>2 DEF ReadOpenSignals, Working, TypeOK
    <3>. QED
      BY <3>1 DEF Justified
  <2>3. CASE TrackSignal(t)
    <3>1. PICK s \in run[t].todo :
             run'[t].rows = run[t].rows \cup
                                IF s.plan.direction = "none" THEN {} ELSE Classified(s)
      BY <1>0, <2>3 DEF TrackSignal, Working, TypeOK
    <3>2. s \in signals /\ Justified(run[t].rows)
      BY <1>0, <1>4, <2>3, Runs DEF TrackSignal, TypeOK
    <3>3. s.plan.direction # "none" => Justified(Classified(s))
      BY <1>0, <3>2, ClassifiedJustified
    <3>. QED
      BY <3>1, <3>2, <3>3 DEF Justified
  <2>4. run'[t] = run[t] \/ ReadOpenSignals(t) \/ TrackSignal(t)
    <3>1. ASSUME NEW u \in Trackers, CommitOutcomes(u) \/ AbortRun(u)
          PROVE  run'[t] = run[t]
      BY <1>0, <1>6, <3>1 DEF CommitOutcomes, AbortRun, TypeOK
    <3>2. ASSUME NEW u \in Trackers \ {t}, ReadOpenSignals(u) \/ TrackSignal(u)
          PROVE  run'[t] = run[t]
      BY <1>0, <3>2 DEF ReadOpenSignals, TrackSignal, TypeOK
    <3>. QED
      BY <3>1, <3>2 DEF Next, vars, HalfHour, SyncCandles, IssueSignal, UpdateOutcome, Track
  <2>. QED
    BY <2>1, <2>2, <2>3, <2>4
<1>. QED
  BY <1>0, <1>2, <1>3, <1>5, <1>6 DEF TrackInv

LEMMA TrackHolds == Spec => []TrackInv
BY TrackInit, TrackNext, PTL DEF Spec

(* All the verdicts of a signal are the same, whichever runs recorded      *)
(* them and whatever was stored in between.                                *)
THEOREM RunsAgree == Spec => []VerdictsAgree
<1>1. TrackInv => VerdictsAgree
  <2>. SUFFICES ASSUME TrackInv, NEW o \in outcomes, NEW u \in outcomes,
                       o.signal = u.signal, Verdict(o), Verdict(u)
                PROVE  o = u
    BY DEF VerdictsAgree
  <2>1. PICK s \in signals : Decides(o, s)
    BY DEF TrackInv, Justified
  <2>2. PICK x \in signals : Decides(u, x)
    BY DEF TrackInv, Justified
  <2>3. s = x
    BY <2>1, <2>2 DEF TrackInv, SignalsUnique, Decides
  <2>4. TypeOK /\ o \in OutcomeSet /\ u \in OutcomeSet
    BY DEF TrackInv, TypeOK
  <2>. QED
    BY <2>1, <2>2, <2>3, <2>4, OneVerdict DEF Verdict
<1>. QED
  BY <1>1, TrackHolds, PTL

-----------------------------------------------------------------------------
(* Where providers return complete bars only, a stored bar is the bar of   *)
(* its hour for good.                                                      *)
StoredWhole == \A k \in 0 .. Len(stored) - 1 : stored[k + 1] = Bar(k)

LEMMA WholeNext ==
    ASSUME ~Forming, TypeOK, StoredWhole, [Next]_vars
    PROVE  StoredWhole'
<1>1. /\ now \in Nat /\ now = Len(path) /\ path \in Seq(Ranges)
      /\ Len(stored) \in Nat /\ 2 * Len(stored) <= now
  <2>1. now \in Nat /\ Len(stored) \in Nat /\ Len(stored) <= now \div 2
    BY DEF TypeOK, now
  <2>. QED
    BY <2>1, Halves DEF TypeOK, now
<1>2. CASE HalfHour
  <2>1. PICK r \in Ranges : path' = Append(path, r)
    BY <1>2 DEF HalfHour
  <2>2. now' = now + 1 /\ \A i \in 1 .. now : path'[i] = path[i]
    BY <1>1, <2>1 DEF now
  <2>3. stored' = stored
    BY <1>2 DEF HalfHour
  <2>4. ASSUME NEW k \in 0 .. Len(stored) - 1 PROVE Bar(k)' = Bar(k)
    <3>1. 2 * k + 2 <= now /\ 2 * k + 2 <= now' /\ 2 * k + 1 \in 1 .. now /\ 2 * k + 2 \in 1 .. now
      BY <1>1, <2>2
    <3>2. Least(2 * k + 2, now) = 2 * k + 2 /\ Least(2 * k + 2, now') = 2 * k + 2
      BY <3>1 DEF Least
    <3>3. path'[2 * k + 1] = path[2 * k + 1] /\ path'[2 * k + 2] = path[2 * k + 2]
      BY <2>2, <3>1
    <3>. QED
      BY <3>2, <3>3 DEF Bar
  <2>. QED
    BY <2>3, <2>4 DEF StoredWhole
<1>3. CASE SyncCandles
  <2>1. path' = path /\ now' = now
    BY <1>3 DEF SyncCandles, now
  <2>2. \A k : Bar(k)' = Bar(k)
    BY <2>1 DEF Bar
  <2>3. Len(stored') \in Nat
    BY <1>3, SyncStores DEF BarSet
  <2>4. ASSUME NEW k \in 0 .. Len(stored') - 1 PROVE stored'[k + 1] = Bar(k)
    <3>1. CASE k < Len(stored)
      BY <1>1, <1>3, <3>1, SyncStores DEF StoredWhole
    <3>2. CASE k >= Len(stored)
      <4>1. k + 1 \in Len(stored) + 1 .. Len(stored') /\ (k + 1) - 1 = k
        BY <1>1, <2>3, <3>2
      <4>. QED
        BY <1>3, <4>1, SyncStores
    <3>. QED
      BY <1>1, <3>1, <3>2
  <2>. QED
    BY <2>2, <2>4 DEF StoredWhole
<1>4. CASE UNCHANGED <<path, stored>>
  BY <1>4 DEF StoredWhole, Bar, now
<1>5. HalfHour \/ SyncCandles \/ UNCHANGED <<path, stored>>
  BY DEF Next, vars, IssueSignal, UpdateOutcome, Track, ReadOpenSignals, TrackSignal,
         CommitOutcomes, AbortRun
<1>. QED
  BY <1>2, <1>3, <1>4, <1>5

(* What the walk says at a bar is what price reached in it.                *)
LEMMA AtCandleReached ==
    ASSUME NEW s \in SignalSet, NEW k \in Nat, stored[k + 1] = Bar(k), Bar(k) \in BarSet,
           s.plan.direction # "none"
    PROVE  /\ AtCandle(s, k) = "none" => Reached(s, k) = {} /\ Opens(k) <= s.validUntil
           /\ AtCandle(s, k) # "none" =>
                 /\ Reached(s, k) = {} <=> AtCandle(s, k) = "expired"
                 /\ Reached(s, k) = {"stop"} <=> AtCandle(s, k) = "sl_hit"
                 /\ Reached(s, k) = {"tp1"} <=> AtCandle(s, k) = "tp1_hit_before_sl"
                 /\ Reached(s, k) = {"tp1", "tp2"} <=> AtCandle(s, k) = "tp2_hit_before_sl"
<1>. DEFINE sl == HitStop(s.plan, Bar(k))
            tp1 == HitTarget(s.plan, s.plan.tp1, Bar(k))
            tp2 == HitTarget(s.plan, s.plan.tp2, Bar(k))
<1>1. /\ s.plan \in PlanSet /\ s.validUntil \in Int
      /\ s.plan.direction = "long" => s.plan.tp1 <= s.plan.tp2
      /\ s.plan.direction = "short" => s.plan.tp1 >= s.plan.tp2
  BY TrackingAssumption DEF SignalSet
<1>2. s.plan.direction \in {"long", "short"}
      /\ {s.plan.stop, s.plan.tp1, s.plan.tp2, Bar(k).low, Bar(k).high} \subseteq Int
  BY <1>1 DEF PlanSet, Directions, BarSet
<1>3. /\ "stop" \in Reached(s, k) <=> sl
      /\ "tp1" \in Reached(s, k) <=> tp1
      /\ "tp2" \in Reached(s, k) <=> tp2
      /\ Reached(s, k) \subseteq {"stop", "tp1", "tp2"}
  BY <1>2 DEF Reached, HitStop, HitTarget
<1>4. tp2 => tp1
  BY <1>1, <1>2 DEF HitTarget
<1>5. AtCandle(s, k) = IF sl /\ (tp1 \/ tp2) THEN "ambiguous"
                       ELSE IF tp2 THEN "tp2_hit_before_sl"
                       ELSE IF tp1 THEN "tp1_hit_before_sl"
                       ELSE IF sl THEN "sl_hit"
                       ELSE IF Opens(k) > s.validUntil THEN "expired" ELSE "none"
  BY DEF AtCandle
<1>6. Opens(k) \in Int
  BY DEF Opens
<1>7. /\ Reached(s, k) = {} <=> ~sl /\ ~tp1 /\ ~tp2
      /\ Reached(s, k) = {"stop"} <=> sl /\ ~tp1 /\ ~tp2
      /\ Reached(s, k) = {"tp1"} <=> ~sl /\ tp1 /\ ~tp2
      /\ Reached(s, k) = {"tp1", "tp2"} <=> ~sl /\ tp1 /\ tp2
  <2>. HIDE DEF sl, tp1, tp2
  <2>. QED
    BY <1>3
<1>. HIDE DEF sl, tp1, tp2
<1>. QED
  BY <1>1, <1>4, <1>5, <1>6, <1>7

(* A verdict stays what all the bars say, where providers return complete  *)
(* bars only.                                                              *)
THEOREM VerdictsHold == ASSUME ~Forming PROVE Spec => []VerdictsStand
<1>1. Init => StoredWhole
  BY DEF Init, StoredWhole
<1>2. TrackInv /\ StoredWhole /\ [Next]_vars => StoredWhole'
  BY WholeNext DEF TrackInv
<1>3. TrackInv /\ StoredWhole => VerdictsStand
  <2>. SUFFICES ASSUME TrackInv, StoredWhole, NEW o \in outcomes, NEW s \in signals,
                       o.signal = s.id, Verdict(o)
                PROVE  LET reached == Reached(s, o.closed) IN
                       /\ o.closed \in CandlesAfter(s)
                       /\ \A k \in CandlesAfter(s) :
                             k < o.closed => Reached(s, k) = {} /\ Opens(k) <= s.validUntil
                       /\ reached = {} <=> o.outcome = "expired"
                       /\ reached = {"stop"} <=> o.outcome = "sl_hit"
                       /\ reached = {"tp1"} <=> o.outcome = "tp1_hit_before_sl"
                       /\ reached = {"tp1", "tp2"} <=> o.outcome = "tp2_hit_before_sl"
    BY DEF VerdictsStand
  <2>1. Decides(o, s)
    BY DEF TrackInv, Justified, SignalsUnique, Decides
  <2>2. ASSUME NEW k \in CandlesAfter(s)
        PROVE  k \in Nat /\ stored[k + 1] = Bar(k) /\ Bar(k) \in BarSet
    <3>1. k \in 0 .. Len(stored) - 1 /\ Len(stored) \in Nat
      BY DEF CandlesAfter, TrackInv, TypeOK
    <3>2. stored \in Seq(BarSet) /\ k + 1 \in 1 .. Len(stored)
      BY <3>1 DEF TrackInv, TypeOK, BarSet
    <3>3. stored[k + 1] \in BarSet
      BY <3>2
    <3>. QED
      BY <3>1, <3>3 DEF StoredWhole
  <2>3. s \in SignalSet /\ s.plan.direction # "none"
    BY <2>1 DEF TrackInv, TypeOK, Decides
  <2>4. \A k \in CandlesAfter(s) :
           AtCandle(s, k) = "none" => Reached(s, k) = {} /\ Opens(k) <= s.validUntil
    BY <2>2, <2>3, AtCandleReached
  <2>5. o.closed \in CandlesAfter(s) /\ o.outcome = AtCandle(s, o.closed)
        /\ AtCandle(s, o.closed) # "none"
    BY <2>1 DEF Decides
  <2>. QED
    BY <2>1, <2>2, <2>3, <2>4, <2>5, AtCandleReached DEF Decides
<1>4. Spec => []StoredWhole
  BY <1>1, <1>2, TrackHolds, PTL DEF Spec
<1>. QED
  BY <1>3, <1>4, TrackHolds, PTL
=============================================================================
