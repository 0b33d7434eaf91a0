---------------------------- MODULE NewsRiskProofs ----------------------------
(***************************************************************************)
(* The two properties of NewsRisk for every calendar, step and clock.      *)
(***************************************************************************)
EXTENDS NewsRisk, TLAPS

(* The status always is one the engine may give the calendar now: nothing  *)
(* is kept between assessments.                                            *)
Assessed ==
    /\ now \in Nat
    /\ calendar \in Calendars
    /\ status \in Assessments(calendar, now)

(* The status always is an assessment of the calendar at this minute.      *)
LEMMA AlwaysAssessed == Spec => []Assessed
<1>1. Init => Assessed
  BY DEF Init, Assessed
<1>2. Assessed /\ [Next]_vars => Assessed'
  <2>. SUFFICES ASSUME Assessed, [Next]_vars PROVE Assessed'
    OBVIOUS
  <2>1. CASE Assess
    BY <2>1, NewsAssumption DEF Assess, Assessed
  <2>2. CASE UNCHANGED vars
    BY <2>2 DEF vars, Assessed
  <2>. QED
    BY <2>1, <2>2 DEF Next
<1>. QED
  BY <1>1, <1>2, PTL DEF Spec

(* Times of a calendar's events are integers.                              *)
LEMMA EventTimes ==
    ASSUME Assessed
    PROVE  now \in Int /\ \A e \in calendar : e.time \in Int
BY NewsAssumption DEF Assessed, EventSet

(* The blackout windows of the engine and of the property agree: a signed  *)
(* distance of -20 to 45 minutes is a release within the last 20 minutes   *)
(* or due within 45.                                                       *)
LEMMA WindowAgrees ==
    ASSUME Assessed, NEW e \in calendar
    PROVE  HighImpact(e) /\ BlackoutWindow(e.time - now) <=> MovesMarketNow(e)
BY EventTimes DEF HighImpact, BlackoutWindow, MovesMarketNow

(* The event of a blackout: the first of those fetched, within its window.  *)
LEMMA BlackoutHasEvent ==
    ASSUME Assessed, status = "blackout"
    PROVE  \E e \in Earliest(Fetched(calendar, now)) : MovesMarketNow(e)
<1>1. PICK e \in Earliest(Fetched(calendar, now)) : status = EventStatus(e, now)
  BY DEF Assessed, Assessments
<1>2. HighImpact(e) /\ BlackoutWindow(e.time - now)
  BY <1>1 DEF EventStatus
<1>3. e \in calendar
  BY DEF Earliest, Fetched
<1>. QED
  BY <1>2, <1>3, WindowAgrees

(* Once begun, a blackout lasts until its event is 20 minutes gone: no      *)
(* event becomes earlier than it as time passes, and it is not forgotten    *)
(* before it is an hour old.                                               *)
THEOREM BlackoutsLast == Spec => BlackoutLasts
<1>1. Assessed /\ Assessed' /\ [Next]_vars =>
         (status = "blackout" /\ status' # "blackout" =>
             \E e \in calendar :
                 /\ MovesMarketNow(e)
                 /\ now' > e.time + 20 \/ \E f \in calendar \ {e} : f.time = e.time)
  <2>. SUFFICES ASSUME Assessed, Assessed', Next, status = "blackout", status' # "blackout"
                PROVE  \E e \in calendar :
                           /\ MovesMarketNow(e)
                           /\ now' > e.time + 20 \/ \E f \in calendar \ {e} : f.time = e.time
    BY DEF vars
  <2>1. PICK e \in Earliest(Fetched(calendar, now)) : MovesMarketNow(e)
    BY BlackoutHasEvent
  <2>2. e \in calendar /\ e \in Fetched(calendar, now)
    BY DEF Earliest, Fetched
  <2>3. ASSUME ~(now' > e.time + 20), \A f \in calendar \ {e} : f.time # e.time
        PROVE  FALSE
    <3>1. now \in Nat /\ now' \in Nat /\ now <= now' /\ calendar' = calendar
      BY NewsAssumption DEF Assessed, Next, Assess
    <3>2. \A f \in calendar : f.time \in Int
      BY EventTimes
    <3>3. e \in Fetched(calendar, now')
      BY <2>1, <2>2, <2>3, <3>1, <3>2 DEF Fetched, MovesMarketNow
    <3>4. \A f \in Earliest(Fetched(calendar, now')) : f = e
      <4>. SUFFICES ASSUME NEW f \in Earliest(Fetched(calendar, now')), f # e PROVE FALSE
        OBVIOUS
      <4>1. f \in calendar /\ now' - 60 <= f.time /\ f.time <= e.time
        BY <3>3 DEF Earliest, Fetched
      <4>2. f.time < e.time
        BY <2>2, <2>3, <3>2, <4>1
      <4>3. f \in Fetched(calendar, now)
        BY <2>2, <3>1, <3>2, <4>1, <4>2 DEF Fetched
      <4>. QED
        BY <2>1, <2>2, <3>2, <4>1, <4>2, <4>3 DEF Earliest
    <3>5. status' = EventStatus(e, now')
      BY <3>1, <3>3, <3>4 DEF Assessed, Assessments
    <3>6. HighImpact(e) /\ BlackoutWindow(e.time - now')
      BY <2>1, <2>2, <2>3, <3>1, <3>2 DEF MovesMarketNow, HighImpact, BlackoutWindow
    <3>. QED
      BY <3>5, <3>6 DEF EventStatus
  <2>. QED
    BY <2>1, <2>2, <2>3
<1>. QED
  BY <1>1, AlwaysAssessed, PTL DEF Spec, BlackoutLasts

(* A high-impact event in its window that no event of the last hour        *)
(* precedes blacks out: it is the one min() picks.                         *)
THEOREM FirstEventsBlackOut == Spec => []FirstEventBlacksOut
<1>1. Assessed => FirstEventBlacksOut
  <2>. SUFFICES ASSUME Assessed, NEW e \in calendar, MovesMarketNow(e),
                       \A f \in calendar \ {e} : f.time >= now - 60 => f.time > e.time
                PROVE  status = "blackout"
    BY DEF FirstEventBlacksOut
  <2>1. e \in Fetched(calendar, now)
    BY EventTimes DEF Fetched, MovesMarketNow
  <2>2. \A f \in Earliest(Fetched(calendar, now)) : f = e
    <3>. SUFFICES ASSUME NEW f \in Earliest(Fetched(calendar, now)), f # e PROVE FALSE
      OBVIOUS
    <3>1. f \in calendar /\ now - 60 <= f.time /\ f.time <= e.time
      BY <2>1 DEF Earliest, Fetched
    <3>. QED
      BY <3>1, EventTimes
  <2>3. status = EventStatus(e, now)
    BY <2>1, <2>2 DEF Assessed, Assessments
  <2>. QED
    BY <2>3, WindowAgrees DEF EventStatus
<1>. QED
  BY <1>1, AlwaysAssessed, PTL
=============================================================================
