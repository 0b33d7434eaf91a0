------------------------------- MODULE NewsRisk -------------------------------
(***************************************************************************)
(* NewsCalendarRiskEngine.assess against the clock: the calendar events    *)
(* around now, of which only the earliest is looked at, and the blackout   *)
(* and caution windows around it.  Times are minutes.                      *)
(***************************************************************************)
EXTENDS Integers, FiniteSets

CONSTANTS
    Calendars,  \* the event sets a calendar provider may hold
    Step,       \* minutes between two assessments
    MaxTime     \* bound on the clock

(* An event: its time, its importance, and whether its name holds one of   *)
(* HIGH_IMPACT_KEYWORDS.                                                   *)
EventSet == [time : Int, importance : {"low", "medium", "high"}, keyword : BOOLEAN]

ASSUME NewsAssumption ==
    /\ \A c \in Calendars : c \subseteq EventSet /\ IsFiniteSet(c)
    /\ Step \in Nat \ {0} /\ MaxTime \in Nat

VARIABLES
    now,       \* the clock
    calendar,  \* the provider's events
    status     \* news_risk_status of the last assessment

vars == <<now, calendar, status>>

-----------------------------------------------------------------------------
(* get_events(now - 1 hour, now + 24 hours).  Fault: what is still to come. *)
FaultFetched(events, t) == {e \in events : t <= e.time /\ e.time <= t + 24 * 60}
Fetched(events, t) == {e \in events : t - 60 <= e.time /\ e.time <= t + 24 * 60}

(* min(events, key=event_time): any of the earliest.                       *)
Earliest(events) == {e \in events : \A f \in events : e.time <= f.time}

(* Fault: the keywords are forgotten. *)
FaultHighImpact(e) == e.importance = "high"
HighImpact(e) == e.importance = "high" \/ e.keyword

BlackoutWindow(minutes) == -20 <= minutes /\ minutes <= 45
CautionWindow(minutes) == -10 <= minutes /\ minutes <= 20

EventStatus(e, t) ==
    IF HighImpact(e) /\ BlackoutWindow(e.time - t) THEN "blackout"
    ELSE IF e.importance \in {"medium", "high"} /\ CautionWindow(e.time - t) THEN "caution"
    ELSE "clear"

(* The statuses assess may return. *)
Assessments(events, t) ==
    IF Fetched(events, t) = {} THEN {"clear"}
    ELSE {EventStatus(e, t) : e \in Earliest(Fetched(events, t))}

-----------------------------------------------------------------------------
Init ==
    /\ now = 0
    /\ calendar \in Calendars
    /\ status \in Assessments(calendar, now)

(* Time passes, and a scan or GET /news-risk asks again.  Nothing is kept   *)
(* from one assessment to the next.                                        *)
Assess ==
    /\ now + Step <= MaxTime
    /\ now' = now + Step
    /\ status' \in Assessments(calendar, now')
    /\ UNCHANGED calendar

Next == Assess

Spec == Init /\ [][Next]_vars

-----------------------------------------------------------------------------
(* Released within the last 20 minutes or due within 45, and of high       *)
(* impact by its importance or by its name.                                *)
MovesMarketNow(e) ==
    /\ now - 20 <= e.time /\ e.time <= now + 45
    /\ e.importance = "high" \/ e.keyword

(* A blackout lasts: once begun it is lifted by no assessment before the   *)
(* 20 minutes after its event are over, although that event is released    *)
(* and others come into sight in between.  Only an event of the same       *)
(* minute, which min() may pick instead, can cut it short.                 *)
BlackoutLasts ==
    [][status = "blackout" /\ status' # "blackout" =>
          \E e \in calendar :
              /\ MovesMarketNow(e)
              /\ now' > e.time + 20 \/ \E f \in calendar \ {e} : f.time = e.time]_vars

(* The first event of the hour gone by and the day ahead always causes its *)
(* blackout.                                                               *)
FirstEventBlacksOut ==
    \A e \in calendar :
        /\ MovesMarketNow(e)
        /\ \A f \in calendar \ {e} : f.time >= now - 60 => f.time > e.time
        => status = "blackout"

(* "test_high_impact_event_in_window_triggers_blackout": every one does.   *)
HighImpactBlacksOut == (\E e \in calendar : MovesMarketNow(e)) => status = "blackout"
=============================================================================
