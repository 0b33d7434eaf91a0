---------------------------- MODULE SignalJournal ----------------------------
(***************************************************************************)
(* SignalJournalService and the API over it: requests of several           *)
(* processes (the uvicorn workers, the worker and the cron jobs, each with *)
(* an environment of its own) scan instruments, each scan in three         *)
(* transactions (candles, signal and plan, audit row), POST /scan answers  *)
(* with the decisions of all instruments when the last one is journaled,   *)
(* GET /recommendations serves the last audit row while it is young, and   *)
(* POST /alerts turns an allowed decision into an alert.                   *)
(*                                                                         *)
(* A tick is the 15 minutes both of the freshness limit and of an M15 bar. *)
(***************************************************************************)
EXTENDS DecisionRules, FiniteSets

CONSTANTS
    Procs,            \* processes serving requests or running jobs
    InstrumentOrder,  \* SUPPORTED_INSTRUMENTS, in its order
    Ids,              \* uuids of the signals
    AlertIds,         \* uuids of the alerts
    Markets,          \* what the providers may answer
    FlagSettings,     \* environments an operator may deploy
    Decision,         \* the decision rules over them, tabulated
    FreshTicks,       \* ticks a journaled decision is served for
    Window,           \* bars a provider returns, 240 in the code
    MaxTime,          \* bound on the clock
    AwareTimestamps,  \* the database returns timezone-aware timestamps
    MayFail           \* requests may be killed or raise, services may be redeployed

Instruments == {InstrumentOrder[i] : i \in DOMAIN InstrumentOrder}

ASSUME JournalAssumption ==
    /\ InstrumentOrder \in Seq(Instruments) /\ InstrumentOrder # <<>>
    /\ FlagSettings \subseteq FlagSet
    /\ Decision = [m \in Markets |-> [f \in FlagSettings |-> Decide(m, f)]]
    /\ FreshTicks \in Nat /\ MaxTime \in Nat /\ Window \in Nat
    /\ AwareTimestamps \in BOOLEAN /\ MayFail \in BOOLEAN

VARIABLES
    now,       \* the clock
    flags,     \* each process's flags, cached from its service's environment
    candles,   \* candle rows: <<instrument, bar>>
    signals,   \* committed StrategySignal rows with their plans
    audits,    \* RecommendationAuditLog rows
    alerts,    \* Alert rows
    job,       \* what each process is doing
    answer,    \* what each process answered its last request
    shown,     \* history: the youngest decision answered, by instrument
    lastLive   \* history: the last tick some process could recommend at

vars == <<now, flags, candles, signals, audits, alerts, job, answer, shown, lastLive>>
history == <<shown, lastLive>>

-----------------------------------------------------------------------------
Bars == 0..MaxTime

SignalSet == [id : Ids, inst : Instruments, market : Markets]
AuditSet == [signal : Ids, inst : Instruments, verdict : VerdictSet, at : Bars]
AlertSet == [id : AlertIds, signal : Ids]

(* A request: what it is, when it began and what had been shown by then    *)
(* (the last two are history).  A job: its program counter, its request,   *)
(* the instrument it is on, those left to scan and the decisions journaled *)
(* so far; the candle keys it found missing, the signal row it committed,  *)
(* the audit row it is about to commit.                                    *)
Idle == [pc |-> "idle"]
Kinds == {"get", "scan", "sync"}
RequestSet == [kind : Kinds, since : Bars, seen : [Instruments -> Bars]]
JobSet ==
    {Idle}
    \cup [pc : {"start", "evaluate"}, req : RequestSet, inst : Instruments,
          rest : Seq(Instruments), done : SUBSET AuditSet]
    \cup [pc : {"persist"}, req : RequestSet, inst : Instruments,
          rest : Seq(Instruments), done : SUBSET AuditSet, missing : SUBSET Bars]
    \cup [pc : {"audit"}, req : RequestSet, inst : Instruments,
          rest : Seq(Instruments), done : SUBSET AuditSet, row : SignalSet]
    \cup [pc : {"record"}, req : RequestSet, inst : Instruments,
          rest : Seq(Instruments), done : SUBSET AuditSet, row : SignalSet, audit : AuditSet]
    \cup [pc : {"answer"}, req : RequestSet, done : SUBSET AuditSet]

Request(kind) == [kind |-> kind, since |-> now, seen |-> shown]
Begin(req, inst, rest, done) ==
    [pc |-> "start", req |-> req, inst |-> inst, rest |-> rest, done |-> done]
Finish(req, done) == [pc |-> "answer", req |-> req, done |-> done]

NoAnswer == [status |-> "none"]
Failed(kind) == [status |-> "failed", kind |-> kind]
Answered(kind, as) == [status |-> "ok", kind |-> kind, audits |-> as]
AnswerSet ==
    {NoAnswer} \cup [status : {"failed"}, kind : Kinds]
    \cup [status : {"ok"}, kind : Kinds, audits : SUBSET AuditSet]

(* A process decides a trade recommendation only with live recommendations *)
(* on and paper validation off.                                            *)
Recommends(f) == f.live /\ ~f.paper
SomeRecommends(settings) == \E p \in Procs : Recommends(settings[p])

-----------------------------------------------------------------------------
Init ==
    /\ now = 0
    /\ flags \in [Procs -> FlagSettings]
    /\ candles = {} /\ signals = {} /\ audits = {} /\ alerts = {}
    /\ job = [p \in Procs |-> Idle]
    /\ answer = [p \in Procs |-> NoAnswer]
    /\ shown = [inst \in Instruments |-> 0]
    /\ lastLive = IF SomeRecommends(flags) THEN 0 ELSE -1

(* SELECT ... WHERE instrument ORDER BY created_at DESC LIMIT 1: any of    *)
(* the youngest rows.  Fault: ascending order.                             *)
FaultLatestAudits(inst) ==
    {a \in audits : a.inst = inst /\ \A b \in audits : b.inst = inst => a.at <= b.at}

LatestAudits(inst) ==
    {a \in audits : a.inst = inst /\ \A b \in audits : b.inst = inst => b.at <= a.at}

(* The audit row is younger than 15 minutes.  Fault: its age is not looked *)
(* at.                                                                     *)
FaultFresh(a) == TRUE
Fresh(a) == a.at >= now - FreshTicks

-----------------------------------------------------------------------------
(* An idle process takes up a request. *)
Take(p, j) ==
    /\ job[p] = Idle
    /\ job' = [job EXCEPT ![p] = j]
    /\ answer' = [answer EXCEPT ![p] = NoAnswer]
    /\ UNCHANGED <<now, flags, candles, signals, audits, alerts, history>>

(* POST /scan/{instrument}. *)
PostScan(p, inst) == Take(p, Begin(Request("scan"), inst, <<>>, {}))

(* POST /scan and the signal_scan job: every instrument, in order. *)
ScanAll(p) ==
    Take(p, Begin(Request("scan"), Head(InstrumentOrder), Tail(InstrumentOrder), {}))

(* The candle_sync job: the candles of every instrument, in order. *)
CandleSync(p) ==
    Take(p, Begin(Request("sync"), Head(InstrumentOrder), Tail(InstrumentOrder), {}))

(* GET /recommendations/{instrument} reads the last audit row and answers  *)
(* with it when it is young.                                               *)
ServeCached(p, inst) ==
    \E a \in LatestAudits(inst) : Fresh(a) /\ Take(p, Finish(Request("get"), {a}))

(* GET /recommendations/{instrument} when there is none, or it is stale. *)
ScanInstead(p, inst) ==
    /\ \A a \in LatestAudits(inst) : ~Fresh(a)
    /\ Take(p, Begin(Request("get"), inst, <<>>, {}))

StoredBars(inst) == {b \in Bars : <<inst, b>> \in candles}

(* Bars of the provider's answer whose keys the database did not return.   *)
(* Fault: only the newest bar is asked for.                                *)
FaultMissing(stored) == {now} \ stored
Missing(stored) == {b \in 0..now : b > now - Window} \ stored

(* persist_candles reads the stored keys.  A database that drops the       *)
(* timezone returns keys equal to none of the provider's.                  *)
ReadCandleKeys(p) ==
    /\ job[p].pc = "start"
    /\ LET j == job[p]
           stored == IF AwareTimestamps THEN StoredBars(j.inst) ELSE {}
       IN job' = [job EXCEPT ![p] =
              [pc |-> "persist", req |-> j.req, inst |-> j.inst, rest |-> j.rest,
               done |-> j.done, missing |-> Missing(stored)]]
    /\ UNCHANGED <<now, flags, candles, signals, audits, alerts, answer, history>>

NewRows(j) == {<<j.inst, b>> : b \in j.missing}

(* The next instrument of the loop, or the answer with what was journaled. *)
NextInstrument(j, done) ==
    IF j.rest = <<>> THEN Finish(j.req, done)
    ELSE Begin(j.req, Head(j.rest), Tail(j.rest), done)

AfterCandles(j) ==
    IF j.req.kind = "sync" THEN NextInstrument(j, j.done)
    ELSE [pc |-> "evaluate", req |-> j.req, inst |-> j.inst, rest |-> j.rest, done |-> j.done]

(* The insert commits. *)
StoreCandles(p) ==
    /\ job[p].pc = "persist"
    /\ NewRows(job[p]) \cap candles = {}
    /\ candles' = candles \cup NewRows(job[p])
    /\ job' = [job EXCEPT ![p] = AfterCandles(job[p])]
    /\ UNCHANGED <<now, flags, signals, audits, alerts, answer, history>>

(* The unique key over provider, instrument, timeframe and timestamp       *)
(* rejects the insert: the request ends with an IntegrityError.            *)
CandleConflict(p) ==
    /\ job[p].pc = "persist"
    /\ NewRows(job[p]) \cap candles # {}
    /\ job' = [job EXCEPT ![p] = Idle]
    /\ answer' = [answer EXCEPT ![p] = Failed(job[p].req.kind)]
    /\ UNCHANGED <<now, flags, candles, signals, audits, alerts, history>>

(* The signal rows after the commit.  Fault: flushed, never committed.      *)
FaultCommitted(row) == signals
Committed(row) == signals \cup {row}

(* What is left to do for a committed signal.  Fault: a scan started by a   *)
(* GET returns without its audit row.                                      *)
FaultAfterCommit(j, row) ==
    IF j.req.kind = "get" THEN Finish(j.req, j.done)
    ELSE [pc |-> "audit", req |-> j.req, inst |-> j.inst, rest |-> j.rest, done |-> j.done,
          row |-> row]
AfterCommit(j, row) ==
    [pc |-> "audit", req |-> j.req, inst |-> j.inst, rest |-> j.rest, done |-> j.done,
     row |-> row]

(* Read the market, evaluate, and commit the signal with its regime,       *)
(* ranking and plan rows.                                                  *)
CommitSignal(p) ==
    /\ job[p].pc = "evaluate"
    /\ \E id \in Ids \ {s.id : s \in signals}, m \in Markets :
          LET row == [id |-> id, inst |-> job[p].inst, market |-> m] IN
          /\ signals' = Committed(row)
          /\ job' = [job EXCEPT ![p] = AfterCommit(job[p], row)]
    /\ UNCHANGED <<now, flags, candles, audits, alerts, answer, history>>

(* Fault: stamped with the end of the bar instead of the clock.            *)
FaultAuditRow(p, row) ==
    [signal |-> row.id, inst |-> row.inst, verdict |-> Decision[row.market][flags[p]],
     at |-> now + 1]
AuditRow(p, row) ==
    [signal |-> row.id, inst |-> row.inst, verdict |-> Decision[row.market][flags[p]],
     at |-> now]

(* The arbiter decides under this process's flags, and AuditService.record *)
(* stamps the row (created_at, at the flush).                              *)
DecideSignal(p) ==
    /\ job[p].pc = "audit"
    /\ LET j == job[p]
       IN job' = [job EXCEPT ![p] =
              [pc |-> "record", req |-> j.req, inst |-> j.inst, rest |-> j.rest, done |-> j.done,
               row |-> j.row, audit |-> AuditRow(p, j.row)]]
    /\ UNCHANGED <<now, flags, candles, signals, audits, alerts, answer, history>>

(* What follows the audit row.  Fault: it is recorded again.               *)
FaultAfterAudit(j) ==
    [pc |-> "audit", req |-> j.req, inst |-> j.inst, rest |-> j.rest,
     done |-> j.done \cup {j.audit}, row |-> j.row]
AfterAudit(j) == NextInstrument(j, j.done \cup {j.audit})

(* The audit row commits: others see it, whatever committed since it was   *)
(* stamped.                                                                *)
RecordAudit(p) ==
    /\ job[p].pc = "record"
    /\ audits' = audits \cup {job[p].audit}
    /\ job' = [job EXCEPT ![p] = AfterAudit(job[p])]
    /\ UNCHANGED <<now, flags, candles, signals, alerts, answer, history>>

(* The youngest decision of an instrument answered so far, with these.     *)
Youngest(inst, done) ==
    IF \E a \in done : a.inst = inst /\ a.at > shown[inst]
    THEN (CHOOSE a \in done : a.inst = inst /\ a.at > shown[inst]).at
    ELSE shown[inst]

(* The request is answered with every decision it journaled or read.       *)
Reply(p) ==
    /\ job[p].pc = "answer"
    /\ answer' = [answer EXCEPT ![p] = Answered(job[p].req.kind, job[p].done)]
    /\ shown' = [inst \in Instruments |-> Youngest(inst, job[p].done)]
    /\ job' = [job EXCEPT ![p] = Idle]
    /\ UNCHANGED <<now, flags, candles, signals, audits, alerts, lastLive>>

-----------------------------------------------------------------------------
(* The audited payload allows an alert.  Fault: any audited signal does.    *)
FaultAlertAllowed(a) == TRUE
AlertAllowed(a) == a.verdict.alert

(* POST /alerts: the last audit row of the signal must allow it. *)
CreateAlert(id) ==
    /\ id \notin {x.id : x \in alerts}
    /\ \E a \in audits :
          /\ \A b \in audits : b.signal = a.signal => b.at <= a.at
          /\ AlertAllowed(a)
          /\ alerts' = alerts \cup {[id |-> id, signal |-> a.signal]}
    /\ UNCHANGED <<now, flags, candles, signals, audits, job, answer, history>>

DeleteAlert(id) ==
    /\ id \in {x.id : x \in alerts}
    /\ alerts' = {x \in alerts : x.id # id}
    /\ UNCHANGED <<now, flags, candles, signals, audits, job, answer, history>>

(* A request is killed or raises: what it had not committed is rolled back. *)
Abort(p) ==
    /\ MayFail
    /\ job[p] # Idle
    /\ job' = [job EXCEPT ![p] = Idle]
    /\ answer' = [answer EXCEPT ![p] = Failed(job[p].req.kind)]
    /\ UNCHANGED <<now, flags, candles, signals, audits, alerts, history>>

(* The service of this process is redeployed, under an environment of its  *)
(* own: the process restarts.                                              *)
Redeploy(p) ==
    /\ MayFail
    /\ \E f \in FlagSettings : flags' = [flags EXCEPT ![p] = f]
    /\ lastLive' = IF SomeRecommends(flags') THEN now ELSE lastLive
    /\ job' = [job EXCEPT ![p] = Idle]
    /\ answer' = [answer EXCEPT ![p] = NoAnswer]
    /\ UNCHANGED <<now, candles, signals, audits, alerts, shown>>

Tick ==
    /\ now < MaxTime
    /\ now' = now + 1
    /\ lastLive' = IF SomeRecommends(flags) THEN now' ELSE lastLive
    /\ UNCHANGED <<flags, candles, signals, audits, alerts, job, answer, shown>>

Step(p) ==
    \/ ReadCandleKeys(p)
    \/ StoreCandles(p)
    \/ CandleConflict(p)
    \/ CommitSignal(p)
    \/ DecideSignal(p)
    \/ RecordAudit(p)
    \/ Reply(p)

Arrival(p) ==
    \/ \E inst \in Instruments :
          \/ PostScan(p, inst)
          \/ ServeCached(p, inst)
          \/ ScanInstead(p, inst)
    \/ ScanAll(p)
    \/ CandleSync(p)

Next ==
    \/ \E p \in Procs : Step(p) \/ Arrival(p) \/ Abort(p) \/ Redeploy(p)
    \/ \E id \in AlertIds : CreateAlert(id) \/ DeleteAlert(id)
    \/ Tick

Spec == Init /\ [][Next]_vars

(* A process that works on a request goes on with it.                      *)
FairSpec == Spec /\ \A p \in Procs : WF_vars(Step(p))

-----------------------------------------------------------------------------
TypeOK ==
    /\ now \in Bars
    /\ flags \in [Procs -> FlagSettings]
    /\ candles \subseteq Instruments \X Bars
    /\ signals \subseteq SignalSet
    /\ audits \subseteq AuditSet
    /\ alerts \subseteq AlertSet
    /\ job \in [Procs -> JobSet]
    /\ answer \in [Procs -> AnswerSet]
    /\ shown \in [Instruments -> Bars]
    /\ lastLive \in Bars \cup {-1}

(* Every audit row tells of a committed signal of the same instrument, and *)
(* it displays only what that signal's own market cleared: no audit row    *)
(* for rolled back work, none that mixes two concurrent scans.             *)
AuditRefersToCommitted ==
    \A a \in audits : \E s \in signals :
        /\ s.id = a.signal /\ s.inst = a.inst
        /\ a.verdict.display # "no_trade" => MarketClears(s.market)

(* A signal is decided at most once, whichever process scanned it.         *)
OneAuditPerSignal ==
    \A a, b \in audits : a.signal = b.signal => a = b

(* A standing alert belongs to a signal whose market cleared every hard    *)
(* gate when it was scanned.                                               *)
AlertedSignalsCleared ==
    \A x \in alerts : \E s \in signals : s.id = x.signal /\ MarketClears(s.market)

(* A signal without an audit row is one a scan is still working on.        *)
EveryDecisionJournaled ==
    \A s \in signals :
        \/ \E a \in audits : a.signal = s.id
        \/ \E p \in Procs : job[p].pc \in {"audit", "record"} /\ job[p].row = s

(* Answers never go back: once a decision of an instrument has been        *)
(* answered, by whichever process, no later request is answered with an    *)
(* older one.  It rests on created_at being stamped after the request      *)
(* began, whatever order the audit rows commit in, and on the GET ordering *)
(* by created_at.  (A request that was under way already may still come    *)
(* with an older one: see the decisions a POST /scan gathers.)             *)
AnswersGoForward ==
    [][\A p \in Procs :
          answer'[p] # answer[p] /\ answer'[p].status = "ok" =>
              \A a \in answer'[p].audits : job[p].req.seen[a.inst] <= a.at]_vars

(* Recommendations end within 15 minutes: a request that begins later than *)
(* that after the last process able to recommend is gone is not answered   *)
(* with a trade recommendation.  One process left live, in a service with  *)
(* its own environment, is enough to keep them coming: see PaperModeHolds. *)
RecommendationsLapse ==
    [][\A p \in Procs :
          answer'[p] # answer[p] /\ answer'[p].status = "ok" =>
              \A a \in answer'[p].audits :
                  a.verdict.display = "trade_recommendation" =>
                      job[p].req.since <= lastLive + FreshTicks]_vars

(* The bars before the newest stored one have no hole within the window a  *)
(* provider returns, whatever several processes found missing and stored   *)
(* at the same time, and however long nothing ran before.                  *)
RecentCandlesWhole ==
    \A inst \in Instruments : \A newest \in StoredBars(inst) :
        (\A b \in StoredBars(inst) : b <= newest) =>
            {b \in 0..newest : b > newest - Window} \subseteq StoredBars(inst)

(* Every signal is eventually decided, while ids last.                     *)
SignalsGetDecided ==
    \A id \in Ids : (\E s \in signals : s.id = id) ~> (\E a \in audits : a.signal = id)

(* The journal implements the decision ledger.                             *)
Ledger == INSTANCE DecisionLedger WITH
    Decisions <- [display : DisplayModes, alert : BOOLEAN],
    Alertable <- [display : {"trade_recommendation", "watchlist"}, alert : {TRUE}],
    emitted <- {s.id : s \in signals},
    ledger <- {<<a.signal, [display |-> a.verdict.display, alert |-> a.verdict.alert]>> :
                   a \in audits},
    raised <- {<<x.id, x.signal>> : x \in alerts}

ImplementsLedger == Ledger!Spec

-----------------------------------------------------------------------------
(* What the repository's documents say.                                    *)

(* "reads from the cached audit log within 15 minutes, falls back to       *)
(* scanning when stale": the fallback answers.                             *)
ScanFallbackAnswers == \A p \in Procs : answer[p] # Failed("get")

(* PAPER_VALIDATION_MODE_ENABLED "keeps user-facing recommendations off":  *)
(* no process in paper mode answers with one.                              *)
PaperModeHolds ==
    [][\A p \in Procs :
          answer'[p] # answer[p] /\ answer'[p].status = "ok" /\ flags'[p].paper =>
              \A a \in answer'[p].audits : a.verdict.display # "trade_recommendation"]_vars

=============================================================================
