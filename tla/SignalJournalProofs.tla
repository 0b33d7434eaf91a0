-------------------------- MODULE SignalJournalProofs --------------------------
(***************************************************************************)
(* The safety of SignalJournal for any number of processes, instruments    *)
(* and markets, any fresh time and window, and with requests that fail and *)
(* deployments that restart.                                               *)
(***************************************************************************)
EXTENDS SignalJournal, DecisionLemmas

(* The parts of a job.                                                     *)
Pcs == {"idle", "start", "evaluate", "persist", "audit", "record", "answer"}
LEMMA JobParts ==
    \A j \in JobSet :
        /\ j.pc \in Pcs
        /\ j.pc = "idle" <=> j = Idle
        /\ j # Idle => j.req \in RequestSet /\ j.done \in SUBSET AuditSet
        /\ j # Idle /\ j.pc # "answer" => j.inst \in Instruments /\ j.rest \in Seq(Instruments)
        /\ j.pc = "persist" => j.missing \in SUBSET Bars
        /\ j.pc \in {"audit", "record"} => j.row \in SignalSet
        /\ j.pc = "record" => j.audit \in AuditSet
<1>. SUFFICES ASSUME NEW j \in JobSet
              PROVE  /\ j.pc \in Pcs
                     /\ j.pc = "idle" <=> j = Idle
                     /\ j # Idle => j.req \in RequestSet /\ j.done \in SUBSET AuditSet
                     /\ j # Idle /\ j.pc # "answer" =>
                            j.inst \in Instruments /\ j.rest \in Seq(Instruments)
                     /\ j.pc = "persist" => j.missing \in SUBSET Bars
                     /\ j.pc \in {"audit", "record"} => j.row \in SignalSet
                     /\ j.pc = "record" => j.audit \in AuditSet
  OBVIOUS
<1>1. CASE j = Idle
  BY <1>1 DEF Idle, Pcs
<1>2. CASE j # Idle
  BY <1>2 DEF JobSet, Idle, Pcs
<1>. QED
  BY <1>1, <1>2

LEMMA RequestParts ==
    \A r \in RequestSet :
        r.kind \in Kinds /\ r.since \in Bars /\ r.seen \in [Instruments -> Bars]
BY DEF RequestSet

LEMMA BeginTyped ==
    \A req \in RequestSet, inst \in Instruments, rest \in Seq(Instruments),
       done \in SUBSET AuditSet :
        Begin(req, inst, rest, done) \in JobSet
BY DEF Begin, JobSet

LEMMA FinishTyped ==
    \A req \in RequestSet, done \in SUBSET AuditSet : Finish(req, done) \in JobSet
BY DEF Finish, JobSet

(* What a new job holds.                                                   *)
LEMMA JobMakers ==
    /\ \A req, inst, rest, done :
          LET j == Begin(req, inst, rest, done)
          IN j.pc = "start" /\ j.req = req /\ j.done = done
    /\ \A req, done : LET j == Finish(req, done)
                       IN j.pc = "answer" /\ j.req = req /\ j.done = done
BY DEF Begin, Finish

(* The loop of a scan goes on with a job of the same request.              *)
LEMMA NextTyped ==
    \A j \in JobSet, done \in SUBSET AuditSet : j # Idle /\ j.pc # "answer" =>
        LET k == NextInstrument(j, done)
        IN /\ k \in JobSet /\ k.pc \in {"start", "answer"}
           /\ k.req = j.req /\ k.done = done
<1>. SUFFICES ASSUME NEW j \in JobSet, NEW done \in SUBSET AuditSet, j # Idle, j.pc # "answer"
              PROVE  LET k == NextInstrument(j, done)
                     IN /\ k \in JobSet /\ k.pc \in {"start", "answer"}
                        /\ k.req = j.req /\ k.done = done
  OBVIOUS
<1>1. j.req \in RequestSet /\ j.rest \in Seq(Instruments)
  BY JobParts
<1>2. CASE j.rest = <<>>
  <2>1. NextInstrument(j, done) = Finish(j.req, done)
    BY <1>2 DEF NextInstrument
  <2>. QED
    BY <1>1, <2>1, FinishTyped, JobMakers
<1>3. CASE j.rest # <<>>
  <2>1. Head(j.rest) \in Instruments /\ Tail(j.rest) \in Seq(Instruments)
    BY <1>1, <1>3
  <2>2. PICK inst \in Instruments, rest \in Seq(Instruments) :
            NextInstrument(j, done) = Begin(j.req, inst, rest, done)
    BY <1>3, <2>1 DEF NextInstrument
  <2>. QED
    BY <1>1, <2>2, BeginTyped, JobMakers
<1>. QED
  BY <1>2, <1>3

LEMMA AfterCandlesTyped ==
    \A j \in JobSet : j # Idle /\ j.pc # "answer" =>
        LET k == AfterCandles(j)
        IN /\ k \in JobSet /\ k.pc \in {"start", "answer", "evaluate"}
           /\ k.req = j.req /\ k.done = j.done
<1>. SUFFICES ASSUME NEW j \in JobSet, j # Idle, j.pc # "answer"
              PROVE  LET k == AfterCandles(j)
                     IN /\ k \in JobSet /\ k.pc \in {"start", "answer", "evaluate"}
                        /\ k.req = j.req /\ k.done = j.done
  OBVIOUS
<1>1. /\ j.req \in RequestSet /\ j.inst \in Instruments /\ j.rest \in Seq(Instruments)
      /\ j.done \in SUBSET AuditSet
  BY JobParts
<1>2. CASE j.req.kind = "sync"
  BY <1>1, <1>2, NextTyped DEF AfterCandles
<1>3. CASE j.req.kind # "sync"
  BY <1>1, <1>3 DEF AfterCandles, JobSet
<1>. QED
  BY <1>2, <1>3

LEMMA AfterCommitTyped ==
    \A j \in JobSet, row \in SignalSet : j # Idle /\ j.pc # "answer" =>
        LET k == AfterCommit(j, row)
        IN k \in JobSet /\ k.pc = "audit" /\ k.row = row /\ k.req = j.req /\ k.done = j.done
<1>. SUFFICES ASSUME NEW j \in JobSet, NEW row \in SignalSet, j # Idle, j.pc # "answer"
              PROVE  LET k == AfterCommit(j, row)
                     IN /\ k \in JobSet /\ k.pc = "audit" /\ k.row = row
                        /\ k.req = j.req /\ k.done = j.done
  OBVIOUS
<1>1. /\ j.req \in RequestSet /\ j.inst \in Instruments /\ j.rest \in Seq(Instruments)
      /\ j.done \in SUBSET AuditSet
  BY JobParts
<1>. QED
  BY <1>1 DEF AfterCommit, JobSet

(* What the arbiter leaves to be committed.                                *)
Recording(j, audit) ==
    [pc |-> "record", req |-> j.req, inst |-> j.inst, rest |-> j.rest, done |-> j.done,
     row |-> j.row, audit |-> audit]

LEMMA RecordingTyped ==
    \A j \in JobSet, audit \in AuditSet : j.pc = "audit" =>
        LET k == Recording(j, audit)
        IN /\ k \in JobSet /\ k.pc = "record" /\ k.row = j.row /\ k.audit = audit
           /\ k.req = j.req /\ k.done = j.done
<1>. SUFFICES ASSUME NEW j \in JobSet, NEW audit \in AuditSet, j.pc = "audit"
              PROVE  LET k == Recording(j, audit)
                     IN /\ k \in JobSet /\ k.pc = "record" /\ k.row = j.row
                        /\ k.audit = audit /\ k.req = j.req /\ k.done = j.done
  OBVIOUS
<1>1. /\ j.req \in RequestSet /\ j.inst \in Instruments /\ j.rest \in Seq(Instruments)
      /\ j.done \in SUBSET AuditSet /\ j.row \in SignalSet
  BY JobParts DEF Idle
<1>. QED
  BY <1>1 DEF Recording, JobSet

-----------------------------------------------------------------------------
(* A tabulated decision is a verdict, and displays or lets alert on only   *)
(* what its market cleared.                                                *)
LEMMA TabulatedDecision ==
    \A m \in Markets, f \in FlagSettings :
        /\ Decision[m][f] \in VerdictSet
        /\ Decision[m][f].display # "no_trade" \/ Decision[m][f].alert => MarketClears(m)
<1>. SUFFICES ASSUME NEW m \in Markets, NEW f \in FlagSettings
              PROVE  /\ Decision[m][f] \in VerdictSet
                     /\ Decision[m][f].display # "no_trade" \/ Decision[m][f].alert =>
                            MarketClears(m)
  OBVIOUS
<1>1. Decision[m][f] = Decide(m, f) /\ f \in FlagSet
  BY JournalAssumption
<1>2. Decide(m, f) \in VerdictSet
  <2>. DEFINE s == SelectSignal(m)
              p == Plan(s, 0, m)
              q == DataQuality(m)
              r == Rank(s, m, p, q.passed)
              rv == RiskReview(r, m, p)
  <2>1. /\ p.rejection \in Reasons
        /\ r.decision \in RankDecisions /\ r.rejection \in Reasons
        /\ rv.rejection \in Reasons
    BY ReasonsTyped
  <2>2. Decide(m, f) = Arbitrate(q, m, r, p, rv, f)
    BY DEF Decide
  <2>. HIDE DEF s, p, q, r, rv
  <2>. QED
    BY <1>1, <2>1, <2>2, VerdictTyped
<1>3. Decide(m, f).display # "no_trade" \/ Decide(m, f).alert => MarketClears(m)
  BY <1>1, DecideClears
<1>. QED
  BY <1>1, <1>2, <1>3

(* A verdict that allows an alert displays something.                      *)
Alertable(v) == v.alert => v.display \in {"trade_recommendation", "watchlist"}

LEMMA DecisionAlertable ==
    \A m \in Markets, f \in FlagSettings : Alertable(Decision[m][f])
<1>. SUFFICES ASSUME NEW m \in Markets, NEW f \in FlagSettings
              PROVE  Alertable(Decision[m][f])
  OBVIOUS
<1>1. Decision[m][f] = Decide(m, f) /\ Decision[m][f] \in VerdictSet
  BY JournalAssumption, TabulatedDecision
<1>2. Decide(m, f).alert => Decide(m, f).display # "no_trade"
  <2>. DEFINE s == SelectSignal(m)
              p == Plan(s, 0, m)
              q == DataQuality(m)
              r == Rank(s, m, p, q.passed)
              rv == RiskReview(r, m, p)
  <2>1. Decide(m, f) = Arbitrate(q, m, r, p, rv, f)
    BY DEF Decide
  <2>. HIDE DEF s, p, q, r, rv
  <2>2. PICK d, x, why : Arbitrate(q, m, r, p, rv, f) = Verdict(d, x, why, f)
    BY Zenon DEF Arbitrate
  <2>3. Verdict(d, x, why, f).alert => Verdict(d, x, why, f).display # "no_trade"
    BY DEF Verdict
  <2>. QED
    BY <2>1, <2>2, <2>3
<1>. QED
  BY <1>1, <1>2 DEF Alertable, VerdictSet, DisplayModes

-----------------------------------------------------------------------------
(* Type correctness.                                                       *)
LEMMA Bounds == MaxTime \in Nat /\ Bars = 0..MaxTime /\ 0 \in Bars
BY JournalAssumption DEF Bars

LEMMA TypeInit == Init => TypeOK
<1>. SUFFICES ASSUME Init PROVE TypeOK
  OBVIOUS
<1>1. job \in [Procs -> JobSet]
  BY DEF Init, JobSet
<1>2. answer \in [Procs -> AnswerSet]
  BY DEF Init, AnswerSet
<1>3. shown \in [Instruments -> Bars] /\ lastLive \in Bars \cup {-1}
  BY Bounds DEF Init
<1>. QED
  BY <1>1, <1>2, <1>3, Bounds DEF Init, TypeOK

LEMMA AuditTyped ==
    ASSUME TypeOK, NEW p \in Procs, NEW row \in SignalSet
    PROVE  AuditRow(p, row) \in AuditSet
<1>1. row.id \in Ids /\ row.inst \in Instruments /\ row.market \in Markets
  BY DEF SignalSet
<1>2. Decision[row.market][flags[p]] \in VerdictSet
  BY <1>1, TabulatedDecision DEF TypeOK
<1>. QED
  BY <1>1, <1>2 DEF AuditRow, AuditSet, TypeOK

LEMMA RequestTyped ==
    ASSUME TypeOK, NEW kind \in Kinds PROVE Request(kind) \in RequestSet
BY DEF TypeOK, Request, RequestSet

(* A step that changes the job of one process, to another job, keeps the   *)
(* type of the jobs; likewise for the answers.                             *)
LEMMA JobUpdate ==
    ASSUME TypeOK, NEW p \in Procs, NEW j \in JobSet, job' = [job EXCEPT ![p] = j]
    PROVE  job' \in [Procs -> JobSet] /\ job'[p] = j /\ \A q \in Procs \ {p} : job'[q] = job[q]
BY DEF TypeOK

LEMMA AnswerUpdate ==
    ASSUME TypeOK, NEW p \in Procs, NEW w \in AnswerSet, answer' = [answer EXCEPT ![p] = w]
    PROVE  /\ answer' \in [Procs -> AnswerSet] /\ answer'[p] = w
           /\ \A q \in Procs \ {p} : answer'[q] = answer[q]
BY DEF TypeOK

(* The instruments of a loop.                                              *)
LEMMA OrderTyped ==
    /\ Head(InstrumentOrder) \in Instruments
    /\ Tail(InstrumentOrder) \in Seq(Instruments)
    /\ <<>> \in Seq(Instruments)
<1>1. InstrumentOrder \in Seq(Instruments) /\ InstrumentOrder # <<>>
  BY JournalAssumption
<1>. HIDE DEF Instruments
<1>. QED
  BY <1>1

(* What a new request starts with: nothing, or the youngest audit row of   *)
(* an instrument, still fresh.                                             *)
StartsWith(done) ==
    \/ done = {}
    \/ \E a \in audits : /\ done = {a} /\ Fresh(a)
                          /\ \A b \in audits : b.inst = a.inst => b.at <= a.at

LEMMA ArrivalTakes ==
    ASSUME TypeOK, NEW p \in Procs, Arrival(p)
    PROVE  \E j \in JobSet :
               /\ Take(p, j) /\ j # Idle /\ j.pc \in {"start", "answer"}
               /\ j.req.since = now /\ j.req.seen = shown
               /\ StartsWith(j.done)
<1>1. \A kind \in Kinds : /\ Request(kind) \in RequestSet
                          /\ Request(kind).since = now /\ Request(kind).seen = shown
  BY RequestTyped DEF Request
<1>2. {} \in SUBSET AuditSet /\ StartsWith({})
  BY DEF StartsWith
<1>3. \A j : j.pc \in {"start", "answer"} => j # Idle
  BY DEF Idle
<1>4. ASSUME NEW kind \in Kinds, NEW inst \in Instruments, NEW rest \in Seq(Instruments),
             Take(p, Begin(Request(kind), inst, rest, {}))
      PROVE  \E j \in JobSet : /\ Take(p, j) /\ j # Idle /\ j.pc \in {"start", "answer"}
                               /\ j.req.since = now /\ j.req.seen = shown /\ StartsWith(j.done)
  <2>. DEFINE j == Begin(Request(kind), inst, rest, {})
  <2>1. j \in JobSet
    BY <1>1, <1>2, BeginTyped
  <2>2. j.pc = "start" /\ j.req = Request(kind) /\ j.done = {}
    BY JobMakers
  <2>3. Take(p, j)
    BY <1>4
  <2>. HIDE DEF j
  <2>4. j.req.since = now /\ j.req.seen = shown
    BY <1>1, <2>2
  <2>5. StartsWith(j.done)
    BY <1>2, <2>2
  <2>6. j # Idle /\ j.pc \in {"start", "answer"}
    BY <1>3, <2>2
  <2>. QED
    BY <2>1, <2>3, <2>4, <2>5, <2>6
<1>5. ASSUME NEW inst \in Instruments, ServeCached(p, inst)
      PROVE  \E j \in JobSet : /\ Take(p, j) /\ j # Idle /\ j.pc \in {"start", "answer"}
                               /\ j.req.since = now /\ j.req.seen = shown /\ StartsWith(j.done)
  <2>1. PICK a \in LatestAudits(inst) : Fresh(a) /\ Take(p, Finish(Request("get"), {a}))
    BY <1>5 DEF ServeCached
  <2>. DEFINE j == Finish(Request("get"), {a})
  <2>2. /\ a \in audits /\ a \in AuditSet
        /\ \A b \in audits : b.inst = a.inst => b.at <= a.at
    BY DEF LatestAudits, TypeOK
  <2>3. j \in JobSet
    BY <1>1, <2>2, FinishTyped DEF Kinds
  <2>4. j.pc = "answer" /\ j.req = Request("get") /\ j.done = {a}
    BY JobMakers
  <2>5. Take(p, j) /\ StartsWith({a})
    BY <2>1, <2>2 DEF StartsWith
  <2>. HIDE DEF j
  <2>. QED
    BY <1>1, <1>3, <2>3, <2>4, <2>5 DEF Kinds
<1>. QED
  BY <1>4, <1>5, OrderTyped DEF Arrival, PostScan, ScanInstead, ScanAll, CandleSync, Kinds

(* A job that ends without a result.                                       *)
LEMMA JobEnds ==
    ASSUME TypeOK, NEW p \in Procs, job[p] # Idle,
           job' = [job EXCEPT ![p] = Idle],
           answer' = [answer EXCEPT ![p] = Failed(job[p].req.kind)],
           UNCHANGED <<now, flags, candles, signals, audits, alerts, history>>
    PROVE  TypeOK'
<1>1. job[p] \in JobSet /\ Idle \in JobSet
  BY DEF TypeOK, JobSet
<1>2. Failed(job[p].req.kind) \in AnswerSet
  BY <1>1, JobParts, RequestParts DEF Failed, AnswerSet
<1>3. job' \in [Procs -> JobSet]
  BY <1>1, JobUpdate
<1>4. answer' \in [Procs -> AnswerSet]
  BY <1>2, AnswerUpdate
<1>. QED
  BY <1>3, <1>4 DEF TypeOK, history

(* Every step keeps the types.                                             *)
LEMMA TypeNext == TypeOK /\ [Next]_vars => TypeOK'
<1>. SUFFICES ASSUME TypeOK, [Next]_vars PROVE TypeOK'
  OBVIOUS
<1>1. ASSUME NEW p \in Procs, Step(p) PROVE TypeOK'
  <2>. DEFINE j == job[p]
  <2>1. j \in JobSet
    BY DEF TypeOK
  <2>2. CASE ReadCandleKeys(p)
    <3>. DEFINE stored == IF AwareTimestamps THEN StoredBars(j.inst) ELSE {}
                k == [pc |-> "persist", req |-> j.req, inst |-> j.inst, rest |-> j.rest,
                      done |-> j.done, missing |-> Missing(stored)]
    <3>1. /\ j # Idle /\ j.req \in RequestSet /\ j.done \in SUBSET AuditSet
          /\ j.inst \in Instruments /\ j.rest \in Seq(Instruments)
      BY <2>1, <2>2, JobParts DEF ReadCandleKeys, Idle
    <3>2. Missing(stored) \in SUBSET Bars
      BY Bounds DEF Missing, TypeOK
    <3>3. k \in JobSet
      <4>. HIDE DEF stored
      <4>. QED
        BY <3>1, <3>2 DEF JobSet
    <3>4. job' = [job EXCEPT ![p] = k]
      BY <2>2 DEF ReadCandleKeys
    <3>. HIDE DEF k
    <3>5. job' \in [Procs -> JobSet]
      BY <3>3, <3>4, JobUpdate
    <3>. QED
      BY <2>2, <3>5 DEF ReadCandleKeys, TypeOK, history
  <2>3. CASE StoreCandles(p)
    <3>1. j # Idle /\ j.pc # "answer" /\ j.inst \in Instruments /\ j.missing \in SUBSET Bars
      BY <2>1, <2>3, JobParts DEF StoreCandles, Idle
    <3>2. NewRows(j) \subseteq Instruments \X Bars
      BY <3>1 DEF NewRows
    <3>3. AfterCandles(j) \in JobSet
      BY <2>1, <3>1, AfterCandlesTyped
    <3>4. job' \in [Procs -> JobSet]
      BY <2>3, <3>3, JobUpdate DEF StoreCandles
    <3>. QED
      BY <2>3, <3>2, <3>4 DEF StoreCandles, TypeOK, history
  <2>4. CASE CandleConflict(p)
    <3>1. job[p] # Idle
      BY <2>4 DEF CandleConflict, Idle
    <3>. QED
      BY <2>4, <3>1, JobEnds DEF CandleConflict
  <2>5. CASE CommitSignal(p)
    <3>1. PICK id \in Ids \ {s.id : s \in signals}, m \in Markets :
             LET row == [id |-> id, inst |-> j.inst, market |-> m]
             IN signals' = Committed(row) /\ job' = [job EXCEPT ![p] = AfterCommit(j, row)]
      BY <2>5 DEF CommitSignal
    <3>. DEFINE row == [id |-> id, inst |-> j.inst, market |-> m]
    <3>2. j # Idle /\ j.pc # "answer" /\ j.inst \in Instruments
      BY <2>1, <2>5, JobParts DEF CommitSignal, Idle
    <3>3. row \in SignalSet
      BY <3>2 DEF SignalSet
    <3>. HIDE DEF row
    <3>4. AfterCommit(j, row) \in JobSet
      BY <2>1, <3>2, <3>3, AfterCommitTyped
    <3>5. job' \in [Procs -> JobSet]
      BY <3>1, <3>4, JobUpdate DEF row
    <3>6. signals' \subseteq SignalSet
      BY <3>1, <3>3 DEF Committed, row, TypeOK
    <3>. QED
      BY <2>5, <3>5, <3>6 DEF CommitSignal, TypeOK, history
  <2>6. CASE DecideSignal(p)
    <3>1. j.pc = "audit" /\ j.row \in SignalSet
      BY <2>1, <2>6, JobParts DEF DecideSignal
    <3>2. Recording(j, AuditRow(p, j.row)) \in JobSet
      BY <2>1, <3>1, AuditTyped, RecordingTyped
    <3>3. job' = [job EXCEPT ![p] = Recording(j, AuditRow(p, j.row))]
      BY <2>6 DEF DecideSignal, Recording
    <3>4. job' \in [Procs -> JobSet]
      BY <3>2, <3>3, JobUpdate
    <3>. QED
      BY <2>6, <3>4 DEF DecideSignal, TypeOK, history
  <2>7. CASE RecordAudit(p)
    <3>1. /\ j # Idle /\ j.pc # "answer" /\ j.audit \in AuditSet /\ j.done \in SUBSET AuditSet
      BY <2>1, <2>7, JobParts DEF RecordAudit, Idle
    <3>2. AfterAudit(j) \in JobSet
      BY <2>1, <3>1, NextTyped DEF AfterAudit
    <3>3. job' \in [Procs -> JobSet]
      BY <2>7, <3>2, JobUpdate DEF RecordAudit
    <3>4. audits' \subseteq AuditSet
      BY <2>7, <3>1 DEF RecordAudit, TypeOK
    <3>. QED
      BY <2>7, <3>3, <3>4 DEF RecordAudit, TypeOK, history
  <2>8. CASE Reply(p)
    <3>1. j # Idle /\ j.req.kind \in Kinds /\ j.done \in SUBSET AuditSet
      BY <2>1, <2>8, JobParts, RequestParts DEF Reply, Idle
    <3>2. Answered(j.req.kind, j.done) \in AnswerSet
      BY <3>1 DEF Answered, AnswerSet
    <3>3. answer' \in [Procs -> AnswerSet]
      BY <2>8, <3>2, AnswerUpdate DEF Reply
    <3>4. job' \in [Procs -> JobSet]
      BY <2>8, JobUpdate DEF Reply, JobSet
    <3>5. \A inst \in Instruments : Youngest(inst, j.done) \in Bars
      <4>. SUFFICES ASSUME NEW inst \in Instruments PROVE Youngest(inst, j.done) \in Bars
        OBVIOUS
      <4>1. shown[inst] \in Bars /\ \A a \in j.done : a.at \in Bars
        BY <3>1 DEF TypeOK, AuditSet
      <4>. QED
        BY <4>1 DEF Youngest
    <3>6. shown' \in [Instruments -> Bars]
      BY <2>8, <3>5 DEF Reply
    <3>. QED
      BY <2>8, <3>3, <3>4, <3>6 DEF Reply, TypeOK
  <2>. QED
    BY <1>1, <2>2, <2>3, <2>4, <2>5, <2>6, <2>7, <2>8 DEF Step
<1>2. ASSUME NEW p \in Procs, Arrival(p) PROVE TypeOK'
  <2>1. PICK j \in JobSet : Take(p, j)
    BY <1>2, ArrivalTakes
  <2>2. job' \in [Procs -> JobSet]
    BY <2>1, JobUpdate DEF Take
  <2>3. answer' \in [Procs -> AnswerSet]
    BY <2>1, AnswerUpdate DEF Take, AnswerSet
  <2>. QED
    BY <2>1, <2>2, <2>3 DEF Take, TypeOK, history
<1>3. ASSUME NEW p \in Procs, Abort(p) PROVE TypeOK'
  BY <1>3, JobEnds DEF Abort
<1>4. ASSUME NEW id \in AlertIds, CreateAlert(id) PROVE TypeOK'
  <2>1. alerts' \subseteq AlertSet
    BY <1>4 DEF CreateAlert, TypeOK, AlertSet, AuditSet
  <2>. QED
    BY <1>4, <2>1 DEF CreateAlert, TypeOK, history
<1>5. ASSUME NEW id \in AlertIds, DeleteAlert(id) PROVE TypeOK'
  BY <1>5 DEF DeleteAlert, TypeOK, history
<1>6. ASSUME NEW p \in Procs, Redeploy(p) PROVE TypeOK'
  <2>1. job' \in [Procs -> JobSet]
    BY <1>6, JobUpdate DEF Redeploy, JobSet
  <2>2. answer' \in [Procs -> AnswerSet]
    BY <1>6, AnswerUpdate DEF Redeploy, AnswerSet
  <2>3. flags' \in [Procs -> FlagSettings]
    BY <1>6 DEF Redeploy, TypeOK
  <2>4. lastLive' \in Bars \cup {-1}
    BY <1>6 DEF Redeploy, TypeOK
  <2>. QED
    BY <1>6, <2>1, <2>2, <2>3, <2>4 DEF Redeploy, TypeOK
<1>7. CASE Tick
  <2>1. now' \in Bars
    BY <1>7, Bounds DEF Tick, TypeOK
  <2>2. lastLive' \in Bars \cup {-1}
    BY <1>7, <2>1 DEF Tick, TypeOK
  <2>. QED
    BY <1>7, <2>1, <2>2 DEF Tick, TypeOK
<1>8. CASE UNCHANGED vars
  BY <1>8 DEF vars, TypeOK
<1>. QED
  BY <1>1, <1>2, <1>3, <1>4, <1>5, <1>6, <1>7, <1>8 DEF Next

(* Every row, job and answer has its shape: in particular every audited    *)
(* verdict is one the arbiter may give.                                    *)
THEOREM JournalTyped == Spec => []TypeOK
BY TypeInit, TypeNext, PTL DEF Spec

-----------------------------------------------------------------------------
(* Safety.  A signal waiting for its audit row is committed, nobody else   *)
(* is working on it and it has no audit row yet: that is why RecordAudit   *)
(* decides each signal once.                                               *)
Auditing(p) == job[p].pc \in {"audit", "record"}

RowsAwaited ==
    \A p \in Procs : Auditing(p) =>
        /\ job[p].row \in signals
        /\ \A a \in audits : a.signal # job[p].row.id
        /\ \A q \in Procs \ {p} : Auditing(q) => job[q].row.id # job[p].row.id

(* The verdict of an audit row rests on the market of its signal.          *)
Rests(a, s) ==
    /\ s.id = a.signal /\ s.inst = a.inst
    /\ a.verdict.display # "no_trade" \/ a.verdict.alert => MarketClears(s.market)
    /\ Alertable(a.verdict)

AuditsRest == \A a \in audits : \E s \in signals : Rests(a, s)

(* So does the verdict of a row about to be committed.                     *)
RecordsRest == \A p \in Procs : job[p].pc = "record" => Rests(job[p].audit, job[p].row)

JournalInv ==
    /\ TypeOK
    /\ RowsAwaited
    /\ RecordsRest
    /\ AuditsRest
    /\ OneAuditPerSignal
    /\ AlertedSignalsCleared

LEMMA JournalInit == Init => JournalInv
<1>. SUFFICES ASSUME Init PROVE JournalInv
  OBVIOUS
<1>1. TypeOK
  BY TypeInit
<1>2. \A p \in Procs : ~Auditing(p) /\ job[p].pc # "record"
  BY DEF Init, Auditing, Idle
<1>. QED
  BY <1>1, <1>2 DEF Init, JournalInv, RowsAwaited, RecordsRest, AuditsRest, OneAuditPerSignal,
                    AlertedSignalsCleared

(* A step that adds no audit row and starts no audit keeps the rows        *)
(* awaited and what is about to be recorded; signals may be added.         *)
StaysAuditing == \A p \in Procs : Auditing(p)' => Auditing(p) /\ job'[p] = job[p]

LEMMA RowsStayAwaited ==
    ASSUME RowsAwaited, RecordsRest, signals \subseteq signals', audits' = audits, StaysAuditing
    PROVE  RowsAwaited' /\ RecordsRest'
<1>1. RowsAwaited'
  BY DEF RowsAwaited, Auditing, StaysAuditing
<1>2. RecordsRest'
  BY DEF RecordsRest, Auditing, StaysAuditing, Rests
<1>. QED
  BY <1>1, <1>2

(* Adding signals keeps what rests on them.                                *)
LEMMA SignalsOnlyAdded ==
    ASSUME AuditsRest, OneAuditPerSignal, AlertedSignalsCleared,
           signals \subseteq signals', audits' = audits, alerts' \subseteq alerts
    PROVE  AuditsRest' /\ OneAuditPerSignal' /\ AlertedSignalsCleared'
<1>1. AuditsRest'
  BY DEF AuditsRest, Rests
<1>2. OneAuditPerSignal'
  BY DEF OneAuditPerSignal
<1>3. AlertedSignalsCleared'
  BY DEF AlertedSignalsCleared
<1>. QED
  BY <1>1, <1>2, <1>3

(* A step that starts no audit and adds neither audit row nor alert.       *)
LEMMA QuietStep ==
    ASSUME JournalInv, TypeOK', signals \subseteq signals', audits' = audits,
           alerts' \subseteq alerts, StaysAuditing
    PROVE  JournalInv'
BY RowsStayAwaited, SignalsOnlyAdded DEF JournalInv

(* The job of one process becomes one that audits nothing.                 *)
LEMMA NotAuditing ==
    ASSUME TypeOK, NEW p \in Procs, NEW j \in JobSet, job' = [job EXCEPT ![p] = j],
           j.pc \notin {"audit", "record"}
    PROVE  StaysAuditing
<1>1. job'[p] = j /\ \A q \in Procs \ {p} : job'[q] = job[q]
  BY JobUpdate
<1>. QED
  BY <1>1 DEF Auditing, StaysAuditing

LEMMA CommitKeeps ==
    ASSUME JournalInv, TypeOK', NEW p \in Procs, CommitSignal(p)
    PROVE  JournalInv'
<1>. DEFINE j == job[p]
<1>1. PICK id \in Ids \ {s.id : s \in signals}, m \in Markets :
         LET row == [id |-> id, inst |-> j.inst, market |-> m]
         IN signals' = Committed(row) /\ job' = [job EXCEPT ![p] = AfterCommit(j, row)]
  BY DEF CommitSignal
<1>. DEFINE row == [id |-> id, inst |-> j.inst, market |-> m]
<1>2. j \in JobSet /\ j # Idle /\ j.pc # "answer"
  BY DEF JournalInv, TypeOK, CommitSignal, Idle
<1>3. row \in SignalSet /\ row.id = id
  BY <1>2, JobParts DEF SignalSet
<1>4. \A s \in signals : s.id # row.id
  BY <1>1, <1>3
<1>5. signals' = signals \cup {row} /\ job' = [job EXCEPT ![p] = AfterCommit(j, row)]
      /\ audits' = audits /\ alerts' = alerts
  BY <1>1 DEF Committed, CommitSignal
<1>. HIDE DEF row
<1>6. /\ job'[p].pc = "audit" /\ job'[p].row = row
      /\ \A q \in Procs \ {p} : job'[q] = job[q]
  <2>1. AfterCommit(j, row) \in JobSet
        /\ AfterCommit(j, row).pc = "audit" /\ AfterCommit(j, row).row = row
    BY <1>2, <1>3, AfterCommitTyped
  <2>2. /\ job'[p] = AfterCommit(j, row)
        /\ \A q \in Procs \ {p} : job'[q] = job[q]
    BY <1>5, <2>1, JobUpdate DEF JournalInv
  <2>. QED
    BY <2>1, <2>2
<1>7. RowsAwaited'
  <2>. SUFFICES ASSUME NEW q \in Procs, Auditing(q)'
                PROVE  /\ job'[q].row \in signals'
                       /\ \A a \in audits' : a.signal # job'[q].row.id
                       /\ \A r \in Procs \ {q} : Auditing(r)' => job'[r].row.id # job'[q].row.id
    BY DEF RowsAwaited
  <2>1. \A a \in audits : a.signal # row.id
    BY <1>4 DEF JournalInv, AuditsRest, Rests
  <2>2. \A r \in Procs \ {p} : Auditing(r)' => /\ Auditing(r) /\ job'[r].row = job[r].row
                                               /\ job[r].row \in signals
    BY <1>6 DEF Auditing, JournalInv, RowsAwaited
  <2>3. CASE q = p
    BY <1>4, <1>5, <1>6, <2>1, <2>2, <2>3
  <2>4. CASE q # p
    <3>1. /\ job'[q].row = job[q].row /\ job[q].row \in signals /\ Auditing(q)
      BY <2>2, <2>4
    <3>2. \A a \in audits : a.signal # job[q].row.id
      BY <3>1 DEF JournalInv, RowsAwaited
    <3>3. ASSUME NEW r \in Procs \ {q}, Auditing(r)'
          PROVE  job'[r].row.id # job'[q].row.id
      <4>1. CASE r = p
        BY <1>4, <1>6, <3>1, <4>1
      <4>2. CASE r # p
        <5>1. Auditing(r) /\ job'[r].row = job[r].row
          BY <2>2, <3>3, <4>2
        <5>. QED
          BY <3>1, <5>1 DEF JournalInv, RowsAwaited
      <4>. QED
        BY <4>1, <4>2
    <3>. QED
      BY <1>5, <3>1, <3>2, <3>3
  <2>. QED
    BY <2>3, <2>4
<1>8. AuditsRest' /\ OneAuditPerSignal' /\ AlertedSignalsCleared'
  BY <1>5, SignalsOnlyAdded DEF JournalInv
<1>9. RecordsRest'
  <2>1. \A q \in Procs : job'[q].pc = "record" => job'[q] = job[q]
    BY <1>6
  <2>. QED
    BY <2>1 DEF JournalInv, RecordsRest, Rests
<1>. QED
  BY <1>7, <1>8, <1>9 DEF JournalInv

(* The arbiter's verdict rests on the market of the signal.                *)
LEMMA DecideKeeps ==
    ASSUME JournalInv, TypeOK', NEW p \in Procs, DecideSignal(p)
    PROVE  JournalInv'
<1>. DEFINE j == job[p]
            new == AuditRow(p, j.row)
            k == Recording(j, new)
<1>1. j \in JobSet /\ j.pc = "audit" /\ Auditing(p)
  BY DEF JournalInv, TypeOK, DecideSignal, Auditing
<1>2. j.row \in SignalSet /\ flags[p] \in FlagSettings
  BY <1>1, JobParts DEF JournalInv, TypeOK
<1>3. /\ signals' = signals /\ alerts' = alerts /\ audits' = audits
      /\ job' = [job EXCEPT ![p] = k]
  BY DEF DecideSignal, Recording
<1>4. new \in AuditSet /\ Rests(new, j.row)
  <2>1. new \in AuditSet
    BY <1>2, AuditTyped DEF JournalInv
  <2>2. j.row.market \in Markets
    BY <1>2 DEF SignalSet
  <2>3. new.signal = j.row.id /\ new.inst = j.row.inst
        /\ new.verdict = Decision[j.row.market][flags[p]]
    BY DEF AuditRow
  <2>. HIDE DEF new
  <2>4. Rests(new, j.row)
    BY <1>2, <2>2, <2>3, TabulatedDecision, DecisionAlertable DEF Rests
  <2>. QED
    BY <2>1, <2>4
<1>. HIDE DEF new
<1>5. k \in JobSet /\ k.pc = "record" /\ k.row = j.row /\ k.audit = new
  BY <1>1, <1>4, RecordingTyped
<1>6. job'[p] = k /\ \A q \in Procs \ {p} : job'[q] = job[q]
  BY <1>3, <1>5, JobUpdate DEF JournalInv
<1>. HIDE DEF k
<1>7. \A q \in Procs : Auditing(q)' => Auditing(q) /\ job'[q].row = job[q].row
  BY <1>1, <1>5, <1>6 DEF Auditing
<1>8. RowsAwaited'
  BY <1>3, <1>7 DEF JournalInv, RowsAwaited
<1>9. RecordsRest'
  BY <1>4, <1>5, <1>6 DEF JournalInv, RecordsRest, Rests
<1>10. AuditsRest' /\ OneAuditPerSignal' /\ AlertedSignalsCleared'
  BY <1>3, SignalsOnlyAdded DEF JournalInv
<1>. QED
  BY <1>8, <1>9, <1>10 DEF JournalInv

LEMMA RecordKeeps ==
    ASSUME JournalInv, TypeOK', NEW p \in Procs, RecordAudit(p)
    PROVE  JournalInv'
<1>. DEFINE j == job[p]
<1>1. j \in JobSet /\ j # Idle /\ j.pc = "record" /\ Auditing(p)
  BY DEF JournalInv, TypeOK, RecordAudit, Idle, Auditing
<1>2. j.row \in SignalSet /\ j.audit \in AuditSet /\ j.done \in SUBSET AuditSet
  BY <1>1, JobParts
<1>3. /\ signals' = signals /\ alerts' = alerts /\ audits' = audits \cup {j.audit}
      /\ job' = [job EXCEPT ![p] = AfterAudit(j)]
  BY DEF RecordAudit
<1>4. Rests(j.audit, j.row)
  BY <1>1 DEF JournalInv, RecordsRest
<1>5. AfterAudit(j) \in JobSet /\ AfterAudit(j).pc \notin {"audit", "record"}
  BY <1>1, <1>2, NextTyped DEF AfterAudit
<1>6. \A q \in Procs : Auditing(q)' => Auditing(q) /\ job'[q] = job[q] /\ q # p
  <2>1. job'[p] = AfterAudit(j) /\ \A q \in Procs \ {p} : job'[q] = job[q]
    BY <1>3, <1>5, JobUpdate DEF JournalInv
  <2>. QED
    BY <1>5, <2>1 DEF Auditing
<1>7. /\ j.row \in signals
      /\ \A a \in audits : a.signal # j.row.id
      /\ \A q \in Procs \ {p} : Auditing(q) => job[q].row.id # j.row.id
  BY <1>1 DEF JournalInv, RowsAwaited
<1>8. RowsAwaited'
  <2>. SUFFICES ASSUME NEW q \in Procs, Auditing(q)'
                PROVE  /\ job'[q].row \in signals'
                       /\ \A a \in audits' : a.signal # job'[q].row.id
                       /\ \A r \in Procs \ {q} : Auditing(r)' => job'[r].row.id # job'[q].row.id
    BY DEF RowsAwaited
  <2>1. Auditing(q) /\ job'[q] = job[q] /\ q # p
    BY <1>6
  <2>2. job[q].row \in signals /\ \A a \in audits : a.signal # job[q].row.id
    BY <2>1 DEF JournalInv, RowsAwaited
  <2>3. j.audit.signal # job[q].row.id
    BY <1>4, <1>7, <2>1 DEF Rests
  <2>4. \A r \in Procs \ {q} : Auditing(r)' => job'[r].row.id # job'[q].row.id
    BY <1>6, <2>1 DEF JournalInv, RowsAwaited
  <2>. QED
    BY <1>3, <2>1, <2>2, <2>3, <2>4
<1>9. AuditsRest'
  <2>1. \A a \in audits : \E s \in signals : Rests(a, s)
    BY DEF JournalInv, AuditsRest
  <2>2. \A a \in audits' : \E s \in signals' : Rests(a, s)
    BY <1>3, <1>4, <1>7, <2>1
  <2>. QED
    BY <2>2 DEF AuditsRest, Rests
<1>10. OneAuditPerSignal'
  BY <1>3, <1>4, <1>7 DEF JournalInv, OneAuditPerSignal, Rests
<1>11. AlertedSignalsCleared'
  BY <1>3 DEF JournalInv, AlertedSignalsCleared
<1>12. RecordsRest'
  <2>1. \A q \in Procs : job'[q].pc = "record" => job'[q] = job[q]
    BY <1>6 DEF Auditing
  <2>. QED
    BY <2>1 DEF JournalInv, RecordsRest, Rests
<1>. QED
  BY <1>8, <1>9, <1>10, <1>11, <1>12 DEF JournalInv

LEMMA AlertKeeps ==
    ASSUME JournalInv, TypeOK', NEW id \in AlertIds, CreateAlert(id)
    PROVE  JournalInv'
<1>1. PICK a \in audits : AlertAllowed(a) /\ alerts' = alerts \cup {[id |-> id, signal |-> a.signal]}
  BY DEF CreateAlert
<1>2. UNCHANGED <<signals, audits, job>>
  BY DEF CreateAlert
<1>3. \E s \in signals : s.id = a.signal /\ MarketClears(s.market)
  BY <1>1 DEF AlertAllowed, JournalInv, AuditsRest, Rests
<1>4. AlertedSignalsCleared'
  BY <1>1, <1>2, <1>3 DEF JournalInv, AlertedSignalsCleared
<1>5. RowsAwaited' /\ RecordsRest' /\ AuditsRest' /\ OneAuditPerSignal'
  BY <1>2 DEF JournalInv, RowsAwaited, RecordsRest, Auditing, AuditsRest, Rests, OneAuditPerSignal
<1>. QED
  BY <1>4, <1>5 DEF JournalInv

(* Every step keeps the invariant.                                         *)
LEMMA JournalNext == JournalInv /\ [Next]_vars => JournalInv'
<1>. SUFFICES ASSUME JournalInv, [Next]_vars PROVE JournalInv'
  OBVIOUS
<1>0. TypeOK /\ TypeOK'
  BY TypeNext DEF JournalInv
<1>1. ASSUME NEW p \in Procs, Step(p) PROVE JournalInv'
  <2>1. job[p] \in JobSet
    BY <1>0 DEF TypeOK
  <2>2. CASE ReadCandleKeys(p)
    <3>1. StaysAuditing
      BY <1>0, <2>2 DEF ReadCandleKeys, TypeOK, Auditing, StaysAuditing
    <3>. QED
      BY <1>0, <2>2, <3>1, QuietStep DEF ReadCandleKeys
  <2>3. CASE StoreCandles(p)
    <3>1. job[p] # Idle /\ job[p].pc # "answer"
      BY <2>3 DEF StoreCandles, Idle
    <3>2. AfterCandles(job[p]) \in JobSet /\ AfterCandles(job[p]).pc \notin {"audit", "record"}
      BY <2>1, <3>1, AfterCandlesTyped
    <3>3. StaysAuditing
      BY <1>0, <2>3, <3>2, NotAuditing DEF StoreCandles
    <3>. QED
      BY <1>0, <2>3, <3>3, QuietStep DEF StoreCandles
  <2>4. CASE CandleConflict(p)
    <3>1. StaysAuditing
      BY <1>0, <2>4 DEF CandleConflict, TypeOK, Auditing, Idle, StaysAuditing
    <3>. QED
      BY <1>0, <2>4, <3>1, QuietStep DEF CandleConflict
  <2>5. CASE CommitSignal(p)
    BY <1>0, <2>5, CommitKeeps
  <2>6. CASE DecideSignal(p)
    BY <1>0, <2>6, DecideKeeps
  <2>7. CASE RecordAudit(p)
    BY <1>0, <2>7, RecordKeeps
  <2>8. CASE Reply(p)
    <3>1. StaysAuditing
      BY <1>0, <2>8 DEF Reply, TypeOK, Auditing, Idle, StaysAuditing
    <3>. QED
      BY <1>0, <2>8, <3>1, QuietStep DEF Reply
  <2>. QED
    BY <1>1, <2>2, <2>3, <2>4, <2>5, <2>6, <2>7, <2>8 DEF Step
<1>2. ASSUME NEW p \in Procs, Arrival(p) PROVE JournalInv'
  <2>1. PICK j \in JobSet : Take(p, j) /\ j.pc \in {"start", "answer"}
    BY <1>0, <1>2, ArrivalTakes
  <2>2. StaysAuditing
    BY <1>0, <2>1, NotAuditing DEF Take
  <2>. QED
    BY <1>0, <2>1, <2>2, QuietStep DEF Take
<1>3. ASSUME NEW p \in Procs, Abort(p) \/ Redeploy(p) PROVE JournalInv'
  <2>1. StaysAuditing
    BY <1>0, <1>3 DEF Abort, Redeploy, TypeOK, Auditing, Idle, StaysAuditing
  <2>. QED
    BY <1>0, <1>3, <2>1, QuietStep DEF Abort, Redeploy
<1>4. ASSUME NEW id \in AlertIds, CreateAlert(id) PROVE JournalInv'
  BY <1>0, <1>4, AlertKeeps
<1>5. ASSUME NEW id \in AlertIds, DeleteAlert(id) PROVE JournalInv'
  BY <1>0, <1>5, QuietStep DEF DeleteAlert, Auditing, StaysAuditing
<1>6. CASE Tick \/ UNCHANGED vars
  BY <1>0, <1>6, QuietStep DEF Tick, vars, Auditing, StaysAuditing
<1>. QED
  BY <1>1, <1>2, <1>3, <1>4, <1>5, <1>6 DEF Next

LEMMA JournalHolds == Spec => []JournalInv
BY JournalInit, JournalNext, PTL DEF Spec

(* A signal is decided at most once, whichever process scanned it.         *)
THEOREM DecidedOnce == Spec => []OneAuditPerSignal
BY JournalHolds, PTL DEF JournalInv

(* No audit row tells of rolled back work or mixes two scans.              *)
THEOREM AuditsRestOnCommitted == Spec => []AuditRefersToCommitted
<1>1. JournalInv => AuditRefersToCommitted
  BY DEF JournalInv, AuditsRest, Rests, AuditRefersToCommitted
<1>. QED
  BY <1>1, JournalHolds, PTL

(* Whatever is alerted on was scanned from a market that clears the gates. *)
THEOREM AlertsClear == Spec => []AlertedSignalsCleared
BY JournalHolds, PTL DEF JournalInv

-----------------------------------------------------------------------------
(* Without failures no decision goes unjournaled: a committed signal is    *)
(* audited, or held by the process that committed it.                      *)
LEMMA JournaledNext ==
    ASSUME ~MayFail, TypeOK, JournalInv, EveryDecisionJournaled, [Next]_vars
    PROVE  EveryDecisionJournaled'
<1>1. ASSUME signals' = signals, audits' = audits,
             \A p \in Procs : Auditing(p) => job'[p] = job[p]
      PROVE  EveryDecisionJournaled'
  BY <1>1 DEF EveryDecisionJournaled, Auditing
<1>2. ASSUME NEW p \in Procs, Step(p) PROVE EveryDecisionJournaled'
  <2>1. job[p] \in JobSet
    BY DEF TypeOK
  <2>2. CASE ReadCandleKeys(p) \/ StoreCandles(p) \/ CandleConflict(p)
    BY <1>1, <2>2 DEF ReadCandleKeys, StoreCandles, CandleConflict, TypeOK, Auditing
  <2>3. CASE CommitSignal(p)
    <3>. DEFINE j == job[p]
    <3>1. PICK id \in Ids \ {s.id : s \in signals}, m \in Markets :
             LET row == [id |-> id, inst |-> j.inst, market |-> m]
             IN signals' = Committed(row) /\ job' = [job EXCEPT ![p] = AfterCommit(j, row)]
      BY <2>3 DEF CommitSignal
    <3>. DEFINE row == [id |-> id, inst |-> j.inst, market |-> m]
    <3>2. j # Idle /\ j.pc # "answer" /\ j.inst \in Instruments
      BY <2>1, <2>3, JobParts DEF CommitSignal, Idle
    <3>3. row \in SignalSet
      BY <3>2 DEF SignalSet
    <3>. HIDE DEF row
    <3>4. AfterCommit(j, row) \in JobSet
          /\ AfterCommit(j, row).pc = "audit" /\ AfterCommit(j, row).row = row
      BY <2>1, <3>2, <3>3, AfterCommitTyped
    <3>5. job'[p] = AfterCommit(j, row) /\ \A q \in Procs \ {p} : job'[q] = job[q]
      BY <3>1, <3>4, JobUpdate DEF row
    <3>6. signals' = signals \cup {row} /\ audits' = audits
      BY <2>3, <3>1 DEF Committed, row, CommitSignal
    <3>7. \A q \in Procs : Auditing(q) => job'[q] = job[q]
      BY <2>3, <3>5 DEF CommitSignal, Auditing
    <3>. QED
      BY <3>4, <3>5, <3>6, <3>7 DEF EveryDecisionJournaled, Auditing
  <2>4. CASE DecideSignal(p)
    <3>1. job' = [job EXCEPT ![p] = Recording(job[p], AuditRow(p, job[p].row))]
          /\ signals' = signals /\ audits' = audits
      BY <2>4 DEF DecideSignal, Recording
    <3>2. /\ job'[p].pc = "record" /\ job'[p].row = job[p].row
          /\ \A q \in Procs \ {p} : job'[q] = job[q]
      BY <3>1 DEF Recording, TypeOK
    <3>. QED
      BY <2>4, <3>1, <3>2 DEF EveryDecisionJournaled, DecideSignal
  <2>5. CASE RecordAudit(p)
    <3>1. audits' = audits \cup {job[p].audit} /\ signals' = signals /\ job[p].pc = "record"
      BY <2>5 DEF RecordAudit
    <3>2. job[p].audit.signal = job[p].row.id
      BY <3>1 DEF JournalInv, RecordsRest, Rests
    <3>3. \A q \in Procs \ {p} : job'[q] = job[q]
      BY <2>5 DEF RecordAudit, TypeOK
    <3>. QED
      BY <3>1, <3>2, <3>3 DEF EveryDecisionJournaled
  <2>6. CASE Reply(p)
    BY <1>1, <2>6 DEF Reply, TypeOK, Auditing
  <2>. QED
    BY <1>2, <2>2, <2>3, <2>4, <2>5, <2>6 DEF Step
<1>3. ASSUME NEW p \in Procs, Arrival(p) PROVE EveryDecisionJournaled'
  <2>1. PICK j \in JobSet : Take(p, j)
    BY <1>3, ArrivalTakes
  <2>. QED
    BY <1>1, <2>1 DEF Take, TypeOK, Auditing, Idle
<1>4. ASSUME NEW id \in AlertIds, CreateAlert(id) \/ DeleteAlert(id)
      PROVE  EveryDecisionJournaled'
  BY <1>1, <1>4 DEF CreateAlert, DeleteAlert
<1>5. CASE Tick \/ UNCHANGED vars
  BY <1>1, <1>5 DEF Tick, vars
<1>6. \A p \in Procs : ~Redeploy(p) /\ ~Abort(p)
  BY DEF Redeploy, Abort
<1>. QED
  BY <1>2, <1>3, <1>4, <1>5, <1>6 DEF Next

(* Where no request fails and nothing restarts, every committed signal     *)
(* gets its audit row from the scan that committed it.                     *)
THEOREM JournaledWithoutFailures ==
    ASSUME ~MayFail PROVE Spec => []EveryDecisionJournaled
<1>1. Init => EveryDecisionJournaled
  BY DEF Init, EveryDecisionJournaled
<1>2. TypeOK /\ JournalInv /\ EveryDecisionJournaled /\ [Next]_vars => EveryDecisionJournaled'
  BY JournaledNext
<1>. QED
  BY <1>1, <1>2, JournalTyped, JournalHolds, PTL DEF Spec

-----------------------------------------------------------------------------
(* Answers.  What has been shown is in the audit log, or nothing; what a   *)
(* request will answer with is in the log too, or about to be, and as      *)
(* young as what had been shown when the request began.                    *)
AsYoung(req, a) == req.seen[a.inst] <= a.at

ShownIsJournaled ==
    \A inst \in Instruments :
        shown[inst] = 0 \/ \E a \in audits : a.inst = inst /\ a.at = shown[inst]

JobForward(p) ==
    /\ job[p] # Idle =>
          /\ job[p].done \subseteq audits
          /\ \A inst \in Instruments : job[p].req.seen[inst] <= now
          /\ \A a \in job[p].done : AsYoung(job[p].req, a)
    /\ job[p].pc = "record" => AsYoung(job[p].req, job[p].audit) /\ job[p].audit.at <= now

AnswersInv ==
    /\ TypeOK
    /\ \A a \in audits : a.at <= now
    /\ ShownIsJournaled
    /\ \A p \in Procs : JobForward(p)

LEMMA AnswersInit == Init => AnswersInv
<1>. SUFFICES ASSUME Init PROVE AnswersInv
  OBVIOUS
<1>1. \A p \in Procs : job[p] = Idle /\ job[p].pc # "record"
  BY DEF Init, Idle
<1>. QED
  BY <1>1, TypeInit DEF Init, AnswersInv, ShownIsJournaled, JobForward

LEMMA Ordered ==
    ASSUME TypeOK
    PROVE  /\ now \in Int /\ lastLive \in Int /\ FreshTicks \in Int
           /\ \A a \in AuditSet : a.at \in Int /\ 0 <= a.at /\ a.inst \in Instruments
           /\ \A a \in audits : a \in AuditSet
           /\ \A inst \in Instruments : shown[inst] \in Int
           /\ \A r \in RequestSet : /\ r.since \in Int
                                    /\ \A inst \in Instruments : r.seen[inst] \in Int
BY Bounds, RequestParts, JournalAssumption DEF TypeOK, AuditSet

(* A step that adds nothing to what is shown, and leaves every job alone   *)
(* or ends it or moves it on without a new decision.                       *)
LEMMA ForwardStays ==
    ASSUME AnswersInv, TypeOK', audits' = audits, shown' = shown, now <= now',
           \A p \in Procs :
               \/ job'[p] = job[p]
               \/ job'[p] = Idle
               \/ /\ job[p] # Idle /\ job'[p].pc # "record"
                  /\ job'[p].req = job[p].req /\ job'[p].done = job[p].done
    PROVE  AnswersInv'
<1>0. TypeOK
  BY DEF AnswersInv
<1>1. now \in Int /\ now' \in Int /\ \A a \in audits : a.at \in Int
  <2>1. now' \in Int
    BY Bounds DEF TypeOK
  <2>. QED
    BY <1>0, <2>1, Ordered
<1>2. \A a \in audits' : a.at <= now'
  BY <1>1 DEF AnswersInv
<1>3. ShownIsJournaled'
  BY DEF AnswersInv, ShownIsJournaled
<1>4. ASSUME NEW p \in Procs PROVE JobForward(p)'
  <2>1. job[p] \in JobSet /\ JobForward(p)
    BY DEF AnswersInv, TypeOK
  <2>2. Idle.pc # "record"
    BY DEF Idle
  <2>3. job[p] # Idle => \A inst \in Instruments : job[p].req.seen[inst] \in Int
    BY <2>1, JobParts, Ordered DEF AnswersInv
  <2>4. job[p] # Idle => \A inst \in Instruments : job[p].req.seen[inst] <= now'
    BY <1>1, <2>1, <2>3 DEF JobForward
  <2>5. job[p].pc = "record" => job[p].audit.at <= now'
    <3>1. job[p].pc = "record" => job[p].audit.at \in Int
      BY <2>1, JobParts, Ordered DEF AnswersInv
    <3>. QED
      BY <1>1, <2>1, <3>1 DEF JobForward
  <2>6. CASE job'[p] = job[p]
    BY <2>1, <2>4, <2>5, <2>6 DEF JobForward, AsYoung
  <2>7. CASE job'[p] = Idle
    BY <2>2, <2>7 DEF JobForward
  <2>8. CASE /\ job[p] # Idle /\ job'[p].pc # "record"
             /\ job'[p].req = job[p].req /\ job'[p].done = job[p].done
    BY <2>1, <2>4, <2>8 DEF JobForward, AsYoung
  <2>. QED
    BY <2>6, <2>7, <2>8
<1>. QED
  BY <1>2, <1>3, <1>4 DEF AnswersInv

(* The youngest audit row is as young as what has been shown.              *)
LEMMA ArrivalForward ==
    ASSUME AnswersInv, TypeOK', NEW p \in Procs, Arrival(p)
    PROVE  AnswersInv'
<1>1. PICK j \in JobSet : /\ Take(p, j) /\ j # Idle /\ j.pc \in {"start", "answer"}
                         /\ j.req.since = now /\ j.req.seen = shown /\ StartsWith(j.done)
  BY ArrivalTakes DEF AnswersInv
<1>2. job'[p] = j /\ \A q \in Procs \ {p} : job'[q] = job[q]
  BY <1>1, JobUpdate DEF Take, AnswersInv
<1>3. UNCHANGED <<now, audits, shown>>
  BY <1>1 DEF Take, history
<1>4. \A inst \in Instruments : shown[inst] <= now
  <2>1. 0 <= now
    BY Bounds DEF AnswersInv, TypeOK
  <2>. QED
    BY <2>1 DEF AnswersInv, ShownIsJournaled
<1>5. \A a \in j.done : a \in audits /\ shown[a.inst] <= a.at
  <2>. SUFFICES ASSUME NEW a \in j.done PROVE a \in audits /\ shown[a.inst] <= a.at
    OBVIOUS
  <2>1. a \in audits /\ \A b \in audits : b.inst = a.inst => b.at <= a.at
    BY <1>1 DEF StartsWith
  <2>2. a.inst \in Instruments /\ a.at \in Int /\ 0 <= a.at
    BY <2>1, Ordered DEF AnswersInv
  <2>. QED
    BY <2>1, <2>2 DEF AnswersInv, ShownIsJournaled
<1>6. JobForward(p)'
  BY <1>1, <1>2, <1>3, <1>4, <1>5 DEF JobForward, AsYoung
<1>7. \A q \in Procs \ {p} : JobForward(q)'
  BY <1>2, <1>3 DEF AnswersInv, JobForward, AsYoung
<1>. QED
  BY <1>3, <1>6, <1>7 DEF AnswersInv, ShownIsJournaled

(* A decision is stamped after its request began.                          *)
LEMMA DecideForward ==
    ASSUME AnswersInv, TypeOK', NEW p \in Procs, DecideSignal(p)
    PROVE  AnswersInv'
<1>. DEFINE j == job[p]
            new == AuditRow(p, j.row)
            k == Recording(j, new)
<1>1. j \in JobSet /\ j.pc = "audit" /\ j # Idle /\ JobForward(p)
  BY DEF AnswersInv, TypeOK, DecideSignal, Idle
<1>2. new.at = now /\ new.inst \in Instruments /\ new \in AuditSet
  <2>1. j.row \in SignalSet
    BY <1>1, JobParts
  <2>2. new \in AuditSet
    BY <2>1, AuditTyped DEF AnswersInv
  <2>. QED
    BY <2>2 DEF AuditRow, AuditSet
<1>3. job' = [job EXCEPT ![p] = k] /\ UNCHANGED <<now, audits, shown>>
  BY DEF DecideSignal, Recording, history
<1>. HIDE DEF new
<1>4. /\ k \in JobSet /\ k.pc = "record" /\ k.audit = new
      /\ k.req = j.req /\ k.done = j.done
  BY <1>1, <1>2, RecordingTyped
<1>5. job'[p] = k /\ \A q \in Procs \ {p} : job'[q] = job[q]
  BY <1>3, <1>4, JobUpdate DEF AnswersInv
<1>. HIDE DEF k
<1>6. JobForward(p)'
  <2>1. now \in Int /\ new.at <= now /\ AsYoung(j.req, new)
    BY <1>1, <1>2, Ordered DEF JobForward, AsYoung, AnswersInv
  <2>. QED
    BY <1>1, <1>3, <1>4, <1>5, <2>1 DEF JobForward, AsYoung
<1>7. \A q \in Procs \ {p} : JobForward(q)'
  BY <1>3, <1>5 DEF AnswersInv, JobForward, AsYoung
<1>. QED
  BY <1>3, <1>6, <1>7 DEF AnswersInv, ShownIsJournaled

LEMMA RecordForward ==
    ASSUME AnswersInv, TypeOK', NEW p \in Procs, RecordAudit(p)
    PROVE  AnswersInv'
<1>. DEFINE j == job[p]
            k == AfterAudit(j)
<1>1. j \in JobSet /\ j.pc = "record" /\ j # Idle /\ JobForward(p)
  BY DEF AnswersInv, TypeOK, RecordAudit, Idle
<1>2. /\ job' = [job EXCEPT ![p] = k] /\ audits' = audits \cup {j.audit}
      /\ UNCHANGED <<now, shown>>
  BY DEF RecordAudit, history
<1>3. j.done \cup {j.audit} \in SUBSET AuditSet
  BY <1>1, JobParts
<1>4. /\ k \in JobSet /\ k.pc \in {"start", "answer"}
      /\ k.req = j.req /\ k.done = j.done \cup {j.audit}
  BY <1>1, <1>3, NextTyped DEF AfterAudit
<1>. HIDE DEF k
<1>5. job'[p] = k /\ \A q \in Procs \ {p} : job'[q] = job[q]
  BY <1>2, <1>4, JobUpdate DEF AnswersInv
<1>6. JobForward(p)'
  BY <1>1, <1>2, <1>4, <1>5 DEF JobForward, AsYoung
<1>7. \A q \in Procs \ {p} : JobForward(q)'
  BY <1>2, <1>5 DEF AnswersInv, JobForward, AsYoung
<1>8. \A a \in audits' : a.at <= now'
  BY <1>1, <1>2 DEF AnswersInv, JobForward
<1>9. ShownIsJournaled'
  BY <1>2 DEF AnswersInv, ShownIsJournaled
<1>. QED
  BY <1>6, <1>7, <1>8, <1>9 DEF AnswersInv

LEMMA ReplyForward ==
    ASSUME AnswersInv, TypeOK', NEW p \in Procs, Reply(p)
    PROVE  AnswersInv'
<1>. DEFINE j == job[p]
<1>1. j \in JobSet /\ j.pc = "answer" /\ j # Idle /\ j.done \subseteq audits
  BY DEF AnswersInv, TypeOK, Reply, Idle, JobForward
<1>2. /\ UNCHANGED <<now, audits>> /\ job' = [job EXCEPT ![p] = Idle]
      /\ shown' = [inst \in Instruments |-> Youngest(inst, j.done)]
  BY DEF Reply
<1>3. job'[p] = Idle /\ \A q \in Procs \ {p} : job'[q] = job[q]
  BY <1>2 DEF AnswersInv, TypeOK
<1>4. ShownIsJournaled'
  <2>. SUFFICES ASSUME NEW inst \in Instruments
                PROVE  \/ Youngest(inst, j.done) = 0
                       \/ \E a \in audits : a.inst = inst /\ a.at = Youngest(inst, j.done)
    BY <1>2 DEF ShownIsJournaled
  <2>1. CASE \E a \in j.done : a.inst = inst /\ a.at > shown[inst]
    BY <1>1, <2>1 DEF Youngest
  <2>2. CASE ~\E a \in j.done : a.inst = inst /\ a.at > shown[inst]
    BY <2>2 DEF Youngest, AnswersInv, ShownIsJournaled
  <2>. QED
    BY <2>1, <2>2
<1>5. JobForward(p)'
  BY <1>3 DEF JobForward, Idle
<1>6. \A q \in Procs \ {p} : JobForward(q)'
  BY <1>2, <1>3 DEF AnswersInv, JobForward, AsYoung
<1>. QED
  BY <1>2, <1>4, <1>5, <1>6 DEF AnswersInv

LEMMA AnswersNext == AnswersInv /\ [Next]_vars => AnswersInv'
<1>. SUFFICES ASSUME AnswersInv, [Next]_vars PROVE AnswersInv'
  OBVIOUS
<1>0. TypeOK /\ TypeOK'
  BY TypeNext DEF AnswersInv
<1>1. now \in Int /\ now <= now
  BY <1>0, Ordered
<1>2. ASSUME NEW p \in Procs, NEW j, job' = [job EXCEPT ![p] = j],
             UNCHANGED <<now, audits, shown>>,
             \/ j = Idle
             \/ /\ job[p] # Idle /\ j.pc # "record"
                /\ j.req = job[p].req /\ j.done = job[p].done
      PROVE  AnswersInv'
  <2>1. job'[p] = j /\ \A q \in Procs \ {p} : job'[q] = job[q]
    BY <1>0, <1>2 DEF TypeOK
  <2>. QED
    BY <1>0, <1>1, <1>2, <2>1, ForwardStays
<1>3. ASSUME NEW p \in Procs, Step(p) PROVE AnswersInv'
  <2>1. job[p] \in JobSet
    BY <1>0 DEF TypeOK
  <2>2. CASE ReadCandleKeys(p)
    <3>. DEFINE j == job[p]
                k == [pc |-> "persist", req |-> j.req, inst |-> j.inst, rest |-> j.rest,
                      done |-> j.done,
                      missing |-> Missing(IF AwareTimestamps THEN StoredBars(j.inst) ELSE {})]
    <3>1. k.pc # "record" /\ k.req = j.req /\ k.done = j.done
      OBVIOUS
    <3>2. /\ job[p] # Idle /\ job' = [job EXCEPT ![p] = k]
          /\ UNCHANGED <<now, audits, shown>>
      BY <2>2 DEF ReadCandleKeys, history, Idle
    <3>. HIDE DEF k
    <3>. QED
      BY <1>2, <3>1, <3>2
  <2>3. CASE StoreCandles(p)
    <3>1. job[p] # Idle /\ job[p].pc # "answer"
      BY <2>3 DEF StoreCandles, Idle
    <3>2. /\ AfterCandles(job[p]).pc # "record"
          /\ AfterCandles(job[p]).req = job[p].req /\ AfterCandles(job[p]).done = job[p].done
      BY <2>1, <3>1, AfterCandlesTyped
    <3>. QED
      BY <1>2, <2>3, <3>1, <3>2 DEF StoreCandles, history
  <2>4. CASE CandleConflict(p)
    BY <1>2, <2>4 DEF CandleConflict, history
  <2>5. CASE CommitSignal(p)
    <3>1. PICK row : job' = [job EXCEPT ![p] = AfterCommit(job[p], row)]
      BY <2>5 DEF CommitSignal
    <3>2. /\ AfterCommit(job[p], row).pc # "record"
          /\ AfterCommit(job[p], row).req = job[p].req
          /\ AfterCommit(job[p], row).done = job[p].done
      BY DEF AfterCommit
    <3>3. job[p] # Idle /\ UNCHANGED <<now, audits, shown>>
      BY <2>5 DEF CommitSignal, history, Idle
    <3>. QED
      BY <1>2, <3>1, <3>2, <3>3
  <2>6. CASE DecideSignal(p)
    BY <1>0, <2>6, DecideForward
  <2>7. CASE RecordAudit(p)
    BY <1>0, <2>7, RecordForward
  <2>8. CASE Reply(p)
    BY <1>0, <2>8, ReplyForward
  <2>. QED
    BY <1>3, <2>2, <2>3, <2>4, <2>5, <2>6, <2>7, <2>8 DEF Step
<1>4. ASSUME NEW p \in Procs, Arrival(p) PROVE AnswersInv'
  BY <1>0, <1>4, ArrivalForward
<1>5. ASSUME NEW p \in Procs, Abort(p) \/ Redeploy(p) PROVE AnswersInv'
  BY <1>2, <1>5 DEF Abort, Redeploy, history
<1>6. ASSUME audits' = audits, shown' = shown, job' = job, now <= now' PROVE AnswersInv'
  BY <1>0, <1>6, ForwardStays
<1>7. ASSUME NEW id \in AlertIds, CreateAlert(id) \/ DeleteAlert(id) PROVE AnswersInv'
  BY <1>1, <1>6, <1>7 DEF CreateAlert, DeleteAlert, history
<1>8. CASE Tick
  BY <1>1, <1>6, <1>8 DEF Tick
<1>9. CASE UNCHANGED vars
  BY <1>1, <1>6, <1>9 DEF vars
<1>. QED
  BY <1>3, <1>4, <1>5, <1>7, <1>8, <1>9 DEF Next

(* Only Reply answers with decisions, and with those its job holds.        *)
LEMMA OnlyReplyAnswers ==
    ASSUME TypeOK, [Next]_vars,
           NEW p \in Procs, answer'[p] # answer[p], answer'[p].status = "ok"
    PROVE  job[p].pc = "answer" /\ job[p] # Idle /\ answer'[p].audits = job[p].done
<1>1. answer' # answer
  OBVIOUS
<1>2. \A q \in Procs : ~Arrival(q)
  <2>. SUFFICES ASSUME NEW q \in Procs, Arrival(q) PROVE FALSE
    OBVIOUS
  <2>1. PICK j : Take(q, j)
    BY ArrivalTakes
  <2>. QED
    BY <2>1 DEF Take, NoAnswer, TypeOK
<1>3. \A q \in Procs : ~CandleConflict(q) /\ ~Abort(q) /\ ~Redeploy(q)
  BY DEF CandleConflict, Abort, Redeploy, Failed, NoAnswer, TypeOK
<1>4. PICK q \in Procs : Reply(q)
  BY <1>1, <1>2, <1>3 DEF Next, Step, ReadCandleKeys, StoreCandles, CommitSignal, DecideSignal,
        RecordAudit, CreateAlert, DeleteAlert, Tick, vars
<1>5. q = p /\ answer'[p] = Answered(job[p].req.kind, job[p].done)
  BY <1>4 DEF Reply, TypeOK
<1>. QED
  BY <1>4, <1>5 DEF Reply, Answered, Idle

(* What AnswersGoForward asks of a step.                                   *)
ForwardStep ==
    \A p \in Procs :
        answer'[p] # answer[p] /\ answer'[p].status = "ok" =>
            \A a \in answer'[p].audits : job[p].req.seen[a.inst] <= a.at

LEMMA StepsForward == AnswersInv /\ [Next]_vars => ForwardStep
<1>. SUFFICES ASSUME AnswersInv, [Next]_vars,
                     NEW p \in Procs, answer'[p] # answer[p], answer'[p].status = "ok"
              PROVE  \A a \in answer'[p].audits : job[p].req.seen[a.inst] <= a.at
  BY DEF ForwardStep
<1>. QED
  BY OnlyReplyAnswers DEF AnswersInv, JobForward, AsYoung

(* Once a decision of an instrument has been answered, no later request is *)
(* answered with an older one, whatever order the audit rows commit in and *)
(* however many instruments a scan gathers before it answers.              *)
THEOREM AnswersForward == Spec => AnswersGoForward
<1>1. AnswersInv /\ [Next]_vars => [ForwardStep]_vars
  BY StepsForward
<1>2. Spec => [][ForwardStep]_vars
  BY <1>1, AnswersInit, AnswersNext, PTL DEF Spec
<1>. QED
  BY <1>2 DEF AnswersGoForward, ForwardStep

-----------------------------------------------------------------------------
(* A trade recommendation is decided by a process able to recommend only.  *)
LEMMA RecommendingDecision ==
    \A m \in Markets, f \in FlagSettings :
        Decision[m][f].display = "trade_recommendation" => Recommends(f)
<1>. SUFFICES ASSUME NEW m \in Markets, NEW f \in FlagSettings,
                     Decision[m][f].display = "trade_recommendation"
              PROVE  Recommends(f)
  OBVIOUS
<1>1. Decision[m][f] = Decide(m, f) /\ f \in FlagSet
  BY JournalAssumption
<1>. DEFINE s == SelectSignal(m)
            pl == Plan(s, 0, m)
            q == DataQuality(m)
            r == Rank(s, m, pl, q.passed)
            rv == RiskReview(r, m, pl)
<1>2. Decide(m, f) = Arbitrate(q, m, r, pl, rv, f)
  BY DEF Decide
<1>. HIDE DEF s, pl, q, r, rv
<1>. QED
  BY <1>1, <1>2, RecommendedIsLive DEF Recommends

(* A recommendation was stamped no later than the last tick some process   *)
(* could recommend at, and whoever holds one began its request in time.    *)
Recommendation(a) == a.verdict.display = "trade_recommendation"

JobLapses(p) ==
    /\ job[p] # Idle =>
          /\ job[p].req.since <= now
          /\ \A a \in job[p].done :
                Recommendation(a) => job[p].req.since <= lastLive + FreshTicks
    /\ job[p].pc = "record" /\ Recommendation(job[p].audit) =>
          job[p].audit.at <= lastLive /\ job[p].req.since <= lastLive

LapseInv ==
    /\ TypeOK
    /\ lastLive <= now /\ (SomeRecommends(flags) => lastLive = now)
    /\ \A a \in audits : Recommendation(a) => a.at <= lastLive
    /\ \A p \in Procs : JobLapses(p)

LEMMA LapseInit == Init => LapseInv
<1>. SUFFICES ASSUME Init PROVE LapseInv
  OBVIOUS
<1>1. \A p \in Procs : job[p] = Idle /\ job[p].pc # "record"
  BY DEF Init, Idle
<1>2. lastLive <= now /\ (SomeRecommends(flags) => lastLive = now)
  BY DEF Init
<1>. QED
  BY <1>1, <1>2, TypeInit DEF Init, LapseInv, JobLapses

(* A step that decides nothing and finishes nothing.                       *)
LEMMA LapseStays ==
    ASSUME LapseInv, TypeOK', audits' = audits,
           now <= now', lastLive <= lastLive', lastLive' <= now',
           SomeRecommends(flags') => lastLive' = now',
           \A p \in Procs :
               \/ job'[p] = job[p]
               \/ job'[p] = Idle
               \/ /\ job[p] # Idle /\ job'[p].pc # "record"
                  /\ job'[p].req = job[p].req /\ job'[p].done = job[p].done
    PROVE  LapseInv'
<1>0. TypeOK
  BY DEF LapseInv
<1>1. /\ now \in Int /\ now' \in Int /\ lastLive \in Int /\ lastLive' \in Int
      /\ FreshTicks \in Int /\ \A a \in audits : a.at \in Int
  <2>1. now' \in Int /\ lastLive' \in Int
    BY Bounds DEF TypeOK
  <2>. QED
    BY <1>0, <2>1, Ordered
<1>2. \A a \in audits' : Recommendation(a) => a.at <= lastLive'
  BY <1>1 DEF LapseInv
<1>3. ASSUME NEW p \in Procs PROVE JobLapses(p)'
  <2>1. job[p] \in JobSet /\ JobLapses(p)
    BY DEF LapseInv, TypeOK
  <2>2. Idle.pc # "record"
    BY DEF Idle
  <2>3. job[p] # Idle => job[p].req.since \in Int
    BY <1>0, <2>1, JobParts, Ordered
  <2>4. job[p].pc = "record" => job[p].audit.at \in Int /\ job[p] # Idle
    BY <1>0, <2>1, <2>2, JobParts, Ordered
  <2>5. job[p] # Idle =>
           /\ job[p].req.since <= now'
           /\ \A a \in job[p].done :
                 Recommendation(a) => job[p].req.since <= lastLive' + FreshTicks
    BY <1>1, <2>1, <2>3 DEF JobLapses
  <2>6. job[p].pc = "record" /\ Recommendation(job[p].audit) =>
           job[p].audit.at <= lastLive' /\ job[p].req.since <= lastLive'
    BY <1>1, <2>1, <2>3, <2>4 DEF JobLapses
  <2>7. CASE job'[p] = job[p]
    BY <2>5, <2>6, <2>7 DEF JobLapses, Recommendation
  <2>8. CASE job'[p] = Idle
    BY <2>2, <2>8 DEF JobLapses
  <2>9. CASE /\ job[p] # Idle /\ job'[p].pc # "record"
             /\ job'[p].req = job[p].req /\ job'[p].done = job[p].done
    BY <2>5, <2>9 DEF JobLapses, Recommendation
  <2>. QED
    BY <2>7, <2>8, <2>9
<1>. QED
  BY <1>2, <1>3 DEF LapseInv, Recommendation

LEMMA ArrivalLapses ==
    ASSUME LapseInv, TypeOK', NEW p \in Procs, Arrival(p)
    PROVE  LapseInv'
<1>0. TypeOK
  BY DEF LapseInv
<1>1. PICK j \in JobSet : /\ Take(p, j) /\ j # Idle /\ j.pc \in {"start", "answer"}
                         /\ j.req.since = now /\ j.req.seen = shown /\ StartsWith(j.done)
  BY <1>0, ArrivalTakes
<1>2. job'[p] = j /\ \A q \in Procs \ {p} : job'[q] = job[q]
  BY <1>0, <1>1, JobUpdate DEF Take
<1>3. UNCHANGED <<now, flags, audits, lastLive>>
  BY <1>1 DEF Take, history
<1>4. \A a \in j.done : Recommendation(a) => now <= lastLive + FreshTicks
  <2>. SUFFICES ASSUME NEW a \in j.done, Recommendation(a)
                PROVE  now <= lastLive + FreshTicks
    OBVIOUS
  <2>1. a \in audits /\ a.at >= now - FreshTicks
    BY <1>1 DEF StartsWith, Fresh
  <2>2. a.at <= lastLive
    BY <2>1 DEF LapseInv
  <2>3. a.at \in Int /\ now \in Int /\ lastLive \in Int /\ FreshTicks \in Int
    BY <1>0, <2>1, Ordered
  <2>. QED
    BY <2>1, <2>2, <2>3
<1>5. JobLapses(p)'
  <2>1. now <= now
    BY <1>0, Ordered
  <2>. QED
    BY <1>1, <1>2, <1>3, <1>4, <2>1 DEF JobLapses, Recommendation
<1>6. \A q \in Procs \ {p} : JobLapses(q)'
  BY <1>2, <1>3 DEF LapseInv, JobLapses, Recommendation
<1>. QED
  BY <1>3, <1>5, <1>6 DEF LapseInv, Recommendation, SomeRecommends

(* Whoever decides a recommendation is able to recommend now.              *)
LEMMA DecideLapses ==
    ASSUME LapseInv, TypeOK', NEW p \in Procs, DecideSignal(p)
    PROVE  LapseInv'
<1>0. TypeOK
  BY DEF LapseInv
<1>. DEFINE j == job[p]
            new == AuditRow(p, j.row)
            k == Recording(j, new)
<1>1. j \in JobSet /\ j.pc = "audit" /\ j # Idle /\ JobLapses(p)
  BY DEF LapseInv, TypeOK, DecideSignal, Idle
<1>2. j.row \in SignalSet
  BY <1>1, JobParts
<1>3. new \in AuditSet /\ new.at = now /\ new.verdict = Decision[j.row.market][flags[p]]
  BY <1>0, <1>2, AuditTyped DEF AuditRow
<1>4. job' = [job EXCEPT ![p] = k] /\ UNCHANGED <<now, flags, audits, lastLive>>
  BY DEF DecideSignal, Recording, history
<1>. HIDE DEF new
<1>5. /\ k \in JobSet /\ k.pc = "record" /\ k.audit = new
      /\ k.req = j.req /\ k.done = j.done
  BY <1>1, <1>3, RecordingTyped
<1>6. job'[p] = k /\ \A q \in Procs \ {p} : job'[q] = job[q]
  BY <1>0, <1>4, <1>5, JobUpdate
<1>. HIDE DEF k
<1>7. Recommendation(new) => lastLive = now
  <2>. SUFFICES ASSUME Recommendation(new) PROVE lastLive = now
    OBVIOUS
  <2>1. j.row.market \in Markets /\ flags[p] \in FlagSettings
    BY <1>0, <1>2 DEF TypeOK, SignalSet
  <2>2. Recommends(flags[p])
    BY <1>3, <2>1, RecommendingDecision DEF Recommendation
  <2>. QED
    BY <2>2 DEF LapseInv, SomeRecommends
<1>8. JobLapses(p)'
  <2>1. now <= now
    BY <1>0, Ordered
  <2>. QED
    BY <1>1, <1>3, <1>4, <1>5, <1>6, <1>7, <2>1 DEF JobLapses, Recommendation
<1>9. \A q \in Procs \ {p} : JobLapses(q)'
  BY <1>4, <1>6 DEF LapseInv, JobLapses, Recommendation
<1>. QED
  BY <1>4, <1>8, <1>9 DEF LapseInv, Recommendation, SomeRecommends

LEMMA RecordLapses ==
    ASSUME LapseInv, TypeOK', NEW p \in Procs, RecordAudit(p)
    PROVE  LapseInv'
<1>0. TypeOK
  BY DEF LapseInv
<1>. DEFINE j == job[p]
            k == AfterAudit(j)
<1>1. j \in JobSet /\ j.pc = "record" /\ j # Idle /\ JobLapses(p)
  BY DEF LapseInv, TypeOK, RecordAudit, Idle
<1>2. /\ job' = [job EXCEPT ![p] = k] /\ audits' = audits \cup {j.audit}
      /\ UNCHANGED <<now, flags, lastLive>>
  BY DEF RecordAudit, history
<1>3. j.done \cup {j.audit} \in SUBSET AuditSet
  BY <1>1, JobParts
<1>4. /\ k \in JobSet /\ k.pc \in {"start", "answer"}
      /\ k.req = j.req /\ k.done = j.done \cup {j.audit}
  BY <1>1, <1>3, NextTyped DEF AfterAudit
<1>. HIDE DEF k
<1>5. job'[p] = k /\ \A q \in Procs \ {p} : job'[q] = job[q]
  BY <1>0, <1>2, <1>4, JobUpdate
<1>6. Recommendation(j.audit) =>
         j.audit.at <= lastLive /\ j.req.since <= lastLive + FreshTicks
  <2>1. j.req.since \in Int /\ lastLive \in Int
    BY <1>0, <1>1, JobParts, Ordered
  <2>2. FreshTicks \in Nat
    BY JournalAssumption
  <2>. QED
    BY <1>1, <2>1, <2>2 DEF JobLapses
<1>7. JobLapses(p)'
  BY <1>1, <1>2, <1>4, <1>5, <1>6 DEF JobLapses, Recommendation
<1>8. \A q \in Procs \ {p} : JobLapses(q)'
  BY <1>2, <1>5 DEF LapseInv, JobLapses, Recommendation
<1>9. \A a \in audits' : Recommendation(a) => a.at <= lastLive'
  BY <1>2, <1>6 DEF LapseInv
<1>. QED
  BY <1>2, <1>7, <1>8, <1>9 DEF LapseInv, Recommendation, SomeRecommends

LEMMA LapseNext == LapseInv /\ [Next]_vars => LapseInv'
<1>. SUFFICES ASSUME LapseInv, [Next]_vars PROVE LapseInv'
  OBVIOUS
<1>0. TypeOK /\ TypeOK'
  BY TypeNext DEF LapseInv
<1>1. now \in Int /\ lastLive \in Int /\ now <= now /\ lastLive <= lastLive /\ lastLive <= now
      /\ (SomeRecommends(flags) => lastLive = now)
  BY <1>0, Ordered DEF LapseInv
<1>2. ASSUME NEW p \in Procs, NEW j, job' = [job EXCEPT ![p] = j],
             UNCHANGED <<now, flags, audits, lastLive>>,
             \/ j = Idle
             \/ /\ job[p] # Idle /\ j.pc # "record"
                /\ j.req = job[p].req /\ j.done = job[p].done
      PROVE  LapseInv'
  <2>1. job'[p] = j /\ \A q \in Procs \ {p} : job'[q] = job[q]
    BY <1>0, <1>2 DEF TypeOK
  <2>. QED
    BY <1>0, <1>1, <1>2, <2>1, LapseStays DEF SomeRecommends
<1>3. ASSUME NEW p \in Procs, Step(p) PROVE LapseInv'
  <2>1. job[p] \in JobSet
    BY <1>0 DEF TypeOK
  <2>2. CASE ReadCandleKeys(p)
    <3>. DEFINE j == job[p]
                k == [pc |-> "persist", req |-> j.req, inst |-> j.inst, rest |-> j.rest,
                      done |-> j.done,
                      missing |-> Missing(IF AwareTimestamps THEN StoredBars(j.inst) ELSE {})]
    <3>1. k.pc # "record" /\ k.req = j.req /\ k.done = j.done
      OBVIOUS
    <3>2. /\ job[p] # Idle /\ job' = [job EXCEPT ![p] = k]
          /\ UNCHANGED <<now, flags, audits, lastLive>>
      BY <2>2 DEF ReadCandleKeys, history, Idle
    <3>. HIDE DEF k
    <3>. QED
      BY <1>2, <3>1, <3>2
  <2>3. CASE StoreCandles(p)
    <3>1. job[p] # Idle /\ job[p].pc # "answer"
      BY <2>3 DEF StoreCandles, Idle
    <3>2. /\ AfterCandles(job[p]).pc # "record"
          /\ AfterCandles(job[p]).req = job[p].req /\ AfterCandles(job[p]).done = job[p].done
      BY <2>1, <3>1, AfterCandlesTyped
    <3>. QED
      BY <1>2, <2>3, <3>1, <3>2 DEF StoreCandles, history
  <2>4. CASE CandleConflict(p)
    BY <1>2, <2>4 DEF CandleConflict, history
  <2>5. CASE CommitSignal(p)
    <3>1. PICK row : job' = [job EXCEPT ![p] = AfterCommit(job[p], row)]
      BY <2>5 DEF CommitSignal
    <3>2. /\ AfterCommit(job[p], row).pc # "record"
          /\ AfterCommit(job[p], row).req = job[p].req
          /\ AfterCommit(job[p], row).done = job[p].done
      BY DEF AfterCommit
    <3>3. job[p] # Idle /\ UNCHANGED <<now, flags, audits, lastLive>>
      BY <2>5 DEF CommitSignal, history, Idle
    <3>. QED
      BY <1>2, <3>1, <3>2, <3>3
  <2>6. CASE DecideSignal(p)
    BY <1>0, <2>6, DecideLapses
  <2>7. CASE RecordAudit(p)
    BY <1>0, <2>7, RecordLapses
  <2>8. CASE Reply(p)
    BY <1>2, <2>8 DEF Reply
  <2>. QED
    BY <1>3, <2>2, <2>3, <2>4, <2>5, <2>6, <2>7, <2>8 DEF Step
<1>4. ASSUME NEW p \in Procs, Arrival(p) PROVE LapseInv'
  BY <1>0, <1>4, ArrivalLapses
<1>5. ASSUME NEW p \in Procs, Abort(p) PROVE LapseInv'
  BY <1>2, <1>5 DEF Abort, history
<1>6. ASSUME NEW p \in Procs, Redeploy(p) PROVE LapseInv'
  <2>1. /\ now' = now /\ audits' = audits
        /\ lastLive' = IF SomeRecommends(flags') THEN now ELSE lastLive
    BY <1>6 DEF Redeploy
  <2>2. SomeRecommends(flags') => lastLive' = now'
    BY <2>1
  <2>3. lastLive <= lastLive' /\ lastLive' <= now' /\ now <= now'
    BY <1>1, <2>1
  <2>4. \A q \in Procs : job'[q] = job[q] \/ job'[q] = Idle
    BY <1>0, <1>6 DEF Redeploy, TypeOK
  <2>. QED
    BY <1>0, <2>1, <2>2, <2>3, <2>4, LapseStays
<1>7. ASSUME UNCHANGED <<now, flags, audits, lastLive, job>> PROVE LapseInv'
  BY <1>0, <1>1, <1>7, LapseStays DEF SomeRecommends
<1>8. ASSUME NEW id \in AlertIds, CreateAlert(id) \/ DeleteAlert(id) PROVE LapseInv'
  BY <1>7, <1>8 DEF CreateAlert, DeleteAlert, history
<1>9. CASE Tick
  <2>1. /\ now' = now + 1 /\ audits' = audits /\ job' = job /\ flags' = flags
        /\ lastLive' = IF SomeRecommends(flags) THEN now' ELSE lastLive
    BY <1>9 DEF Tick
  <2>2. SomeRecommends(flags') => lastLive' = now'
    BY <2>1 DEF SomeRecommends
  <2>3. lastLive <= lastLive' /\ lastLive' <= now' /\ now <= now'
    BY <1>1, <2>1
  <2>. QED
    BY <1>0, <2>1, <2>2, <2>3, LapseStays
<1>10. CASE UNCHANGED vars
  BY <1>7, <1>10 DEF vars
<1>. QED
  BY <1>3, <1>4, <1>5, <1>6, <1>8, <1>9, <1>10 DEF Next

(* What RecommendationsLapse asks of a step.                               *)
LapseStep ==
    \A p \in Procs :
        answer'[p] # answer[p] /\ answer'[p].status = "ok" =>
            \A a \in answer'[p].audits :
                a.verdict.display = "trade_recommendation" =>
                    job[p].req.since <= lastLive + FreshTicks

LEMMA StepsLapse == LapseInv /\ [Next]_vars => LapseStep
<1>. SUFFICES ASSUME LapseInv, [Next]_vars,
                     NEW p \in Procs, answer'[p] # answer[p], answer'[p].status = "ok"
              PROVE  \A a \in answer'[p].audits :
                         a.verdict.display = "trade_recommendation" =>
                             job[p].req.since <= lastLive + FreshTicks
  BY DEF LapseStep
<1>1. job[p] # Idle /\ answer'[p].audits = job[p].done
  BY OnlyReplyAnswers DEF LapseInv
<1>. QED
  BY <1>1 DEF LapseInv, JobLapses, Recommendation

(* However the services' environments differ and change: once the last     *)
(* process able to recommend is gone, requests that begin more than the    *)
(* fresh time later are not answered with a trade recommendation.          *)
THEOREM RecommendationsEnd == Spec => RecommendationsLapse
<1>1. LapseInv /\ [Next]_vars => [LapseStep]_vars
  BY StepsLapse
<1>2. Spec => [][LapseStep]_vars
  BY <1>1, LapseInit, LapseNext, PTL DEF Spec
<1>. QED
  BY <1>2 DEF RecommendationsLapse, LapseStep

-----------------------------------------------------------------------------
(* Candles.  What a process found missing at some tick fills, with what is *)
(* stored already, the window up to that tick, and lies within it.         *)
WindowAt(t) == {b \in 0..t : b > t - Window}

Fills(missing, inst) ==
    \E t \in Bars : missing \subseteq WindowAt(t)
                    /\ WindowAt(t) \subseteq missing \cup StoredBars(inst)

CandlesInv ==
    /\ TypeOK
    /\ RecentCandlesWhole
    /\ \A p \in Procs : job[p].pc = "persist" => Fills(job[p].missing, job[p].inst)

LEMMA CandlesInit == Init => CandlesInv
<1>. SUFFICES ASSUME Init PROVE CandlesInv
  OBVIOUS
<1>1. \A inst \in Instruments : StoredBars(inst) = {}
  BY DEF Init, StoredBars
<1>2. \A p \in Procs : job[p].pc # "persist"
  BY DEF Init, Idle
<1>. QED
  BY <1>1, <1>2, TypeInit DEF CandlesInv, RecentCandlesWhole

(* A step that stores nothing and finds nothing missing.                   *)
LEMMA CandlesStay ==
    ASSUME CandlesInv, TypeOK', candles' = candles,
           \A p \in Procs : job'[p].pc = "persist" => job'[p] = job[p]
    PROVE  CandlesInv'
<1>1. \A inst \in Instruments : StoredBars(inst)' = StoredBars(inst)
  BY DEF StoredBars
<1>2. RecentCandlesWhole'
  BY <1>1 DEF CandlesInv, RecentCandlesWhole
<1>3. \A p \in Procs : job'[p].pc = "persist" => Fills(job[p].missing, job[p].inst)
                                                /\ job'[p] = job[p]
  BY DEF CandlesInv
<1>4. \A p \in Procs : job'[p].pc = "persist" => Fills(job[p].missing, job[p].inst)'
  BY <1>3 DEF Fills, StoredBars
<1>. QED
  BY <1>2, <1>3, <1>4 DEF CandlesInv, Fills, StoredBars

(* What is read as missing fills the window up to now.                     *)
LEMMA ReadFills ==
    ASSUME CandlesInv, TypeOK', NEW p \in Procs, ReadCandleKeys(p)
    PROVE  CandlesInv'
<1>. DEFINE j == job[p]
            stored == IF AwareTimestamps THEN StoredBars(j.inst) ELSE {}
            k == [pc |-> "persist", req |-> j.req, inst |-> j.inst, rest |-> j.rest,
                  done |-> j.done, missing |-> Missing(stored)]
<1>1. job' = [job EXCEPT ![p] = k] /\ candles' = candles
  BY DEF ReadCandleKeys
<1>2. now \in Bars /\ stored \subseteq StoredBars(j.inst)
  BY DEF CandlesInv, TypeOK
<1>3. Missing(stored) \subseteq WindowAt(now)
      /\ WindowAt(now) \subseteq Missing(stored) \cup StoredBars(j.inst)
  BY <1>2 DEF Missing, WindowAt
<1>4. Fills(k.missing, k.inst)
  BY <1>2, <1>3 DEF Fills
<1>5. \A i, m : Fills(m, i) => Fills(m, i)'
  BY <1>1 DEF Fills, StoredBars
<1>6. job'[p] = k /\ \A q \in Procs \ {p} : job'[q] = job[q]
  BY <1>1 DEF CandlesInv, TypeOK
<1>. HIDE DEF k
<1>7. \A q \in Procs : job'[q].pc = "persist" => Fills(job'[q].missing, job'[q].inst)
  BY <1>4, <1>6 DEF CandlesInv
<1>8. RecentCandlesWhole'
  BY <1>1 DEF CandlesInv, RecentCandlesWhole, StoredBars
<1>. QED
  BY <1>5, <1>7, <1>8 DEF CandlesInv

(* The inserted bars are new, so they close the window of the newest bar,  *)
(* or lie below it.                                                        *)
LEMMA StoreWhole ==
    ASSUME CandlesInv, TypeOK', NEW p \in Procs, StoreCandles(p)
    PROVE  CandlesInv'
<1>. DEFINE j == job[p]
<1>1. j \in JobSet /\ j.pc = "persist" /\ j # Idle
  BY DEF CandlesInv, TypeOK, StoreCandles, Idle
<1>2. j.missing \in SUBSET Bars
  BY <1>1, JobParts
<1>3. candles' = candles \cup NewRows(j)
  BY DEF StoreCandles
<1>4. \A i : StoredBars(i)' = StoredBars(i) \cup IF i = j.inst THEN j.missing ELSE {}
  <2>1. \A i, b : <<i, b>> \in NewRows(j) <=> i = j.inst /\ b \in j.missing
    BY DEF NewRows
  <2>2. \A i, b : b \in StoredBars(i)' <=>
                   b \in StoredBars(i) \/ (i = j.inst /\ b \in j.missing)
    <3>. SUFFICES ASSUME NEW i, NEW b
                  PROVE  b \in StoredBars(i)' <=>
                            b \in StoredBars(i) \/ (i = j.inst /\ b \in j.missing)
      OBVIOUS
    <3>1. <<i, b>> \in candles' <=> <<i, b>> \in candles \/ (i = j.inst /\ b \in j.missing)
      BY <1>3, <2>1
    <3>2. b \in StoredBars(i)' <=> b \in Bars /\ <<i, b>> \in candles'
      BY DEF StoredBars, Bars
    <3>3. b \in StoredBars(i) <=> b \in Bars /\ <<i, b>> \in candles
      BY DEF StoredBars
    <3>. QED
      BY <1>2, <3>1, <3>2, <3>3
  <2>. QED
    BY <2>2
<1>5. PICK t \in Bars : /\ j.missing \subseteq WindowAt(t)
                        /\ WindowAt(t) \subseteq j.missing \cup StoredBars(j.inst)
  BY <1>1 DEF CandlesInv, Fills
<1>6. RecentCandlesWhole'
  <2>. SUFFICES ASSUME NEW inst \in Instruments, NEW newest \in StoredBars(inst)',
                       \A b \in StoredBars(inst)' : b <= newest
                PROVE  WindowAt(newest) \subseteq StoredBars(inst)'
    BY DEF RecentCandlesWhole, WindowAt
  <2>1. CASE newest \in StoredBars(inst)
    <3>1. WindowAt(newest) \subseteq StoredBars(inst)
      BY <1>4, <2>1 DEF CandlesInv, RecentCandlesWhole, WindowAt
    <3>. QED
      BY <1>4, <3>1
  <2>2. CASE newest \notin StoredBars(inst)
    <3>1. inst = j.inst /\ newest \in j.missing
      BY <1>4, <2>2
    <3>2. newest \in 0..t /\ newest > t - Window
      BY <1>5, <3>1 DEF WindowAt
    <3>3. t \in WindowAt(t)
      BY <3>2, Bounds, JournalAssumption DEF WindowAt
    <3>4. t \in StoredBars(inst)'
      BY <1>4, <1>5, <3>1, <3>3
    <3>5. newest = t
      BY <3>2, <3>4, Bounds
    <3>. QED
      BY <1>4, <1>5, <3>1, <3>5
  <2>. QED
    BY <2>1, <2>2
<1>7. AfterCandles(j) \in JobSet /\ AfterCandles(j).pc # "persist"
  BY <1>1, AfterCandlesTyped DEF Idle
<1>8. \A q \in Procs : job'[q].pc = "persist" => job'[q] = job[q]
  BY <1>7, JobUpdate DEF StoreCandles, CandlesInv
<1>9. \A i, m : Fills(m, i) => Fills(m, i)'
  BY <1>4 DEF Fills, WindowAt
<1>10. \A q \in Procs : job'[q].pc = "persist" => Fills(job'[q].missing, job'[q].inst)
  BY <1>8 DEF CandlesInv
<1>. QED
  BY <1>6, <1>9, <1>10 DEF CandlesInv

(* Every other step leaves the candles alone.                              *)
LEMMA CandlesNext == CandlesInv /\ [Next]_vars => CandlesInv'
<1>. SUFFICES ASSUME CandlesInv, [Next]_vars PROVE CandlesInv'
  OBVIOUS
<1>0. TypeOK /\ TypeOK'
  BY TypeNext DEF CandlesInv
<1>9. Idle.pc # "persist"
  BY DEF Idle
<1>1. ASSUME NEW p \in Procs, NEW j, job' = [job EXCEPT ![p] = j], candles' = candles,
             j.pc # "persist"
      PROVE  CandlesInv'
  <2>1. \A q \in Procs : job'[q].pc = "persist" => job'[q] = job[q]
    BY <1>0, <1>1 DEF TypeOK
  <2>. QED
    BY <1>0, <1>1, <2>1, CandlesStay
<1>2. ASSUME UNCHANGED <<candles, job>> PROVE CandlesInv'
  BY <1>0, <1>2, CandlesStay
<1>3. ASSUME NEW p \in Procs, Step(p) PROVE CandlesInv'
  <2>1. job[p] \in JobSet
    BY <1>0 DEF TypeOK
  <2>2. CASE ReadCandleKeys(p)
    BY <1>0, <2>2, ReadFills
  <2>3. CASE StoreCandles(p)
    BY <1>0, <2>3, StoreWhole
  <2>4. CASE CandleConflict(p)
    BY <1>1, <1>9, <2>4 DEF CandleConflict
  <2>5. CASE CommitSignal(p)
    BY <1>1, <2>5 DEF CommitSignal, AfterCommit
  <2>6. CASE DecideSignal(p)
    <3>. DEFINE k == Recording(job[p], AuditRow(p, job[p].row))
    <3>1. job' = [job EXCEPT ![p] = k] /\ candles' = candles
      BY <2>6 DEF DecideSignal, Recording
    <3>2. k.pc # "persist"
      BY DEF Recording
    <3>. HIDE DEF k
    <3>. QED
      BY <1>1, <3>1, <3>2
  <2>7. CASE RecordAudit(p)
    <3>1. /\ job[p] # Idle /\ job[p].pc # "answer"
          /\ job[p].done \cup {job[p].audit} \in SUBSET AuditSet
      BY <2>1, <2>7, JobParts DEF RecordAudit, Idle
    <3>2. AfterAudit(job[p]).pc # "persist"
      BY <2>1, <3>1, NextTyped DEF AfterAudit
    <3>. QED
      BY <1>1, <2>7, <3>2 DEF RecordAudit
  <2>8. CASE Reply(p)
    BY <1>1, <1>9, <2>8 DEF Reply
  <2>. QED
    BY <1>3, <2>2, <2>3, <2>4, <2>5, <2>6, <2>7, <2>8 DEF Step
<1>4. ASSUME NEW p \in Procs, Arrival(p) PROVE CandlesInv'
  <2>1. PICK j : Take(p, j) /\ j.pc \in {"start", "answer"}
    BY <1>0, <1>4, ArrivalTakes
  <2>. QED
    BY <1>1, <2>1 DEF Take
<1>5. ASSUME NEW p \in Procs, Abort(p) PROVE CandlesInv'
  BY <1>1, <1>5, <1>9 DEF Abort
<1>6. ASSUME NEW id \in AlertIds, CreateAlert(id) \/ DeleteAlert(id) PROVE CandlesInv'
  BY <1>2, <1>6 DEF CreateAlert, DeleteAlert
<1>7. ASSUME NEW p \in Procs, Redeploy(p) PROVE CandlesInv'
  BY <1>1, <1>7, <1>9 DEF Redeploy
<1>8. CASE Tick \/ UNCHANGED vars
  BY <1>2, <1>8 DEF Tick, vars
<1>. QED
  BY <1>3, <1>4, <1>5, <1>6, <1>7, <1>8 DEF Next

(* The stored bars have no hole in the window before the newest one.       *)
THEOREM CandlesWhole == Spec => []RecentCandlesWhole
<1>1. Spec => []CandlesInv
  BY CandlesInit, CandlesNext, PTL DEF Spec
<1>. QED
  BY <1>1, PTL DEF CandlesInv

-----------------------------------------------------------------------------
(* The ledger.  Besides JournalInv the refinement needs that no two alerts *)
(* share an id, which dismissing one rests on.                             *)
AlertIdsUnique == \A x, y \in alerts : x.id = y.id => x = y

LedgerInv == JournalInv /\ AlertIdsUnique

LEMMA LedgerInvInit == Init => LedgerInv
<1>1. Init => AlertIdsUnique
  BY DEF Init, AlertIdsUnique
<1>. QED
  BY <1>1, JournalInit DEF LedgerInv

(* Which steps write signals, audit rows or alerts.                        *)
LEMMA WhatSteps ==
    [Next]_vars =>
        \/ UNCHANGED <<signals, audits, alerts>>
        \/ \E p \in Procs : CommitSignal(p) \/ RecordAudit(p)
        \/ \E id \in AlertIds : CreateAlert(id) \/ DeleteAlert(id)
BY DEF Next, vars, Step, Arrival, PostScan, ServeCached, ScanInstead, ScanAll, CandleSync, Take,
       ReadCandleKeys, StoreCandles, CandleConflict, DecideSignal, Reply, Abort, Redeploy, Tick

LEMMA LedgerInvNext == LedgerInv /\ [Next]_vars => LedgerInv'
<1>. SUFFICES ASSUME LedgerInv, [Next]_vars PROVE LedgerInv'
  OBVIOUS
<1>1. JournalInv'
  BY JournalNext DEF LedgerInv
<1>2. AlertIdsUnique'
  <2>1. CASE alerts' \subseteq alerts
    BY <2>1 DEF LedgerInv, AlertIdsUnique
  <2>2. CASE \E id \in AlertIds : CreateAlert(id)
    BY <2>2 DEF CreateAlert, LedgerInv, AlertIdsUnique
  <2>3. alerts' \subseteq alerts \/ \E id \in AlertIds : CreateAlert(id)
    BY WhatSteps DEF CommitSignal, RecordAudit, DeleteAlert
  <2>. QED
    BY <2>1, <2>2, <2>3
<1>. QED
  BY <1>1, <1>2 DEF LedgerInv

(* What the journal's variables are to the ledger.                         *)
emittedBar == {s.id : s \in signals}
Entry(a) == <<a.signal, [display |-> a.verdict.display, alert |-> a.verdict.alert]>>
ledgerBar == {Entry(a) : a \in audits}
raisedBar == {<<x.id, x.signal>> : x \in alerts}

(* Committing a signal emits it.                                           *)
LEMMA CommitEmits ==
    ASSUME LedgerInv, NEW p \in Procs, CommitSignal(p)
    PROVE  Ledger!Emit
<1>1. PICK row : signals' = signals \cup {row} /\ row.id \in Ids \ {s.id : s \in signals}
  BY DEF CommitSignal, Committed
<1>2. emittedBar' = emittedBar \cup {row.id} /\ row.id \in Ids \ emittedBar
  BY <1>1 DEF emittedBar
<1>3. ledgerBar' = ledgerBar /\ raisedBar' = raisedBar
  BY DEF CommitSignal, ledgerBar, raisedBar, Entry
<1>. QED
  BY <1>2, <1>3 DEF Ledger!Emit, emittedBar, ledgerBar, raisedBar, Entry

(* Recording an audit row decides its signal.                              *)
LEMMA RecordDecides ==
    ASSUME LedgerInv, NEW p \in Procs, RecordAudit(p)
    PROVE  Ledger!Decide
<1>. DEFINE row == job[p].row
            new == job[p].audit
<1>1. job[p] \in JobSet /\ job[p].pc = "record" /\ Auditing(p)
  BY DEF LedgerInv, JournalInv, TypeOK, RecordAudit, Auditing
<1>2. row \in signals /\ \A a \in audits : a.signal # row.id
  BY <1>1 DEF LedgerInv, JournalInv, RowsAwaited
<1>3. audits' = audits \cup {new} /\ new.signal = row.id
  BY <1>1 DEF RecordAudit, LedgerInv, JournalInv, RecordsRest, Rests
<1>4. new.verdict.display \in DisplayModes /\ new.verdict.alert \in BOOLEAN
  <2>1. new.verdict \in VerdictSet
    BY <1>1, JobParts DEF AuditSet
  <2>. QED
    BY <2>1 DEF VerdictSet
<1>. HIDE DEF row, new
<1>5. ledgerBar' = ledgerBar \cup {Entry(new)}
  BY <1>3 DEF ledgerBar, Entry
<1>6. row.id \in emittedBar
  BY <1>2 DEF emittedBar
<1>7. row.id \notin Ledger!Decided
  <2>1. \A e \in ledgerBar : e[1] # row.id
    BY <1>2 DEF ledgerBar, Entry
  <2>. QED
    BY <2>1 DEF Ledger!Decided, ledgerBar, Entry
<1>8. [display |-> new.verdict.display, alert |-> new.verdict.alert]
          \in [display : DisplayModes, alert : BOOLEAN]
  BY <1>4
<1>9. emittedBar' = emittedBar /\ raisedBar' = raisedBar
  BY DEF RecordAudit, emittedBar, raisedBar
<1>. QED
  BY <1>3, <1>5, <1>6, <1>7, <1>8, <1>9 DEF Ledger!Decide, emittedBar, ledgerBar, raisedBar, Entry

(* Creating an alert raises one for a decision that allows it.             *)
LEMMA CreateRaises ==
    ASSUME LedgerInv, NEW id \in AlertIds, CreateAlert(id)
    PROVE  Ledger!Raise
<1>1. PICK a \in audits : a.verdict.alert /\ alerts' = alerts \cup {[id |-> id, signal |-> a.signal]}
  BY DEF CreateAlert, AlertAllowed
<1>2. raisedBar' = raisedBar \cup {<<id, a.signal>>}
  <2>1. PICK x : x.id = id /\ x.signal = a.signal /\ alerts' = alerts \cup {x}
    BY <1>1
  <2>. QED
    BY <2>1 DEF raisedBar
<1>3. id \notin {r[1] : r \in raisedBar}
  BY DEF CreateAlert, raisedBar
<1>4. a.verdict.display \in {"trade_recommendation", "watchlist"} /\ a.verdict.alert = TRUE
  <2>1. a \in AuditSet /\ Alertable(a.verdict)
    BY DEF LedgerInv, JournalInv, TypeOK, AuditsRest, Rests
  <2>2. a.verdict.alert \in BOOLEAN
    BY <2>1 DEF AuditSet, VerdictSet
  <2>. QED
    BY <1>1, <2>1, <2>2 DEF Alertable
<1>5. Entry(a) \in ledgerBar /\ Entry(a)[1] = a.signal
      /\ Entry(a)[2] \in [display : {"trade_recommendation", "watchlist"}, alert : {TRUE}]
  BY <1>4 DEF ledgerBar, Entry
<1>6. emittedBar' = emittedBar /\ ledgerBar' = ledgerBar
  BY DEF CreateAlert, emittedBar, ledgerBar, Entry
<1>7. \E x \in AlertIds \ {r[1] : r \in raisedBar}, e \in ledgerBar :
         /\ e[2] \in [display : {"trade_recommendation", "watchlist"}, alert : {TRUE}]
         /\ raisedBar' = raisedBar \cup {<<x, e[1]>>}
  BY <1>2, <1>3, <1>5
<1>. QED
  BY <1>6, <1>7 DEF Ledger!Raise, emittedBar, ledgerBar, raisedBar, Entry

(* Deleting an alert dismisses it, and no other.                           *)
LEMMA DeleteDismisses ==
    ASSUME LedgerInv, NEW id \in AlertIds, DeleteAlert(id)
    PROVE  Ledger!Dismiss
<1>1. PICK x \in alerts : x.id = id
  BY DEF DeleteAlert
<1>2. \A y \in alerts : y.id = id <=> <<y.id, y.signal>> = <<x.id, x.signal>>
  BY <1>1 DEF LedgerInv, AlertIdsUnique
<1>3. raisedBar' = raisedBar \ {<<x.id, x.signal>>}
  BY <1>2 DEF DeleteAlert, raisedBar
<1>4. emittedBar' = emittedBar /\ ledgerBar' = ledgerBar
  BY DEF DeleteAlert, emittedBar, ledgerBar, Entry
<1>5. \E r \in raisedBar : raisedBar' = raisedBar \ {r}
  BY <1>1, <1>3 DEF raisedBar
<1>. QED
  BY <1>4, <1>5 DEF Ledger!Dismiss, emittedBar, ledgerBar, raisedBar, Entry

LEMMA LedgerStep == LedgerInv /\ [Next]_vars => [Ledger!Next]_(Ledger!vars)
<1>. SUFFICES ASSUME LedgerInv, [Next]_vars PROVE [Ledger!Next]_(Ledger!vars)
  OBVIOUS
<1>1. CASE UNCHANGED <<signals, audits, alerts>>
  BY <1>1 DEF Ledger!vars
<1>2. ASSUME NEW p \in Procs, CommitSignal(p) PROVE Ledger!Next
  BY <1>2, CommitEmits DEF Ledger!Next
<1>3. ASSUME NEW p \in Procs, RecordAudit(p) PROVE Ledger!Next
  BY <1>3, RecordDecides DEF Ledger!Next
<1>4. ASSUME NEW id \in AlertIds, CreateAlert(id) PROVE Ledger!Next
  BY <1>4, CreateRaises DEF Ledger!Next
<1>5. ASSUME NEW id \in AlertIds, DeleteAlert(id) PROVE Ledger!Next
  BY <1>5, DeleteDismisses DEF Ledger!Next
<1>. QED
  BY <1>1, <1>2, <1>3, <1>4, <1>5, WhatSteps

(* The journal implements the decision ledger.                             *)
THEOREM JournalIsLedger == Spec => ImplementsLedger
<1>1. Spec => []LedgerInv
  BY LedgerInvInit, LedgerInvNext, PTL DEF Spec
<1>2. Init => Ledger!Init
  BY DEF Init, Ledger!Init
<1>. QED
  BY <1>1, <1>2, LedgerStep, PTL DEF Spec, ImplementsLedger, Ledger!Spec

=============================================================================
