# A verification project for the FX Signal Intelligence backend

TLA+ models of the features and the decision pipeline, the signal journal, the
outcome tracker, the news risk engine, the start-up and operation of the
processes, and the dashboard with its market browser, checked with TLC. Every
safety and action property of the passing runs is also proved with TLAPS, under
hypotheses named below where the code needs them.

The repository's `backend/app` is a FastAPI service that scans five currency
pairs: it reads candles and a quote, evaluates twelve rule-based strategies,
builds a risk plan, ranks, reviews and arbitrates, and journals everything. Cron
jobs (`workers/main.py`) run the same code. There is no message queue and no
in-memory state: processes share one SQL database, and each request is a
sequence of short transactions on it. The Next.js front end renders pages from
that API and has a market browser of its own, which asks a third-party provider
through two proxy routes.

## Inventory

| Part | State | Operations | What is hard about it |
|---|---|---|---|
| Signal journal (`journal/service.py`) | `candles`, `strategy_signals`, `regime_snapshots`, `ranked_setups`, `trade_plans` | `scan_instrument`, `scan_all`, `persist_*` | three transactions per scan; several processes; crash between them; unique key race |
| Audit log, recommendations API (`audit/service.py`, `api/routes.py`) | `recommendation_audit_log` | `record`, `GET /recommendations`, `POST /scan` | a cache by age over an append-only log, stamped before its rows commit; each service has flags of its own |
| Alerts (`api/routes.py`) | `alerts` | `POST`, `DELETE /alerts` | trusts an old payload |
| Decision engines (`features`, `regime`, `strategies`, `risk`, `ranking`, `ai`, `arbiter`) | none | pure functions | hard gates spread over five of them, thresholds, ties, clamps |
| News risk (`news/engine.py`) | none (the clock) | `assess` | windows, the choice of one event |
| Outcome tracker (`journal/outcomes.py`) | `signal_outcomes` | `track`, `POST /journal/outcome/update` | overlapping runs, late bars, boundary times, the limit of 200 |
| Worker, start-up (`workers/main.py`, `db/init_db.py`, `main.py`) | `instruments`, `feature_flags`, `strategy_definitions`, `system_health_events` | seeding, `run_job` | simultaneous starts, jobs that raise |
| Flags (`config.py`, `constants.py`) | environment of each service, cached per process; a table | `feature_flags`, `PATCH /feature-flags/{name}` | two sources of truth |
| Feature engine (`features/engine.py`) | none | `calculate` | short histories, sliding windows, seeds and factors of averages |
| Market browser (`MarketBrowser.tsx`, `lib/market.ts`, two routes) | React state, requests in flight | the form, Pull, samples, Copy; `resolve`, `quote` | out-of-order responses, one loading flag, two parsers of one address |
| Dashboard (`dashboard/page.tsx`, `ScanButton.tsx`, `lib/api.ts`) | the page, the button | render, scan, reload | six requests that fail separately, fallbacks that look like answers |
| Providers, reconciliation, correlation, backtests, observability | none that decisions read | | |

How they interact: `scan_instrument` calls the engines as functions, in order,
and commits around them; the outcome tracker reads what scans committed
(signals, plans, candles); `GET /recommendations` and `POST /alerts` read the
audit log; the arbiter is given the flags of the environment. The dashboard reads
`GET /health` and `GET /recommendations`, the scan button posts `/scan`. `PROJECT.json`
lists every component with its status, and every hazard at its line.

## Modules

| Module | Models | Variables and actions |
|---|---|---|
| `DecisionRules` | feature results to verdict, as operators | none; `Decide` is the whole decision of one scan |
| `DecisionPipeline` | one pass of `scan_instrument` through the engines | one variable per intermediate result, one action per engine call |
| `SignalJournal` | processes, transactions, the recommendation cache, alerts | `job[p]` is the program counter of a request; see below |
| `DecisionLedger` | what the journal promises, abstractly | `Emit`, `Decide`, `Raise`, `Dismiss` |
| `OutcomeTracking` | `OutcomeTracker` and the market it judges by | price path, stored bars, signals, outcomes, runs |
| `NewsRisk` | `assess` against a moving clock | `Assess` |
| `Operations` | seeding, jobs, flags, admin health, releases | `Start` .. `CommitSeed`, `SeedConflict`, `FinishJob`, `RaiseInJob`, `PatchFlag`, `Deploy` |
| `FeatureEngine` | `calculate` as operators over bars, on top of `DecisionRules` | none |
| `FeatureFeed` | the bars a scan is given around the clock | `hour`, `bars`; `Hours`, `BarCompletes` |
| `MarketBrowser` | the component and its two routes | its React states, one slot per request in flight |
| `Dashboard` | the page, the scan button, decisions of the backend | `render`, `page`, `button`, `scan`, `decided`; `Rendering`, `Scanning` |
| `DecisionLemmas` | lemmas about the rules: decision, selection, plan | |
| `DecisionProofs`, `SignalJournalProofs`, `NewsRiskProofs`, `OutcomeProofs`, `OperationsProofs`, `DashboardProofs`, `FeatureProofs` | theorems of `DecisionPipeline` and of the specification named | |
| `MC...` | instances for TLC | |

**DecisionRules.** Prices are integers in thousandths of the setup's ATR around
the quote's mid, scores and ratios hundredths; the weights of the ranking are
exact in them. A market record is what a scan reads: statuses, completeness,
the H1 and H4 trend and strength, volatility, low liquidity, news, whether the
spread is too wide, and `reach`, the distance from the quote to the swing
structure the stop hides behind. A reason string is one constant per reason.
The M15 features are computed by the code and read by no decision. Rejections
the code cannot reach with the strategies' own output (a missing take profit or
entry zone, a missing quote) fall together with the missing stop.
`DecisionPipeline` exists so that each engine's result can be related to the
others; `SignalJournal` uses the same rules through the constant `Decision`,
which an assumption ties to `Decide`.

**SignalJournal.** `PostScan`, `ScanAll`, `CandleSync`, `ServeCached` and
`ScanInstead` begin a request; `ReadCandleKeys`, then `StoreCandles` or
`CandleConflict`, are `persist_candles`; `CommitSignal` is everything up to the
commit of line 230, `DecideSignal` the arbiter and the stamp of the audit row
(`created_at`, at its flush), and `RecordAudit` its commit, after which others
see it. `Reply` answers the request with all it has read or journaled: POST
/scan with the decisions of every instrument, gathered in `job[p].done` while
others go on. `flags[p]` are the flags a process cached from the environment of
its service; `Redeploy(p)` restarts one process under other ones, and a
deployment of several services is several such steps. `Abort` is a kill or an
exception between two steps. The three timeframes of a scan are one row of M15
bars: they are persisted in one batch. A tick is 15 minutes. `shown`, `lastLive`
and what a request saw when it began are history.

**OutcomeTracking.** A tick is half an hour, so that a signal is issued either
just after or in the middle of an H1 bar. `HalfHour` moves price, `SyncCandles`
stores the bars a provider then returns, `IssueSignal` is the commit of a scan,
`ReadOpenSignals`, `TrackSignal` and `CommitOutcomes` are one run of `track`.

A bar keeps the prices it was first stored with; `Forming` makes the provider
return the bar that is still forming.

**FeatureEngine, FeatureFeed.** Prices are integers and averages exact
fractions. Strength is a whole percent, rounded away from 40 (`Percent`), so that
the regime's bounds, a strength of 35 and a range strength of 60, decide as they
do over the code's floats; a float's own rounding is not modelled. The periods are constants (50, 200, 14, 20 and 5 in the code).
`RegimeFeatures` builds the record `DecisionRules` takes, and the type invariant
of the feed says it lies in `RegimeFeatureSet`, the domain over which the rules
are checked and proved. Strategies read no bars themselves; what links the swings to
`DecisionRules` is the market field `reach`. The feed assumes of a provider that
a complete bar keeps its prices. The wired mock does not: it computes prices by
a bar's place in the answer, so that the bar of one timestamp changes, and what
is said of swings over time is not said of it. `Anchor` is the hour bars are
counted from, 0 in the mock.

**MarketBrowser.** An address is abstracted to its kind (empty, a word, a URL,
neither), and a word to the ticker it normalises to, whether that is short
enough for a path segment, and whether an exchange stands before it; `Infer` is
`parseTickerFromUrl` and `FrameUrl` is `frameUrlFor` over these. A request is a
slot in `calls`, and `Resolved`, `QuoteLoaded` and `CallFails` are its answers.
The third-party provider is the set `Listed`.

**Dashboard.** Of a decision only its number counts. A request of the render
reads on the server in one step, `HealthAnswers` or `CardAnswers` (the cached
row), or scans: `CardScans` commits a decision, `CardScanned` answers with it,
others deciding the pair in between, and `CardFails` is a failure before or after
the commit; `ShowPage` is the end of `Promise.all`.
The button is disabled while its asynchronous transition is pending. `scanned`
and `since` are history. That no answer is older than one shown before its
request is what `AnswersGoForward` checks of `SignalJournal`.

**Operations.** `Start`, `ReadFlags` and `ReadStrategies` are the queries of
`seed_reference_data`, `CommitSeed` or `SeedConflict` its commit.

**External.** The wired provider is the mock, whose data are `MOCK` and so never
pass the gates. The models take provider answers from constants that range over
the schema (`provider_interfaces.py`, `schemas.py`), as the code is written for.
SQL isolation is one atomic step per query and per commit, with unique keys.

## Runs

Passing runs, with distinct states:

| Run | States | Shows |
|---|---|---|
| `pipeline` | 728k | nothing displayed or alertable misses a hard gate; the decision code names the gate that refused, an AI review rejection exactly a plan that is not tradable; no blocked strategy selected; score bands; the silent gates; what is displayed follows from gates, score and flags |
| `journal` | 507k | audit rows rest on committed signals, one each; alerts rest on cleared markets; the journal implements `DecisionLedger`, alerts, kills and redeployments included; recommendations lapse with the last process able to make them |
| `journal_shown` | 348k | answers never go back, over scans of all instruments whose commits and answers interleave; without failures every decision is journaled |
| `journal_candles` | 704k | candles without holes, over hours in which nothing runs; signals get decided |
| `outcomes_overlap` | 3.2M | verdicts stand, and overlapping runs record the same one, with killed runs and an operator |
| `outcomes_cron` | 466k | runs that are killed, and that read one of two open signals, settle every directional one |
| `news_risk` | 8.6k | a blackout lasts until its release is 20 minutes old; the first event has its blackout |
| `operations` | 58k | the first release's definitions unique, reference data complete, patches survive, web processes come up |
| `features` | 28k | features in range, averages among the closes, swings that do not repaint |
| `market_browser` | 86k | the loading state ends; Go keeps the ticker of the forms `MCTyped` has |
| `dashboard` | 293k | a page without error banner is current; a successful scan is shown |

Each run that expects a violation checks one statement of a document, test,
comment or endpoint that the code does not keep; `PROJECT.json` "findings"
quotes the statement and says what the counterexample shows.

| Run | Violated | In short |
|---|---|---|
| `journal_race` | `ScanFallbackAnswers` | concurrent candle inserts collide and fail the request |

These further configurations are not part of the regular runs; each states one
more divergence, with its finding, and is run by hand
(`tlc -config <cfg> <module>`); TLC reports the property violated. Those named
`...Claims` state several, each of which `tlc -continue ... | grep violated` lists.

| Configuration | Module | Violated | In short |
|---|---|---|---|
| `MCPipelineDelayed.cfg` | `MCPipeline` | `OnlyLiveDataRecommends` | DELAYED data can recommend |
| `MCPipelineRegime.cfg` | `MCPipeline` | `RegimeDataUsable` | stale H4 data can recommend |
| `MCPipelineWatchlist.cfg` | `MCPipeline` | `WatchlistMeetsThreshold` | holding back turns a weak setup into a watchlist entry |
| `MCPipelineNoTrade.cfg` | `MCPipeline` | `NoTradeIsRejected` | weak setups are not counted as no-trades |
| `MCJournalCrash.cfg` | `MCSignalJournal` | `EveryDecisionJournaled` | a crash leaves a signal without its audit row |
| `MCJournalPaper.cfg` | `MCSignalJournal` | `PaperModeHolds` | a process in paper mode serves what one that is live recommended |
| `MCJournalNaive.cfg` | `MCSignalJournal` | `ScanFallbackAnswers` | on SQLite every second scan within a bar fails |
| `MCOutcomeStarved.cfg` | `MCOutcomeTracking` | `DirectionalSettled` | signals without direction starve the others |
| `MCOutcomeForming.cfg` | `MCOutcomeTracking` | `VerdictsStand` | a bar stored while forming is judged by for ever |
| `MCOutcomeNoDirection.cfg` | `MCOutcomeTracking` | `EverySignalSettled` | signals without direction are never settled |
| `MCOutcomeWindow.cfg` | `MCOutcomeTracking` | `EntryWindowOpen` | entry windows are over at issue |
| `MCOutcomeIssueHour.cfg` | `MCOutcomeTracking` | `TargetsHitBeforeStop` | the hour of issue is not looked at |
| `MCNewsMasked.cfg` | `MCNewsRisk` | `HighImpactBlacksOut` | an earlier minor event masks a high-impact one |
| `MCFeaturesSession.cfg` | `MCFeatureFeed` | `SessionBlocks` | the session strategies are not blocked in the low liquidity hours |
| `MCFeaturesChop.cfg` | `MCFeatureFeed` | `StrengthNeedsTrend` | closes that never change have trend strength |
| `MCBrowserClaims.cfg` | `MCMarketBrowser` | `PageNamesTicker` | `/quote/NVDA/history` is read as HISTORY |
| `MCBrowserClaims.cfg` | `MCMarketBrowser` | `GoKeepsTicker` | Go turns `NASDAQ:AAPL` into nonsense |
| `MCDashboardBanner.cfg` | `MCDashboard` | `LiveBannerIsLive` | the fallback says LIVE |
| `MCOperationsStrategy.cfg` | `MCOperations` | `DefinitionsUnique` | a release that only adds a strategy defines it twice |
| `MCOperationsClaims.cfg` | `MCOperations` | `EveryRunWritesEvent` | failed jobs write no event |
| `MCOperationsClaims.cfg` | `MCOperations` | `AlertsFlagGoverns` | the ALERTS_ENABLED row governs nothing |
| `MCOperationsClaims.cfg` | `MCOperations` | `HealthShowsHeartbeats` | admin health does not look at heartbeats |

**Bounds and why they are enough.** Pipeline: statuses, news, flags and spread
are complete; strengths and stop distances sit on and around every threshold
(35, 40, 60, 100; the stop at, before and behind the entry), and the theorems
below cover all values. Journal: two processes are what a race on one
transaction takes, and its three runs share the rest. `journal` has failures, two
flag settings, a market the gates pass and one they stop, an alert, two signals
of one pair and no tick of freshness (`FreshTicks` 0), so that an answer one tick
later is stale. `journal_shown` has two instruments, which a scan of all gathers
before it answers, three signals, so that one pair is scanned again by then, and
a fresh tick. `journal_candles` has a window of two bars against four ticks, an
outage longer than the window included. Outcomes: two runs, one
signal, six half hours (an issue, its rest hour, two later bars) and four price
ranges that touch none, one side, the other or both. `OpenLimit` 1 with two
signals stands for 200 with 201. News: event times and the five minute clock
meet both ends of both windows. Operations: two web processes, a worker, and
three releases: the second adds a flag with its strategy, the third a strategy only,
as CONTRIBUTING.md has it. Features: periods of 2 and 3 for 14, 20, 50 and 200 and two swings kept for five,
seven bars, so that histories shorter than each period, exactly as long, and
windows that slide past confirmed swings all occur; the three shapes give ties, gaps
and inside bars. Browser: two requests are what overtaking takes; `MaxTimers` and `MaxReloads` 1
(a reload leaves the requests before it behind); the addresses are an empty field, a ticker with
its exchange and a URL with a parameter. Tickers of more than twelve characters, which
`frameUrlFor` accepts and a path segment may not have, are left out. Dashboard: two pairs for
five and two decisions each (`MaxDecisions`), so that one is cached and one newer.
`CHECK_DEADLOCK FALSE` is set because the clocks, the ids and the
number of runs are bounded and a scan ends: the behaviours really may stop.
Symmetry (processes, ids) is used in runs without liveness only.

**Fairness.** `SignalJournal`: `WF(Step(p))`, a request that has begun goes on;
no fairness for requests, kills or deployments. `OutcomeTracking`: time passes
and cron starts syncs and tracking runs over and over (`render.yaml`); runs may be
killed, but from some point on one that ends has committed.
`Operations`: the platform starts processes and starts failed ones again.
`MarketBrowser` and `Dashboard`: a request that was sent is answered or fails
(`fetch` settles, at the latest when a connection gives up); nobody has to click, type
or visit.

## Proofs

`DecisionProofs` proves the seven properties of the pipeline run for every
set of readable markets, strengths in 0..100, stop distances and flags. The
inductive invariant is `StageInv`: each variable holds what its engine computes
from the market and the earlier ones. Everything else is arithmetic and case
analysis about the rules:

* the levels of the strategies give a ratio of at least 1.5 whenever the stop
  is on the losing side, so of the plan's gates only a missing or invalid stop,
  the spread and the blackout can decide;
* `SelectSignal` is the first of the highest seeds (`SelectionIsFirstHighest`),
  and `ema_trend_pullback`, first in the registry, never loses to a strategy the
  regime blocks (`BlockedNeverSelected`): it rests on the selection's bonus of 8,
  not on the confidences, which tie at the clamp;
* `Decide` displays or allows an alert for cleared markets only
  (`DecideClears`), which the journal's proofs use.

All three are in `DecisionLemmas`.

`SignalJournalProofs` proves, for any numbers of processes, instruments, signals
and ticks, with failures and redeployments:

* `TypeOK`; `OneAuditPerSignal`, `AuditRefersToCommitted` and
  `AlertedSignalsCleared` from `JournalInv`, whose point is that a signal waiting
  for its audit row is committed, unaudited and in the hands of one process only;
* `AnswersGoForward` from `AnswersInv`: what was shown is journaled, so a GET,
  which takes the youngest row, is not behind it; and a scan stamps its rows
  after its request began, so they are not behind what was shown by then, however
  much later they commit and are answered (`JobForward`). A request under way may
  answer with an older decision than one shown since: that is POST /scan, and
  neither the code nor the property excludes it;
* `RecommendationsLapse` from `LapseInv`: a recommendation is stamped by a process
  able to recommend, so no row of one is younger than `lastLive`, the last tick
  there was such a process, and a request that begins more than the fresh time
  after it neither finds a young one nor makes one. Services have flags of their
  own, so one process left live keeps recommendations coming; that a process in
  paper mode then serves them is `PaperModeHolds`, which the code breaks;
* `EveryDecisionJournaled`, under `~MayFail`;
* `RecentCandlesWhole` from `CandlesInv`: what a process found missing at some
  tick lies in the window up to that tick and, with what is stored, fills it. The
  loser of a race stores nothing, and the winner stored what it needed or the
  next scan finds it missing again;
* the refinement `ImplementsLedger` from `LedgerInv` (alert ids are unique, an
  alertable verdict displays something): each action maps to `Emit`, `Decide`,
  `Raise` or `Dismiss` of `DecisionLedger`, or to a stutter.

`NewsRiskProofs` proves both properties of `NewsRisk` for every calendar, step
and clock, from the invariant `Assessed`: the status is one the engine may give
the calendar at this very minute. `BlackoutLasts` follows because the event a
blackout is given for stays the earliest one: time adds only later events, and
the hour for which a past one is looked at is longer than the 20 minutes.

`OutcomeProofs` proves, for any trackers, signals, plans and prices:

* `TypeOK`;
* `VerdictsAgree` from `TrackInv`: every verdict, committed or still in the
  hands of a run, is what the walk over the stored bars decides, and bars that
  are only appended do not change a verdict once it is decided (`Verdict` is the
  walk as a function of signal and bars);
* `VerdictsStand`, under `~Forming`, where a stored bar is the market's bar.
  `MCOutcomeForming.cfg` shows that it fails otherwise.

`OperationsProofs` proves `TypeOK`, `FirstDefinitionsUnique`, `ReferenceDataComplete`
and the action property `PatchesSurvive`, for any finite set of workers and any
sequence of releases that add rows. The invariant is `SeedInv`: the tables hold
exactly the rows of some release deployed so far, and what a process found
missing is missing still unless somebody committed meanwhile.
`strategy_definitions` has no unique key. `FirstDefinitionsUnique` holds because
the first release brings instruments or flags, which have one: of two processes
that both found a definition missing on the empty database, both found those rows
missing as well, and one fails with its whole transaction. It says nothing of a
strategy that a later release adds, as CONTRIBUTING.md has it, without such a
row: two processes that start at once both insert it, and `DefinitionsUnique` is
violated (`MCOperationsStrategy.cfg`).

`DashboardProofs` proves `TypeOK` and `ErrorFreeIsCurrent` for any pairs, from
`PageInv`: in a render, the mode told is the backend's, and the number of a card, answered
or still pending after its scan's commit, is at least what was decided when the
render began.

It also proves, for any tickers, typed addresses and number of requests, the
safety of the market browser, which is on that page; `MarketBrowser` names its
specification `BrowserSpec` so that one module may extend both. `BrowserTypeOK`
is inductive as it stands, because the addresses are closed under `FrameUrl`
(`AddressesFormed`) and whatever words an address has, a ticker or nothing is
inferred from it (`InferredFromUrl`: the first and last positions picked
are positions). `GoKeepsTicker` assumes that every typed address is `Readable`:
empty, a URL, or a word of at most twelve characters or behind an exchange.
Without that it is false, since Go makes of `NASDAQ:AAPL` what is no URL
(`MCBrowserClaims.cfg`), and of a longer word a path segment that
`parseTickerFromUrl` skips.

`FeatureProofs` proves `TypeOK`, `AveragesAmongCloses` and the action property
`SwingsStand` for any periods, history and prices. Sums and exponential averages are recursive
functions; `Recursion` shows that such a function exists and obeys its
recursion, and `Climb` is induction over positions as a statement about a set.
The averages rest on `EmaForm`: a linear form positive at all the values is
positive at their average. `SwingsStand`
rests on `AllPeaks`, the swings found so far as a recursive function of the
position (`_swings` fills its lists in that order): appending a bar confirms at most
one peak (`OnePeakMore`), dropping the oldest bar loses at most the first
(`OnePeakLess`), and the last five of two lists that differ so differ so again
(`LastOfSlides`). The lows are the highs of the negated bars.

The assumptions are those named in the modules (`PipelineAssumption`,
`JournalAssumption`, ...), which TLC evaluates in every run. The journal's
proofs use the link between `Decision` and `Decide`, and nothing of the markets.

Only model-checked is liveness: `SignalsGetDecided`, `DirectionalSettled`,
`WebServes`, `LoadingEnds` and `ScanIsShown` hold under fairness, which is beyond
the prover.

## Not modelled, and the plan

Not modelled: indicators no decision reads (RSI, MACD, Bollinger, Donchian,
SMA, ranges of days, weeks and sessions), floating point, evidence and
explanation texts, quote, news and regime rows nothing reads back, realised R,
read-only endpoints, the prices of the mock, which change under a bar's
timestamp, the pages of pairs, signals, journal, settings and admin (one render each, by the
modelled `apiFetch`), logging, request ids and the error envelope, and the
scaffolds: provider reconciliation, correlation context and backtests return
constants that nothing decides by.

What would come next is a composition of `SignalJournal` and `OutcomeTracking`
over one database: undecided and rejected signals that are tracked all the same.
