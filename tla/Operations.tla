------------------------------ MODULE Operations ------------------------------
(***************************************************************************)
(* Starting and running the processes over one database: every start (the  *)
(* lifespan of a uvicorn worker, run_job of the worker) seeds the          *)
(* reference rows it finds missing in one transaction, jobs end with a     *)
(* system_health_events row, operators patch feature flags and read the    *)
(* admin health page, deployments bring releases with more reference data. *)
(***************************************************************************)
EXTENDS Integers, Sequences, FiniteSets

CONSTANTS
    Web,        \* uvicorn workers: serve until the next deployment
    Workers,    \* worker processes: run one job and exit
    Releases,   \* releases in order: their instruments, flags, strategies
    MaxRuns,    \* bound on the job runs
    MayRaise    \* a job may raise

Procs == Web \cup Workers

Upto(field, n) == UNION {Releases[i][field] : i \in 1 .. n}
Flags == Upto("flags", Len(Releases))
Strategies == Upto("strategies", Len(Releases))

(* Releases only add reference data, and the first one has rows with a key: *)
(* SUPPORTED_INSTRUMENTS and FEATURE_FLAGS are not empty.                   *)
ASSUME OperationsAssumption ==
    /\ Web \cap Workers = {} /\ IsFiniteSet(Workers)
    /\ Len(Releases) \in Nat \ {0}
    /\ \A n \in 1 .. Len(Releases) :
          DOMAIN Releases[n] = {"instruments", "flags", "strategies"}
    /\ \A m, n \in 1 .. Len(Releases), f \in DOMAIN Releases[1] :
          m <= n => Releases[m][f] \subseteq Releases[n][f]
    /\ Releases[1].instruments \cup Releases[1].flags # {}
    /\ MaxRuns \in Nat /\ MayRaise \in BOOLEAN

VARIABLES
    release,      \* the release deployed
    instruments,  \* instruments rows
    flags,        \* feature_flags rows: enabled by name
    definitions,  \* strategy_definitions rows by strategy and version
    alerts,       \* alerts created
    proc,         \* what each process is doing
    ended,        \* job runs that ended
    events,       \* system_health_events rows
    health        \* the worker status GET /admin/health last showed

vars == <<release, instruments, flags, definitions, alerts, proc, ended, events, health>>
tables == <<instruments, flags, definitions>>

-----------------------------------------------------------------------------
Down == [pc |-> "down"]
Up == [pc |-> "up"]
None == [instruments |-> {}, flags |-> {}, strategies |-> {}]
Seeding(pc, missing) == [pc |-> pc, missing |-> missing]

Now == Releases[release]
Defined(s) == definitions[s] > 0

Init ==
    /\ release = 1
    /\ instruments = {} /\ flags = <<>> /\ definitions = [s \in Strategies |-> 0]
    /\ alerts = 0
    /\ proc = [p \in Procs |-> Down]
    /\ ended = 0 /\ events = 0 /\ health = "unread"

-----------------------------------------------------------------------------
(* A process starts: create_all, then the queries of seed_reference_data,  *)
(* table by table.                                                         *)
Start(p) ==
    /\ proc[p] = Down
    /\ p \in Workers => ended < MaxRuns
    /\ proc' = [proc EXCEPT ![p] =
          Seeding("flags", [None EXCEPT !.instruments = Now.instruments \ instruments])]
    /\ UNCHANGED <<release, tables, alerts, ended, events, health>>

(* Faults: flags are seeded into an empty table only, as GET               *)
(* /feature-flags treats it; every flag is inserted, unlooked for.         *)
FaultMissingFlags == IF flags = <<>> THEN Now.flags ELSE {}
FaultAllFlags == Now.flags
MissingFlags == Now.flags \ DOMAIN flags

ReadFlags(p) ==
    /\ proc[p].pc = "flags"
    /\ proc' = [proc EXCEPT ![p] =
          Seeding("strategies", [proc[p].missing EXCEPT !.flags = MissingFlags])]
    /\ UNCHANGED <<release, tables, alerts, ended, events, health>>

ReadStrategies(p) ==
    /\ proc[p].pc = "strategies"
    /\ proc' = [proc EXCEPT ![p] =
          Seeding("commit", [proc[p].missing EXCEPT
                                !.strategies = {s \in Now.strategies : ~Defined(s)}])]
    /\ UNCHANGED <<release, tables, alerts, ended, events, health>>

(* The unique keys on the symbol and the flag name; strategy definitions   *)
(* have none.  Fault: rows that are there already are passed over (ON      *)
(* CONFLICT DO NOTHING), and the rest of the transaction is committed.      *)
FaultConflict(missing) == FALSE
Conflict(missing) ==
    \/ missing.instruments \cap instruments # {}
    \/ missing.flags \cap DOMAIN flags # {}

(* The flag rows after seeding.  A flag's default is irrelevant to what    *)
(* follows: FALSE.  Fault: defaults overwrite the rows there are.          *)
FaultSeededFlags(missing) == [f \in DOMAIN flags \cup missing.flags |-> FALSE]
SeededFlags(missing) ==
    [f \in DOMAIN flags \cup missing.flags |-> IF f \in DOMAIN flags THEN flags[f] ELSE FALSE]

(* One commit for all three tables. *)
CommitSeed(p) ==
    /\ proc[p].pc = "commit"
    /\ LET missing == proc[p].missing IN
          /\ ~Conflict(missing)
          /\ instruments' = instruments \cup missing.instruments
          /\ flags' = SeededFlags(missing)
          /\ definitions' = [s \in Strategies |->
                definitions[s] + (IF s \in missing.strategies THEN 1 ELSE 0)]
    /\ proc' = [proc EXCEPT ![p] = Up]
    /\ UNCHANGED <<release, alerts, ended, events, health>>

(* Fault: the end of a run is not counted. *)
FaultEndRun(p) == ended' = ended
EndRun(p) == ended' = IF p \in Workers THEN ended + 1 ELSE ended

(* IntegrityError: the whole transaction is rolled back, and the start     *)
(* fails.  The platform starts the process again.                          *)
SeedConflict(p) ==
    /\ proc[p].pc = "commit"
    /\ Conflict(proc[p].missing)
    /\ proc' = [proc EXCEPT ![p] = Down]
    /\ EndRun(p)
    /\ UNCHANGED <<release, tables, alerts, events, health>>

-----------------------------------------------------------------------------
(* run_job ends with its event, whatever the job.  *)
FinishJob(p) ==
    /\ p \in Workers /\ proc[p] = Up
    /\ proc' = [proc EXCEPT ![p] = Down]
    /\ EndRun(p)
    /\ events' = events + 1
    /\ UNCHANGED <<release, tables, alerts, health>>

(* The job raises: its session is closed, no event is written. *)
RaiseInJob(p) ==
    /\ MayRaise
    /\ p \in Workers /\ proc[p] = Up
    /\ proc' = [proc EXCEPT ![p] = Down]
    /\ EndRun(p)
    /\ UNCHANGED <<release, tables, alerts, events, health>>

(* PATCH /feature-flags/{flag_name}. *)
PatchFlag(p, f) ==
    /\ p \in Web /\ proc[p] = Up
    /\ f \in DOMAIN flags
    /\ \E enabled \in BOOLEAN : flags' = [flags EXCEPT ![f] = enabled]
    /\ UNCHANGED <<release, instruments, definitions, alerts, proc, ended, events, health>>

(* POST /alerts for a signal whose audited decision allows it, which        *)
(* SignalJournal models; the flags table is not read.  Bound: one alert.    *)
CreateAlert(p) ==
    /\ p \in Web /\ proc[p] = Up
    /\ alerts = 0
    /\ alerts' = alerts + 1
    /\ UNCHANGED <<release, tables, proc, ended, events, health>>

(* GET /admin/health: SignalJournalService.worker_status. *)
AdminHealth(p) ==
    /\ p \in Web /\ proc[p] = Up
    /\ health' = "healthy"
    /\ UNCHANGED <<release, tables, alerts, proc, ended, events>>

(* A deployment of the next release stops every process. *)
Deploy ==
    /\ release < Len(Releases)
    /\ release' = release + 1
    /\ proc' = [p \in Procs |-> Down]
    /\ UNCHANGED <<tables, alerts, ended, events, health>>

Seed(p) ==
    Start(p) \/ ReadFlags(p) \/ ReadStrategies(p) \/ CommitSeed(p) \/ SeedConflict(p)

Next ==
    \/ \E p \in Procs : Seed(p) \/ FinishJob(p) \/ RaiseInJob(p) \/ CreateAlert(p) \/ AdminHealth(p)
    \/ \E p \in Procs, f \in Flags : PatchFlag(p, f)
    \/ Deploy

Spec == Init /\ [][Next]_vars

(* The platform starts processes and starts failed ones again; a started   *)
(* one goes on.                                                            *)
FairSpec == Spec /\ \A p \in Procs : WF_vars(Seed(p))

-----------------------------------------------------------------------------
TypeOK ==
    /\ release \in 1 .. Len(Releases)
    /\ instruments \subseteq Upto("instruments", Len(Releases))
    /\ DOMAIN flags \subseteq Flags /\ \A f \in DOMAIN flags : flags[f] \in BOOLEAN
    /\ definitions \in [Strategies -> Nat]
    /\ ended \in 0 .. MaxRuns + Cardinality(Workers) /\ events \in 0 .. ended

(* However many processes start at once on an empty database, each version  *)
(* of a strategy is defined once there and through every later release.     *)
(* Its table has no key: nothing but the conflict on another table's, in    *)
(* the same transaction, sees to it.                                        *)
FirstDefinitionsUnique == \A s \in Releases[1].strategies : definitions[s] <= 1

(* A process that serves or works finds every reference row of its release, *)
(* whether it seeded or came second.                                       *)
ReferenceDataComplete ==
    \A p \in Procs : proc[p] = Up =>
        /\ Now.instruments \subseteq instruments
        /\ Now.flags \subseteq DOMAIN flags
        /\ \A s \in Now.strategies : Defined(s)

(* A flag an operator patched keeps its value through restarts and         *)
(* deployments: seeding never resets a row.                                *)
PatchesSurvive ==
    [][proc' # proc => \A f \in DOMAIN flags : f \in DOMAIN flags' /\ flags'[f] = flags[f]]_vars

(* The conflicts of a simultaneous start end: every web process serves.    *)
WebServes == \A p \in Web : <>[](proc[p] = Up)

-----------------------------------------------------------------------------
(* What the repository's documents say.                                    *)

(* "Never silently mutate existing logic": a version of a strategy is one   *)
(* definition, those that a later release registers included.               *)
DefinitionsUnique == \A s \in Strategies : definitions[s] <= 1

(* Jobs write "system_health_events per run".                              *)
EveryRunWritesEvent == events = ended

(* ALERTS_ENABLED: "Enable in-app alert creation after arbiter approval."  *)
AlertsFlagGoverns ==
    [][alerts' # alerts => "ALERTS_ENABLED" \in DOMAIN flags /\ flags["ALERTS_ENABLED"]]_vars

(* "GET /api/admin/health shows worker heartbeat events".                  *)
HealthShowsHeartbeats == [][health' # health => events > 0]_vars
=============================================================================
