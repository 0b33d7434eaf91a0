---------------------------- MODULE OperationsProofs ---------------------------
(***************************************************************************)
(* Seeding for any number of processes that start, fail and start again at *)
(* any time, and any sequence of releases that only add reference data.    *)
(***************************************************************************)
EXTENDS Operations, FiniteSetTheorems, TLAPS

Reading == {"flags", "strategies", "commit"}
ReferenceSets ==
    [instruments : SUBSET Upto("instruments", Len(Releases)), flags : SUBSET Flags,
     strategies : SUBSET Strategies]
ProcStates == {Down, Up} \cup [pc : Reading, missing : ReferenceSets]

(* The tables hold the reference rows of the n-th release and no others;   *)
(* of release 0 before anybody has seeded.                                 *)
SeededTo(n) ==
    /\ instruments = Upto("instruments", n)
    /\ DOMAIN flags = Upto("flags", n)
    /\ \A s \in Strategies : Defined(s) <=> s \in Upto("strategies", n)

Complete == SeededTo(release)

(* What a starting process takes for missing is of its release, and still  *)
(* is what is missing unless another process has committed meanwhile.      *)
MissingOK(p) ==
    LET missing == proc[p].missing IN
    /\ missing.instruments \subseteq Now.instruments
    /\ missing.flags \subseteq Now.flags
    /\ missing.strategies \subseteq Now.strategies
    /\ proc[p].pc # "commit" => missing.strategies = {}
    /\ ~Complete =>
          /\ missing.instruments = Now.instruments \ instruments
          /\ proc[p].pc \in {"strategies", "commit"} => missing.flags = Now.flags \ DOMAIN flags
          /\ proc[p].pc = "commit" =>
                missing.strategies = {s \in Now.strategies : ~Defined(s)}

(* Whoever misses a strategy of the first release misses a keyed row too.  *)
KeyMissing(p) ==
    LET missing == proc[p].missing IN
    missing.strategies \cap Releases[1].strategies # {} =>
        missing.instruments \cup missing.flags # {}

Running == {p \in Workers : proc[p] # Down}

ProcTyped == proc \in [Procs -> ProcStates]
RunsCounted == ended + Cardinality(Running) <= MaxRuns + Cardinality(Workers)
Levels ==
    /\ \E n \in 0 .. release : SeededTo(n)
    /\ \A p \in Procs : proc[p] = Up => Complete
    /\ \A p \in Procs : proc[p] \notin {Down, Up} => MissingOK(p)
Guarded ==
    /\ FirstDefinitionsUnique
    /\ \A p \in Procs : proc[p] \notin {Down, Up} => KeyMissing(p)

SeedInv == TypeOK /\ ProcTyped /\ RunsCounted /\ Levels /\ Guarded

-----------------------------------------------------------------------------
(* The reference rows of the first n releases are those of the n-th.       *)
LEMMA UptoRelease ==
    ASSUME NEW f \in {"instruments", "flags", "strategies"}
    PROVE  /\ Upto(f, 0) = {}
           /\ \A n \in 1 .. Len(Releases) : Upto(f, n) = Releases[n][f]
           /\ \A m, n \in 0 .. Len(Releases) : m <= n => Upto(f, m) \subseteq Upto(f, n)
<1>1. Len(Releases) \in Nat \ {0}
  BY OperationsAssumption
<1>2. \A n \in 1 .. Len(Releases) : Upto(f, n) = Releases[n][f]
  <2>. SUFFICES ASSUME NEW n \in 1 .. Len(Releases) PROVE Upto(f, n) = Releases[n][f]
    OBVIOUS
  <2>1. f \in DOMAIN Releases[1]
    BY <1>1, OperationsAssumption
  <2>2. \A i \in 1 .. n : i \in 1 .. Len(Releases) /\ i <= n
    BY <1>1
  <2>3. \A i \in 1 .. n : Releases[i][f] \subseteq Releases[n][f]
    BY <2>1, <2>2, OperationsAssumption
  <2>4. n \in 1 .. n
    BY <1>1
  <2>. QED
    BY <2>3, <2>4 DEF Upto
<1>3. Upto(f, 0) = {}
  BY DEF Upto
<1>4. \A m, n \in 0 .. Len(Releases) : m <= n => Upto(f, m) \subseteq Upto(f, n)
  BY <1>1 DEF Upto
<1>. QED
  BY <1>2, <1>3, <1>4

(* The rows of the first release belong to every release.                  *)
LEMMA FirstRelease ==
    ASSUME NEW n \in 1 .. Len(Releases)
    PROVE  /\ Releases[1].instruments \subseteq Upto("instruments", n)
           /\ Releases[1].flags \subseteq Upto("flags", n)
           /\ Releases[1].strategies \subseteq Upto("strategies", n)
<1>1. Len(Releases) \in Nat \ {0}
  BY OperationsAssumption
<1>2. 1 \in 1 .. n
  BY <1>1
<1>. QED
  BY <1>2 DEF Upto

LEMMA NowUpto ==
    ASSUME release \in 1 .. Len(Releases)
    PROVE  /\ Upto("instruments", release) = Now.instruments
           /\ Upto("flags", release) = Now.flags
           /\ Upto("strategies", release) = Now.strategies
           /\ Now.instruments \subseteq Upto("instruments", Len(Releases))
           /\ Now.flags \subseteq Flags /\ Now.strategies \subseteq Strategies
<1>1. Len(Releases) \in Nat \ {0}
  BY OperationsAssumption
<1>2. release \in 0 .. Len(Releases) /\ Len(Releases) \in 0 .. Len(Releases)
      /\ release <= Len(Releases)
  BY <1>1
<1>. QED
  BY <1>2, UptoRelease DEF Now, Flags, Strategies

(* Down and Up are not starting states, and conversely.                    *)
LEMMA States ==
    ASSUME NEW q \in ProcStates
    PROVE  /\ Down # Up
           /\ q.pc \in Reading \cup {"down", "up"}
           /\ q.pc \in Reading => q \notin {Down, Up} /\ q.missing \in ReferenceSets
           /\ q \notin {Down, Up} => q.pc \in Reading
BY DEF ProcStates, Down, Up, Reading

LEMMA SeedingTyped ==
    ASSUME NEW pc \in Reading, NEW missing \in ReferenceSets
    PROVE  /\ Seeding(pc, missing) \in ProcStates
           /\ Seeding(pc, missing) \notin {Down, Up}
           /\ Seeding(pc, missing).pc = pc /\ Seeding(pc, missing).missing = missing
BY DEF Seeding, ProcStates, Reading, Down, Up

-----------------------------------------------------------------------------
(* What each step of a starting process does to it.                        *)
LEMMA StartStep ==
    ASSUME SeedInv, NEW p \in Procs, Start(p)
    PROVE  \E missing \in ReferenceSets :
              /\ proc' = [proc EXCEPT ![p] = Seeding("flags", missing)]
              /\ missing.instruments = Now.instruments \ instruments
              /\ missing.flags = {} /\ missing.strategies = {}
<1>. DEFINE missing == [None EXCEPT !.instruments = Now.instruments \ instruments]
<1>1. Now.instruments \subseteq Upto("instruments", Len(Releases))
  BY NowUpto DEF SeedInv, TypeOK
<1>2. /\ missing \in ReferenceSets
      /\ missing.instruments = Now.instruments \ instruments
      /\ missing.flags = {} /\ missing.strategies = {}
  BY <1>1 DEF None, ReferenceSets
<1>. QED
  BY <1>2 DEF Start

LEMMA ReadFlagsStep ==
    ASSUME SeedInv, NEW p \in Procs, ReadFlags(p)
    PROVE  \E missing \in ReferenceSets :
              /\ proc' = [proc EXCEPT ![p] = Seeding("strategies", missing)]
              /\ missing.instruments = proc[p].missing.instruments
              /\ missing.flags = Now.flags \ DOMAIN flags
              /\ missing.strategies = proc[p].missing.strategies
<1>. DEFINE missing == [proc[p].missing EXCEPT !.flags = MissingFlags]
<1>1. Now.flags \subseteq Flags
  BY NowUpto DEF SeedInv, TypeOK
<1>2. proc[p].missing \in ReferenceSets
  BY States DEF SeedInv, ProcTyped, ReadFlags, Reading
<1>3. /\ missing \in ReferenceSets
      /\ missing.instruments = proc[p].missing.instruments
      /\ missing.flags = Now.flags \ DOMAIN flags
      /\ missing.strategies = proc[p].missing.strategies
  BY <1>1, <1>2 DEF MissingFlags, ReferenceSets
<1>. QED
  BY <1>3 DEF ReadFlags

LEMMA ReadStrategiesStep ==
    ASSUME SeedInv, NEW p \in Procs, ReadStrategies(p)
    PROVE  \E missing \in ReferenceSets :
              /\ proc' = [proc EXCEPT ![p] = Seeding("commit", missing)]
              /\ missing.instruments = proc[p].missing.instruments
              /\ missing.flags = proc[p].missing.flags
              /\ missing.strategies = {s \in Now.strategies : ~Defined(s)}
<1>. DEFINE missing == [proc[p].missing EXCEPT
                            !.strategies = {s \in Now.strategies : ~Defined(s)}]
<1>1. Now.strategies \subseteq Strategies
  BY NowUpto DEF SeedInv, TypeOK
<1>2. proc[p].missing \in ReferenceSets
  BY States DEF SeedInv, ProcTyped, ReadStrategies, Reading
<1>3. /\ missing \in ReferenceSets
      /\ missing.instruments = proc[p].missing.instruments
      /\ missing.flags = proc[p].missing.flags
      /\ missing.strategies = {s \in Now.strategies : ~Defined(s)}
  BY <1>1, <1>2 DEF ReferenceSets
<1>. QED
  BY <1>3 DEF ReadStrategies

(* A commit brings the tables to the release, and changes no row if they   *)
(* were there.                                                             *)
LEMMA CommitStep ==
    ASSUME SeedInv, NEW p \in Procs, CommitSeed(p)
    PROVE  /\ Complete'
           /\ \A f \in DOMAIN flags : f \in DOMAIN flags' /\ flags'[f] = flags[f]
           /\ \A f \in DOMAIN flags' : flags'[f] \in BOOLEAN
           /\ definitions' \in [Strategies -> Nat]
           /\ FirstDefinitionsUnique'
<1>. DEFINE missing == proc[p].missing
<1>1. /\ proc[p].pc = "commit" /\ missing \in ReferenceSets /\ proc[p] \notin {Down, Up}
  BY States DEF SeedInv, ProcTyped, CommitSeed, Reading
<1>2. MissingOK(p)
  BY <1>1 DEF SeedInv, Levels
<1>3. /\ missing.instruments \cap instruments = {} /\ missing.flags \cap DOMAIN flags = {}
      /\ instruments' = instruments \cup missing.instruments
      /\ flags' = SeededFlags(missing)
      /\ definitions' = [s \in Strategies |->
            definitions[s] + (IF s \in missing.strategies THEN 1 ELSE 0)]
      /\ release' = release
  BY DEF CommitSeed, Conflict
<1>4. /\ DOMAIN flags' = DOMAIN flags \cup missing.flags
      /\ \A f \in DOMAIN flags : f \in DOMAIN flags' /\ flags'[f] = flags[f]
      /\ \A f \in DOMAIN flags' : flags'[f] \in BOOLEAN
  BY <1>3 DEF SeededFlags, SeedInv, TypeOK
<1>5. /\ definitions \in [Strategies -> Nat] /\ definitions' \in [Strategies -> Nat]
      /\ \A s \in Strategies :
            definitions'[s] = definitions[s] + (IF s \in missing.strategies THEN 1 ELSE 0)
  BY <1>3 DEF SeedInv, TypeOK
<1>6. PICK n \in 0 .. release : SeededTo(n)
  BY DEF SeedInv, Levels
<1>7. /\ Upto("instruments", n) \subseteq Now.instruments
      /\ Upto("flags", n) \subseteq Now.flags
      /\ Upto("strategies", n) \subseteq Now.strategies
      /\ Now.strategies \subseteq Strategies
      /\ Upto("instruments", release) = Now.instruments
      /\ Upto("flags", release) = Now.flags
      /\ Upto("strategies", release) = Now.strategies
  <2>1. release \in 1 .. Len(Releases) /\ Len(Releases) \in Nat
    BY OperationsAssumption DEF SeedInv, TypeOK
  <2>2. n \in 0 .. Len(Releases) /\ release \in 0 .. Len(Releases) /\ n <= release
    BY <2>1
  <2>. QED
    BY <2>1, <2>2, UptoRelease, NowUpto
<1>8. instruments' = Now.instruments /\ DOMAIN flags' = Now.flags
  <2>1. CASE Complete
    BY <1>2, <1>3, <1>4, <1>7, <2>1 DEF MissingOK, Complete, SeededTo
  <2>2. CASE ~Complete
    BY <1>1, <1>2, <1>3, <1>4, <1>6, <1>7, <2>2 DEF MissingOK, SeededTo
  <2>. QED
    BY <2>1, <2>2
<1>9. \A s \in Strategies : definitions'[s] > 0 <=> s \in Now.strategies
  <2>1. CASE Complete
    BY <1>2, <1>5, <1>7, <2>1 DEF MissingOK, Complete, SeededTo, Defined
  <2>2. CASE ~Complete
    <3>1. missing.strategies = {s \in Now.strategies : ~Defined(s)}
      BY <1>1, <1>2, <2>2 DEF MissingOK
    <3>. QED
      BY <1>5, <1>6, <1>7, <3>1 DEF SeededTo, Defined
  <2>. QED
    BY <2>1, <2>2
<1>10. Complete'
  BY <1>3, <1>7, <1>8, <1>9 DEF Complete, SeededTo, Defined, Now
<1>11. ASSUME NEW s \in Releases[1].strategies PROVE definitions'[s] <= 1
  <2>0. s \in Strategies
    BY FirstRelease, OperationsAssumption DEF Strategies
  <2>1. definitions[s] <= 1 /\ KeyMissing(p)
    BY <1>1 DEF SeedInv, Guarded, FirstDefinitionsUnique
  <2>2. CASE Complete
    <3>1. missing.instruments = {} /\ missing.flags = {}
      BY <1>2, <1>3, <1>7, <2>2 DEF MissingOK, Complete, SeededTo
    <3>. QED
      BY <1>5, <2>0, <2>1, <3>1 DEF KeyMissing
  <2>3. CASE ~Complete
    <3>1. s \in missing.strategies => definitions[s] = 0
      BY <1>1, <1>2, <1>5, <2>0, <2>3 DEF MissingOK, Defined
    <3>. QED
      BY <1>5, <2>0, <2>1, <3>1
  <2>. QED
    BY <2>2, <2>3
<1>. QED
  BY <1>4, <1>5, <1>10, <1>11 DEF FirstDefinitionsUnique

-----------------------------------------------------------------------------
LEMMA SeedInit == Init => SeedInv
<1>. SUFFICES ASSUME Init PROVE SeedInv
  OBVIOUS
<1>1. Len(Releases) \in Nat \ {0} /\ MaxRuns \in Nat /\ IsFiniteSet(Workers)
  BY OperationsAssumption
<1>2. Cardinality(Workers) \in Nat
  BY <1>1, FS_CardinalityType
<1>3. TypeOK
  BY <1>1, <1>2 DEF Init, TypeOK
<1>4. ProcTyped /\ \A p \in Procs : proc[p] = Down
  BY DEF Init, ProcTyped, ProcStates
<1>5. RunsCounted
  <2>1. Running = {} /\ Cardinality(Running) = 0
    BY <1>4, FS_EmptySet DEF Running, Procs
  <2>. QED
    BY <1>1, <1>2, <2>1 DEF Init, RunsCounted
<1>6. SeededTo(0) /\ 0 \in 0 .. release
  BY UptoRelease DEF Init, SeededTo, Defined
<1>7. Down # Up
  BY DEF Down, Up
<1>8. Levels
  BY <1>4, <1>6, <1>7 DEF Levels
<1>9. Guarded
  BY <1>1, <1>4, FirstRelease DEF Guarded, FirstDefinitionsUnique, Init, Strategies
<1>. QED
  BY <1>3, <1>4, <1>5, <1>8, <1>9 DEF SeedInv

(* A step that leaves the rows there are, of one process at most.          *)
LEMMA SameTables ==
    ASSUME release' = release, instruments' = instruments, DOMAIN flags' = DOMAIN flags,
           definitions' = definitions
    PROVE  /\ \A n : SeededTo(n)' <=> SeededTo(n)
           /\ Complete' <=> Complete
           /\ \A p : proc'[p] = proc[p] => (MissingOK(p)' <=> MissingOK(p))
BY DEF SeededTo, Complete, MissingOK, Now, Defined

LEMMA OneProcess ==
    ASSUME SeedInv, release' = release, instruments' = instruments,
           DOMAIN flags' = DOMAIN flags, definitions' = definitions,
           NEW p \in Procs, NEW q \in ProcStates, proc' = [proc EXCEPT ![p] = q],
           q = Up => Complete,
           q \notin {Down, Up} => MissingOK(p)' /\ KeyMissing(p)'
    PROVE  ProcTyped' /\ Levels' /\ Guarded'
<1>1. /\ ProcTyped' /\ proc'[p] = q
      /\ \A o \in Procs \ {p} : proc'[o] = proc[o]
  BY DEF SeedInv, ProcTyped
<1>2. Levels'
  <2>1. \E n \in 0 .. release' : SeededTo(n)'
    BY SameTables DEF SeedInv, Levels
  <2>2. \A o \in Procs : proc'[o] = Up => Complete'
    BY <1>1, SameTables DEF SeedInv, Levels
  <2>3. \A o \in Procs : proc'[o] \notin {Down, Up} => MissingOK(o)'
    BY <1>1, SameTables DEF SeedInv, Levels
  <2>. QED
    BY <2>1, <2>2, <2>3 DEF Levels, Down, Up
<1>3. Guarded'
  <2>1. FirstDefinitionsUnique'
    BY DEF SeedInv, Guarded, FirstDefinitionsUnique
  <2>2. ASSUME NEW o \in Procs, proc'[o] \notin {Down, Up}
        PROVE  KeyMissing(o)'
    <3>1. CASE o = p
      BY <1>1, <2>2, <3>1
    <3>2. CASE o # p
      BY <1>1, <2>2, <3>2 DEF SeedInv, Guarded, KeyMissing
    <3>. QED
      BY <3>1, <3>2
  <2>. QED
    BY <2>1, <2>2 DEF Guarded, Down, Up
<1>. QED
  BY <1>1, <1>2, <1>3

LEMMA ReadingNext ==
    ASSUME SeedInv, NEW p \in Procs, Start(p) \/ ReadFlags(p) \/ ReadStrategies(p)
    PROVE  ProcTyped' /\ Levels' /\ Guarded'
<1>. DEFINE Taken(q, missing) ==
                /\ q.missing = missing
                /\ missing.instruments \subseteq Now.instruments
                /\ missing.flags \subseteq Now.flags
                /\ missing.strategies \subseteq Now.strategies
                /\ q.pc # "commit" => missing.strategies = {}
                /\ ~Complete =>
                      /\ missing.instruments = Now.instruments \ instruments
                      /\ q.pc \in {"strategies", "commit"} =>
                            missing.flags = Now.flags \ DOMAIN flags
                      /\ q.pc = "commit" =>
                            missing.strategies = {s \in Now.strategies : ~Defined(s)}
                /\ missing.strategies \cap Releases[1].strategies # {} =>
                      missing.instruments \cup missing.flags # {}
<1>1. release' = release /\ UNCHANGED <<instruments, flags, definitions>>
  BY DEF Start, ReadFlags, ReadStrategies, tables
<1>2. ASSUME NEW pc \in Reading, NEW missing \in ReferenceSets,
             proc' = [proc EXCEPT ![p] = Seeding(pc, missing)],
             Taken(Seeding(pc, missing), missing)
      PROVE  ProcTyped' /\ Levels' /\ Guarded'
  <2>1. /\ Seeding(pc, missing) \in ProcStates /\ Seeding(pc, missing) \notin {Down, Up}
        /\ Seeding(pc, missing).pc = pc /\ Seeding(pc, missing).missing = missing
    BY SeedingTyped
  <2>2. proc'[p] = Seeding(pc, missing)
    BY <1>2 DEF SeedInv, ProcTyped
  <2>3. MissingOK(p)' /\ KeyMissing(p)'
    BY <1>1, <1>2, <2>1, <2>2 DEF MissingOK, KeyMissing, Complete, SeededTo, Now, Defined
  <2>. QED
    BY <1>1, <1>2, <2>1, <2>3, OneProcess
<1>3. CASE Start(p)
  <2>1. PICK missing \in ReferenceSets :
              /\ proc' = [proc EXCEPT ![p] = Seeding("flags", missing)]
              /\ missing.instruments = Now.instruments \ instruments
              /\ missing.flags = {} /\ missing.strategies = {}
    BY <1>3, StartStep
  <2>2. Taken(Seeding("flags", missing), missing)
    BY <2>1 DEF Seeding
  <2>. QED
    BY <1>2, <2>1, <2>2 DEF Reading
<1>4. CASE ReadFlags(p)
  <2>1. PICK missing \in ReferenceSets :
              /\ proc' = [proc EXCEPT ![p] = Seeding("strategies", missing)]
              /\ missing.instruments = proc[p].missing.instruments
              /\ missing.flags = Now.flags \ DOMAIN flags
              /\ missing.strategies = proc[p].missing.strategies
    BY <1>4, ReadFlagsStep
  <2>2. proc[p].pc = "flags" /\ MissingOK(p)
    BY <1>4, States DEF ReadFlags, SeedInv, ProcTyped, Levels, Reading
  <2>3. Taken(Seeding("strategies", missing), missing)
    BY <2>1, <2>2 DEF Seeding, MissingOK
  <2>. QED
    BY <1>2, <2>1, <2>3 DEF Reading
<1>5. CASE ReadStrategies(p)
  <2>1. PICK missing \in ReferenceSets :
              /\ proc' = [proc EXCEPT ![p] = Seeding("commit", missing)]
              /\ missing.instruments = proc[p].missing.instruments
              /\ missing.flags = proc[p].missing.flags
              /\ missing.strategies = {s \in Now.strategies : ~Defined(s)}
    BY <1>5, ReadStrategiesStep
  <2>2. proc[p].pc = "strategies" /\ MissingOK(p)
    BY <1>5, States DEF ReadStrategies, SeedInv, ProcTyped, Levels, Reading
  <2>3. ASSUME missing.strategies \cap Releases[1].strategies # {}
        PROVE  missing.instruments \cup missing.flags # {}
    <3>1. PICK n \in 0 .. release : SeededTo(n)
      BY DEF SeedInv, Levels
    <3>2. PICK s \in Releases[1].strategies : s \in Now.strategies /\ ~Defined(s)
      BY <2>1, <2>3
    <3>3. release \in 1 .. Len(Releases) /\ Len(Releases) \in Nat /\ n \in 0 .. Len(Releases)
      BY OperationsAssumption DEF SeedInv, TypeOK
    <3>4. n = 0
      <4>1. s \in Strategies /\ s \notin Upto("strategies", n)
        BY <3>1, <3>2, <3>3, NowUpto DEF SeededTo
      <4>2. n \notin 1 .. Len(Releases)
        BY <4>1, FirstRelease
      <4>. QED
        BY <3>3, <4>2
    <3>5. instruments = {} /\ DOMAIN flags = {} /\ ~Complete
      BY <3>1, <3>2, <3>3, <3>4, UptoRelease, NowUpto DEF SeededTo, Complete
    <3>6. missing.instruments = Now.instruments /\ missing.flags = Now.flags
      BY <2>1, <2>2, <3>5 DEF MissingOK
    <3>7. Releases[1].instruments \subseteq Now.instruments /\ Releases[1].flags \subseteq Now.flags
      BY <3>3, FirstRelease, NowUpto
    <3>. QED
      BY <3>6, <3>7, OperationsAssumption
  <2>4. Taken(Seeding("commit", missing), missing)
    <3>1. missing.strategies \subseteq Now.strategies
      BY <2>1
    <3>. QED
      BY <2>1, <2>2, <2>3, <3>1 DEF Seeding, MissingOK
  <2>. QED
    BY <1>2, <2>1, <2>4 DEF Reading
<1>. QED
  BY <1>3, <1>4, <1>5

(* A commit completes the tables for every process at once.                *)
LEMMA CommitNext ==
    ASSUME SeedInv, NEW p \in Procs, CommitSeed(p)
    PROVE  ProcTyped' /\ Levels' /\ Guarded'
<1>1. /\ Complete' /\ release' = release
      /\ FirstDefinitionsUnique'
  BY CommitStep DEF CommitSeed
<1>2. /\ ProcTyped' /\ proc'[p] = Up
      /\ \A o \in Procs \ {p} : proc'[o] = proc[o]
  BY DEF CommitSeed, SeedInv, ProcTyped, ProcStates
<1>3. release' \in 0 .. release'
  BY <1>1, OperationsAssumption DEF SeedInv, TypeOK
<1>4. ASSUME NEW o \in Procs, proc'[o] \notin {Down, Up}
      PROVE  MissingOK(o)' /\ KeyMissing(o)'
  <2>1. proc'[o] = proc[o] /\ proc[o] \notin {Down, Up}
    BY <1>2, <1>4
  <2>2. MissingOK(o) /\ KeyMissing(o)
    BY <2>1 DEF SeedInv, Levels, Guarded
  <2>. QED
    BY <1>1, <2>1, <2>2 DEF MissingOK, KeyMissing, Now
<1>. QED
  BY <1>1, <1>2, <1>3, <1>4 DEF Levels, Guarded, Complete, Down, Up

LEMMA LevelsNext ==
    ASSUME SeedInv, [Next]_vars
    PROVE  ProcTyped' /\ Levels' /\ Guarded'
<1>1. CASE \E p \in Procs : Start(p) \/ ReadFlags(p) \/ ReadStrategies(p)
  BY <1>1, ReadingNext
<1>2. CASE \E p \in Procs : CommitSeed(p)
  BY <1>2, CommitNext
<1>3. CASE \E p \in Procs : SeedConflict(p) \/ FinishJob(p) \/ RaiseInJob(p)
  <2>1. PICK p \in Procs : SeedConflict(p) \/ FinishJob(p) \/ RaiseInJob(p)
    BY <1>3
  <2>2. /\ proc' = [proc EXCEPT ![p] = Down] /\ release' = release
        /\ UNCHANGED <<instruments, flags, definitions>>
    BY <2>1 DEF SeedConflict, FinishJob, RaiseInJob, tables
  <2>3. Down \in ProcStates /\ Down # Up
    BY DEF ProcStates, Down, Up
  <2>. QED
    BY <2>2, <2>3, OneProcess
<1>4. CASE Deploy
  <2>1. /\ release' = release + 1 /\ release' \in 1 .. Len(Releases)
        /\ proc' = [p \in Procs |-> Down]
        /\ UNCHANGED <<instruments, flags, definitions>>
    BY <1>4, OperationsAssumption DEF Deploy, SeedInv, TypeOK, tables
  <2>2. PICK n \in 0 .. release : SeededTo(n)
    BY DEF SeedInv, Levels
  <2>3. n \in 0 .. release' /\ SeededTo(n)'
    BY <2>1, <2>2, OperationsAssumption DEF SeedInv, TypeOK, SeededTo, Defined
  <2>4. Down # Up /\ Down \in ProcStates
    BY DEF Down, Up, ProcStates
  <2>5. ProcTyped' /\ \A p \in Procs : proc'[p] = Down
    BY <2>1, <2>4 DEF ProcTyped
  <2>6. Levels'
    BY <2>3, <2>4, <2>5 DEF Levels, Down, Up
  <2>7. Guarded'
    BY <2>1, <2>5 DEF Guarded, FirstDefinitionsUnique, SeedInv, Down, Up
  <2>. QED
    BY <2>5, <2>6, <2>7
<1>5. CASE /\ release' = release /\ proc' = proc /\ instruments' = instruments
           /\ DOMAIN flags' = DOMAIN flags /\ definitions' = definitions
  <2>1. ProcTyped'
    BY <1>5 DEF SeedInv, ProcTyped
  <2>2. Levels'
    BY <1>5, SameTables DEF SeedInv, Levels, Down, Up
  <2>3. Guarded'
    BY <1>5 DEF SeedInv, Guarded, FirstDefinitionsUnique, KeyMissing, Down, Up
  <2>. QED
    BY <2>1, <2>2, <2>3
<1>6. CASE \E p \in Procs, f \in Flags : PatchFlag(p, f)
  <2>1. DOMAIN flags' = DOMAIN flags
    BY <1>6 DEF PatchFlag
  <2>. QED
    BY <1>5, <1>6, <2>1 DEF PatchFlag
<1>7. CASE UNCHANGED vars \/ \E p \in Procs : CreateAlert(p) \/ AdminHealth(p)
  BY <1>5, <1>7 DEF vars, tables, CreateAlert, AdminHealth
<1>. QED
  BY <1>1, <1>2, <1>3, <1>4, <1>6, <1>7 DEF Next, Seed

-----------------------------------------------------------------------------
(* Job runs end at most as often as they may start.                        *)
LEMMA CountNext ==
    ASSUME SeedInv, [Next]_vars
    PROVE  /\ RunsCounted' /\ events' \in 0 .. ended'
           /\ ended' \in 0 .. MaxRuns + Cardinality(Workers)
<1>1. /\ IsFiniteSet(Workers) /\ Cardinality(Workers) \in Nat /\ MaxRuns \in Nat
      /\ ended \in Nat /\ events \in 0 .. ended
  BY OperationsAssumption, FS_CardinalityType DEF SeedInv, TypeOK
<1>2. \A S : S \subseteq Workers => IsFiniteSet(S) /\ Cardinality(S) \in Nat
                                      /\ Cardinality(S) <= Cardinality(Workers)
  BY <1>1, FS_Subset, FS_CardinalityType
<1>3. Running \subseteq Workers /\ Running' \subseteq Workers
  BY DEF Running
<1>4. ASSUME RunsCounted', events' \in 0 .. ended', ended' \in Nat
      PROVE  ended' \in 0 .. MaxRuns + Cardinality(Workers)
  <2>1. Cardinality(Running') \in Nat /\ ended' + Cardinality(Running') <= MaxRuns + Cardinality(Workers)
    BY <1>2, <1>3, <1>4 DEF RunsCounted
  <2>. QED
    BY <1>1, <1>4, <2>1
<1>5. CASE \E p \in Workers : Start(p)
  <2>1. ended < MaxRuns /\ ended' = ended /\ events' = events
    BY <1>5 DEF Start, Procs
  <2>2. RunsCounted'
    BY <1>1, <1>2, <1>3, <2>1 DEF RunsCounted
  <2>. QED
    BY <1>1, <1>4, <2>1, <2>2
<1>6. CASE \E p \in Workers : SeedConflict(p) \/ FinishJob(p) \/ RaiseInJob(p)
  <2>1. PICK p \in Workers : SeedConflict(p) \/ FinishJob(p) \/ RaiseInJob(p)
    BY <1>6
  <2>2. /\ proc' = [proc EXCEPT ![p] = Down] /\ ended' = ended + 1
        /\ events' \in {events, events + 1}
    BY <2>1 DEF SeedConflict, FinishJob, RaiseInJob, EndRun
  <2>3. proc[p] # Down
    BY <2>1 DEF SeedConflict, FinishJob, RaiseInJob, Down, Up
  <2>4. p \in Running /\ Running' = Running \ {p}
    BY <2>2, <2>3 DEF Running, SeedInv, ProcTyped, Procs
  <2>5. Cardinality(Running') = Cardinality(Running) - 1
    BY <1>2, <1>3, <2>4, FS_RemoveElement
  <2>6. RunsCounted'
    BY <1>1, <1>2, <1>3, <2>2, <2>5 DEF RunsCounted, SeedInv
  <2>. QED
    BY <1>1, <1>4, <2>2, <2>6
<1>7. CASE UNCHANGED <<ended, events>> /\ Running' \subseteq Running
  <2>1. Cardinality(Running') <= Cardinality(Running)
    BY <1>2, <1>3, <1>7, FS_Subset
  <2>2. RunsCounted'
    BY <1>1, <1>2, <1>3, <1>7, <2>1 DEF RunsCounted, SeedInv
  <2>. QED
    BY <1>1, <1>4, <1>7, <2>2
<1>8. ASSUME \A p \in Workers : ~Start(p) /\ ~SeedConflict(p) /\ ~FinishJob(p) /\ ~RaiseInJob(p)
      PROVE  UNCHANGED <<ended, events>> /\ Running' \subseteq Running
  <2>1. CASE Deploy
    BY <2>1 DEF Deploy, Running, Procs
  <2>2. CASE \E p \in Procs : ReadFlags(p) \/ ReadStrategies(p) \/ CommitSeed(p)
    <3>1. PICK p \in Procs : ReadFlags(p) \/ ReadStrategies(p) \/ CommitSeed(p)
      BY <2>2
    <3>2. proc[p] # Down /\ UNCHANGED <<ended, events>>
      BY <3>1 DEF ReadFlags, ReadStrategies, CommitSeed, Down
    <3>3. \A q \in Procs \ {p} : proc'[q] = proc[q]
      BY <3>1 DEF ReadFlags, ReadStrategies, CommitSeed, SeedInv, ProcTyped
    <3>. QED
      BY <3>2, <3>3 DEF Running, Procs
  <2>3. CASE \E p \in Web : Start(p) \/ SeedConflict(p) \/ FinishJob(p) \/ RaiseInJob(p)
    <3>1. PICK p \in Web : Start(p) \/ SeedConflict(p)
      BY <2>3, OperationsAssumption DEF FinishJob, RaiseInJob
    <3>2. p \notin Workers
      BY OperationsAssumption
    <3>3. UNCHANGED <<ended, events>>
      BY <3>1, <3>2 DEF Start, SeedConflict, EndRun
    <3>4. \A q \in Procs \ {p} : proc'[q] = proc[q]
      BY <3>1 DEF Start, SeedConflict, SeedInv, ProcTyped
    <3>. QED
      BY <3>2, <3>3, <3>4 DEF Running, Procs
  <2>4. CASE UNCHANGED <<proc, ended, events>>
    BY <2>4 DEF Running
  <2>. QED
    BY <1>8, <2>1, <2>2, <2>3, <2>4
       DEF Next, Seed, vars, PatchFlag, CreateAlert, AdminHealth, Procs
<1>. QED
  BY <1>5, <1>6, <1>7, <1>8

LEMMA SeedNext ==
    ASSUME SeedInv, [Next]_vars
    PROVE  SeedInv'
<1>1. CASE \E p \in Procs : CommitSeed(p)
  <2>1. PICK p \in Procs : CommitSeed(p)
    BY <1>1
  <2>2. /\ \A f \in DOMAIN flags' : flags'[f] \in BOOLEAN
        /\ definitions' \in [Strategies -> Nat] /\ Complete' /\ release' = release
    BY <2>1, CommitStep DEF CommitSeed
  <2>3. release' \in 1 .. Len(Releases)
    BY <2>2 DEF SeedInv, TypeOK
  <2>4. instruments' = Upto("instruments", release') /\ DOMAIN flags' = Upto("flags", release')
    BY <2>2 DEF Complete, SeededTo
  <2>5. /\ Upto("instruments", release') \subseteq Upto("instruments", Len(Releases))
        /\ Upto("flags", release') \subseteq Flags
    <3>1. /\ release' \in 0 .. Len(Releases) /\ Len(Releases) \in 0 .. Len(Releases)
          /\ release' <= Len(Releases)
      BY <2>3, OperationsAssumption
    <3>. QED
      BY <3>1, UptoRelease DEF Flags
  <2>. QED
    BY <2>2, <2>3, <2>4, <2>5, LevelsNext, CountNext DEF SeedInv, TypeOK
<1>2. CASE \E p \in Procs, f \in Flags : PatchFlag(p, f)
  <2>1. DOMAIN flags' = DOMAIN flags /\ \A f \in DOMAIN flags' : flags'[f] \in BOOLEAN
    BY <1>2 DEF PatchFlag, SeedInv, TypeOK
  <2>2. UNCHANGED <<release, instruments, definitions>>
    BY <1>2 DEF PatchFlag
  <2>. QED
    BY <2>1, <2>2, LevelsNext, CountNext DEF SeedInv, TypeOK
<1>3. CASE tables' = tables /\ release' \in 1 .. Len(Releases)
  BY <1>3, LevelsNext, CountNext DEF SeedInv, TypeOK, tables
<1>4. ASSUME \A p \in Procs : ~CommitSeed(p) /\ \A f \in Flags : ~PatchFlag(p, f)
      PROVE  tables' = tables /\ release' \in 1 .. Len(Releases)
  <2>1. release \in 1 .. Len(Releases) /\ Len(Releases) \in Nat
    BY OperationsAssumption DEF SeedInv, TypeOK
  <2>2. Deploy => release' \in 1 .. Len(Releases)
    BY <2>1 DEF Deploy
  <2>. QED
    BY <1>4, <2>1, <2>2
       DEF Next, Seed, vars, tables, Start, ReadFlags, ReadStrategies, SeedConflict, FinishJob,
           RaiseInJob, CreateAlert, AdminHealth, Deploy
<1>. QED
  BY <1>1, <1>2, <1>3, <1>4

LEMMA SeedHolds == Spec => []SeedInv
<1>1. SeedInv /\ [Next]_vars => SeedInv'
  BY SeedNext
<1>. QED
  BY <1>1, SeedInit, PTL DEF Spec

-----------------------------------------------------------------------------
(* Type correctness; job runs end no more often than they may start.       *)
THEOREM OperationsTyped == Spec => []TypeOK
BY SeedHolds, PTL DEF SeedInv

(* However many processes seed at once, fail and start again, each version *)
(* of a strategy of the first release is defined once, through every later *)
(* release: who misses it misses every row that has a key.                 *)
THEOREM DefinedOnce == Spec => []FirstDefinitionsUnique
<1>1. SeedInv => FirstDefinitionsUnique
  BY DEF SeedInv, Guarded
<1>. QED
  BY <1>1, SeedHolds, PTL

(* A process that serves or works finds the reference data of its release. *)
THEOREM ReferenceComplete == Spec => []ReferenceDataComplete
<1>1. SeedInv => ReferenceDataComplete
  <2>1. TypeOK /\ Complete => /\ Now.instruments \subseteq instruments
                              /\ Now.flags \subseteq DOMAIN flags
                              /\ \A s \in Now.strategies : Defined(s)
    BY NowUpto DEF TypeOK, Complete, SeededTo
  <2>. QED
    BY <2>1 DEF SeedInv, Levels, ReferenceDataComplete
<1>. QED
  BY <1>1, SeedHolds, PTL

(* Seeding keeps every flag row as operators left it.                      *)
THEOREM FlagsKept == Spec => PatchesSurvive
<1>1. ASSUME SeedInv, [Next]_vars
      PROVE  [proc' # proc => \A f \in DOMAIN flags : f \in DOMAIN flags' /\ flags'[f] = flags[f]]_vars
  <2>1. CASE \E p \in Procs : CommitSeed(p)
    BY <1>1, <2>1, CommitStep
  <2>2. CASE flags' = flags \/ proc' = proc
    BY <2>2
  <2>. QED
    BY <1>1, <2>1, <2>2
       DEF Next, Seed, vars, tables, Start, ReadFlags, ReadStrategies, SeedConflict, FinishJob,
           RaiseInJob, PatchFlag, CreateAlert, AdminHealth, Deploy
<1>. QED
  BY <1>1, SeedHolds, PTL DEF Spec, PatchesSurvive

=============================================================================
