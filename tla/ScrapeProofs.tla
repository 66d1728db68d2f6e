----------------------------- MODULE ScrapeProofs -----------------------------
(***************************************************************************)
(* Proofs about Scrape, for any homes, limits and bounds.  What is said of *)
(* the rows and of the way to the matcher holds for any number of runs     *)
(* that overlap; what is said of health, of the cooldown and of misses     *)
(* holds while one run at a time reads the source, and says so.            *)
(***************************************************************************)
EXTENDS Scrape, TLAPS, FiniteSetTheorems

-----------------------------------------------------------------------------
(***************************************************************************)
(* Types                                                                   *)
(***************************************************************************)

\* What a run looked at, and what it took a snapshot of, is kept per run.
KeptPerRun == DOMAIN look = Runs /\ DOMAIN snap = Runs

\* A row is active only below the limit, and so is every miss to be counted on.
ActiveBelow == \A h \in Homes : rows[h] = "active" => miss[h] < DelistAfter
SnapBelow   == \A r \in Runs : \A h \in DOMAIN snap[r] : snap[r][h] < DelistAfter

\* Every refusal counted was a fault, and so is every refusal about to be counted.
BlockedRuns == {r \in Runs : pc[r] = "blocked"}
FaultsCounted ==
  /\ fails + Cardinality(BlockedRuns) <= faults
  /\ refusals + Cardinality(BlockedRuns) <= faults

TypeInv == TypeOK /\ KeptPerRun /\ ActiveBelow /\ SnapBelow /\ FaultsCounted

\* Finitely many runs are about to count a refusal.
LEMMA BlockedFinite == IsFiniteSet(BlockedRuns) /\ Cardinality(BlockedRuns) \in Nat
<1>1. BlockedRuns \in SUBSET Runs
  BY DEF BlockedRuns
<1> QED
  BY <1>1, RunsAssumption, FS_Subset, FS_CardinalityType

\* The empty function keeps nothing.
LEMMA EmptyFunction == DOMAIN <<>> = {}
OBVIOUS

\* The types hold at the start.
LEMMA TypeInit == Init => TypeInv
<1> SUFFICES ASSUME Init PROVE TypeInv
  OBVIOUS
<1>1. TypeOK /\ KeptPerRun
  BY ScrapeBoundsAssumption, DelistAssumption, EmptyFunction
     DEF Init, TypeOK, RowStatus, Pcs, Modes, KeptPerRun
<1>2. ActiveBelow /\ SnapBelow
  BY EmptyFunction DEF Init, ActiveBelow, SnapBelow
<1>3. BlockedRuns = {}
  BY DEF Init, BlockedRuns
<1>4. FaultsCounted
  BY <1>3, FS_EmptySet DEF Init, FaultsCounted
<1> QED
  BY <1>1, <1>2, <1>4 DEF TypeInv

\* A run about to count a refusal leaves room for it among the faults.
LEMMA RoomForRefusal ==
  ASSUME TypeInv, NEW r \in Runs, pc[r] = "blocked"
  PROVE  fails + 1 <= MaxFaults /\ refusals + 1 <= MaxFaults
<1>1. r \in BlockedRuns
  BY DEF BlockedRuns
<1>2. Cardinality(BlockedRuns) >= 1
  <2>1. Cardinality(BlockedRuns \ {r}) = Cardinality(BlockedRuns) - 1
    BY <1>1, BlockedFinite, FS_RemoveElement
  <2>2. Cardinality(BlockedRuns \ {r}) \in Nat
    BY BlockedFinite, FS_Subset, FS_CardinalityType
  <2> QED
    BY <2>1, <2>2, BlockedFinite
<1> QED
  BY <1>2, BlockedFinite, ScrapeBoundsAssumption DEF TypeInv, TypeOK, FaultsCounted

\* The site and the clock keep the types.
LEMMA TypeWorld ==
  ASSUME TypeInv, CooldownEnds \/ \E h \in Homes : SiteChange(h)
  PROVE  TypeOK' /\ KeptPerRun'
<1> USE ScrapeBoundsAssumption
<1>1. CASE CooldownEnds
  BY <1>1 DEF CooldownEnds, TypeInv, TypeOK, KeptPerRun, siteVars, rowVars, savedVars,
              tagVars, outputVars, boundVars, localVars, workVars
<1>2. ASSUME NEW h \in Homes, SiteChange(h) PROVE TypeOK' /\ KeptPerRun'
  BY <1>2 DEF SiteChange, TypeInv, TypeOK, KeptPerRun, rowVars, healthVars, savedVars,
              tagVars, outputVars, boundVars, localVars, workVars
<1> QED
  BY <1>1, <1>2

\* A run's way through the gate, the index, the sitemap and the pages keeps them.
LEMMA TypeReading ==
  ASSUME TypeInv, NEW r \in Runs,
         \/ \E m \in Modes : Begin(r, m)
         \/ GetIndex(r) \/ GetChild(r) \/ GetChildDirectly(r)
         \/ \E h \in Homes : GetPage(r, h)
         \/ Refused(r) \/ Unavailable(r) \/ Aborted(r)
         \/ JudgedOk(r) \/ JudgedBroken(r)
  PROVE  TypeOK' /\ KeptPerRun'
<1> USE ScrapeBoundsAssumption
<1> USE DEF TypeInv, KeptPerRun, Go, Pcs
<1>1. ASSUME NEW m \in Modes, Begin(r, m) PROVE TypeOK' /\ KeptPerRun'
  BY <1>1 DEF Begin, Reopened, KnownIds, TypeOK, siteVars, rowVars, savedVars,
              outputVars, boundVars, workVars
<1>2. CASE GetIndex(r)
  BY <1>2 DEF GetIndex, AfterIndex, TypeOK, siteVars, rowVars, healthVars, savedVars,
              outputVars, boundVars, localVars, workVars
<1>3. CASE GetChild(r)
  BY <1>3 DEF GetChild, ReadChild, Expand, AfterIndex, TypeOK, siteVars, rowVars, healthVars,
              savedVars, outputVars, boundVars, localVars
<1>4. CASE GetChildDirectly(r)
  BY <1>4 DEF GetChildDirectly, ReadChild, Expand, TypeOK, siteVars, rowVars, healthVars,
              savedVars, outputVars, boundVars, localVars
<1>5. ASSUME NEW h \in Homes, GetPage(r, h) PROVE TypeOK' /\ KeptPerRun'
  BY <1>5 DEF GetPage, TypeOK, siteVars, rowVars, healthVars, savedVars, outputVars,
              boundVars, localVars
<1>6. CASE Refused(r) \/ Unavailable(r) \/ Aborted(r)
  BY <1>6 DEF Refused, Unavailable, Aborted, AfterIndex, TypeOK, siteVars, rowVars,
              healthVars, savedVars, tagVars, outputVars, localVars, workVars
<1>7. CASE JudgedOk(r)
  BY <1>7 DEF JudgedOk, TypeOK, siteVars, rowVars, healthVars, savedVars, tagVars,
              outputVars, boundVars, localVars
<1>8. CASE JudgedBroken(r)
  BY <1>8 DEF JudgedBroken, TypeOK, siteVars, rowVars, savedVars, tagVars, outputVars,
              localVars, workVars
<1> QED
  BY <1>1, <1>2, <1>3, <1>4, <1>5, <1>6, <1>7, <1>8

\* So does the reconciliation: a miss is counted on a row below the limit.
LEMMA TypeReconciling ==
  ASSUME TypeInv, NEW r \in Runs,
         \/ \E h \in Homes : Look(r, h) \/ WriteListing(r, h) \/ CountMiss(r, h)
         \/ ReadActive(r) \/ MissesDone(r) \/ ClearFailures(r) \/ MarkBlocked(r)
  PROVE  TypeOK' /\ KeptPerRun'
<1> USE ScrapeBoundsAssumption, DelistAssumption
<1> USE DEF TypeInv, KeptPerRun, Go, Pcs
<1>1. ASSUME NEW h \in Homes, Look(r, h) PROVE TypeOK' /\ KeptPerRun'
  BY <1>1 DEF Look, TypeOK, siteVars, rowVars, healthVars, savedVars, tagVars,
              outputVars, boundVars, localVars
<1>2. ASSUME NEW h \in Homes, WriteListing(r, h) PROVE TypeOK' /\ KeptPerRun'
  <2>1. PICK s \in Written(look[r][h], rows[h]) : rows' = [rows EXCEPT ![h] = s]
    BY <1>2 DEF WriteListing
  <2>2. s \in RowStatus
    BY <1>2, <2>1 DEF WriteListing, Written, TypeOK, RowStatus
  <2>3. \A q \in Runs : look'[q] = IF q = r THEN <<>> ELSE look[q]
    BY <1>2 DEF WriteListing
  <2> QED
    BY <1>2, <2>1, <2>2, <2>3, EmptyFunction
       DEF WriteListing, TypeOK, siteVars, healthVars, savedVars, tagVars, outputVars,
           boundVars, localVars
<1>3. ASSUME NEW h \in Homes, CountMiss(r, h) PROVE TypeOK' /\ KeptPerRun'
  <2>1. snap[r][h] + 1 \in 0..DelistAfter
    BY <1>3 DEF CountMiss, TypeOK, SnapBelow
  <2>2. /\ rows' \in [Homes -> RowStatus]
        /\ miss' \in [Homes -> 0..DelistAfter]
        /\ passes' \in [Homes -> Nat]
    BY <1>3, <2>1 DEF CountMiss, TypeOK, RowStatus
  <2>3. \A q \in Runs : /\ DOMAIN snap'[q] \subseteq DOMAIN snap[q]
                        /\ \A g \in DOMAIN snap'[q] : snap'[q][g] = snap[q][g]
    BY <1>3 DEF CountMiss
  <2> QED
    BY <1>3, <2>2, <2>3
       DEF CountMiss, TypeOK, siteVars, healthVars, savedVars, tagVars, outputVars,
           boundVars, localVars
<1>4. CASE ReadActive(r)
  <2>1. /\ DOMAIN snap' = Runs
        /\ \A q \in Runs : /\ DOMAIN snap'[q] \subseteq Homes
                           /\ \A h \in DOMAIN snap'[q] : snap'[q][h] \in 0..DelistAfter
    <3>1. CASE snap' = snap
      BY <3>1 DEF TypeOK
    <3>2. CASE snap' # snap
      <4>1. PICK S \in SUBSET Homes : snap' = [snap EXCEPT ![r] = [h \in S |-> miss[h]]]
        BY <1>4, <3>2 DEF ReadActive
      <4> QED
        BY <4>1 DEF TypeOK
    <3> QED
      BY <3>1, <3>2
  <2>2. pc' \in [Runs -> Pcs]
    <3>1. PICK p \in {"missing", "clean"} : pc' = [pc EXCEPT ![r] = p]
      BY <1>4, Zenon DEF ReadActive
    <3> QED
      BY <3>1 DEF TypeOK
  <2>3. UNCHANGED <<siteVars, rowVars, healthVars, savedVars, tagVars, outputVars,
                    boundVars, localVars, tasks, got, look, seen, fresh, done>>
    BY <1>4 DEF ReadActive
  <2> QED
    BY <2>1, <2>2, <2>3
       DEF TypeOK, siteVars, rowVars, healthVars, savedVars, tagVars, outputVars,
           boundVars, localVars
<1>5. CASE MissesDone(r)
  BY <1>5 DEF MissesDone, TypeOK, siteVars, rowVars, healthVars, savedVars, tagVars,
              outputVars, boundVars, localVars, workVars
<1>6. CASE ClearFailures(r)
  BY <1>6 DEF ClearFailures, TypeOK, siteVars, rowVars, savedVars, tagVars, outputVars,
              boundVars, localVars
<1>7. CASE MarkBlocked(r)
  <2>1. fails + 1 \in 0..MaxFaults /\ refusals + 1 \in 0..MaxFaults
    BY <1>7, RoomForRefusal DEF MarkBlocked, TypeOK
  <2>2. LevelOf(failsRead[r]) \in 0..MaxLevel
    BY DEF LevelOf, TypeOK
  <2> QED
    BY <1>7, <2>1, <2>2
       DEF MarkBlocked, Counted, TypeOK, siteVars, rowVars, savedVars, tagVars, outputVars,
           boundVars, localVars, workVars
<1> QED
  BY <1>1, <1>2, <1>3, <1>4, <1>5, <1>6, <1>7

\* And its end, whichever it is.
LEMMA TypeEnding ==
  ASSUME TypeInv, NEW r \in Runs,
         SaveAndMatch(r) \/ SaveAndStop(r) \/ Match(r) \/ Crash(r)
  PROVE  TypeOK' /\ KeptPerRun'
<1> USE ScrapeBoundsAssumption
<1> USE DEF TypeInv, KeptPerRun, Go, Pcs, Modes
<1>1. CASE SaveAndMatch(r)
  BY <1>1 DEF SaveAndMatch, SaveTags, TypeOK, siteVars, rowVars, healthVars, tagVars,
              outputVars, boundVars, localVars, workVars
<1>2. Forget(r) =>
        /\ pc' \in [Runs -> Pcs] /\ mode' \in [Runs -> Modes]
        /\ known' \in [Runs -> SUBSET Homes] /\ failsRead' \in [Runs -> 0..MaxFaults]
        /\ itag' \in [Runs -> Nat \cup {NoTag}] /\ ctag' \in [Runs -> Nat \cup {NoTag}]
        /\ ptags' \in [Runs -> SUBSET Homes] /\ tasks' \in [Runs -> SUBSET Homes]
        /\ got' \in [Runs -> SUBSET Homes] /\ seen' \in [Runs -> SUBSET Homes]
        /\ fresh' \in [Runs -> SUBSET Homes] /\ done' \in [Runs -> BOOLEAN]
  BY DEF Forget, TypeOK
<1>3. Forget(r) =>
        /\ KeptPerRun'
        /\ \A q \in Runs : /\ look'[q] = IF q = r THEN <<>> ELSE look[q]
                           /\ snap'[q] = IF q = r THEN <<>> ELSE snap[q]
  BY DEF Forget
<1>4. CASE SaveAndStop(r)
  BY <1>2, <1>3, <1>4, EmptyFunction
     DEF SaveAndStop, SaveTags, TypeOK, siteVars, rowVars, healthVars, outputVars, boundVars
<1>5. CASE Match(r)
  <2>1. announced' \in [Homes -> Nat]
    BY <1>5 DEF Match, Announced, TypeOK
  <2> QED
    BY <1>2, <1>3, <1>5, <2>1, EmptyFunction
       DEF Match, TypeOK, siteVars, rowVars, healthVars, savedVars, boundVars
<1>6. CASE Crash(r)
  <2>1. crashes' \in 0..MaxCrashes /\ orphans' \in SUBSET Homes
    BY <1>6 DEF Crash, TypeOK
  <2> QED
    BY <1>2, <1>3, <1>6, <2>1, EmptyFunction
       DEF Crash, TypeOK, siteVars, rowVars, healthVars, savedVars
<1> QED
  BY <1>1, <1>4, <1>5, <1>6

\* A step that touches no row and takes no snapshot keeps the limit.
LEMMA BelowFrame ==
  ASSUME ActiveBelow, SnapBelow, UNCHANGED <<rows, miss>>,
         \A r \in Runs : /\ DOMAIN snap'[r] \subseteq DOMAIN snap[r]
                         /\ \A h \in DOMAIN snap'[r] : snap'[r][h] = snap[r][h]
  PROVE  ActiveBelow' /\ SnapBelow'
BY DEF ActiveBelow, SnapBelow

\* Rows are active below the limit: a written row starts from no miss, and the
\* miss that reaches the limit delists.
LEMMA BelowStep == TypeInv /\ [Next]_vars => ActiveBelow' /\ SnapBelow'
<1> SUFFICES ASSUME TypeInv, [Next]_vars PROVE ActiveBelow' /\ SnapBelow'
  OBVIOUS
<1> USE DelistAssumption
<1>1. TypeOK /\ KeptPerRun /\ ActiveBelow /\ SnapBelow
  BY DEF TypeInv
<1>2. ASSUME NEW r \in Runs, NEW h \in Homes, WriteListing(r, h)
      PROVE  ActiveBelow' /\ SnapBelow'
  <2>1. \A g \in Homes : \/ miss'[g] = miss[g] /\ rows'[g] = rows[g]
                         \/ g = h /\ miss'[g] = 0
    <3>1. PICK s \in Written(look[r][h], rows[h]) : rows' = [rows EXCEPT ![h] = s]
      BY <1>2 DEF WriteListing
    <3> QED
      BY <1>1, <1>2, <3>1 DEF WriteListing, TypeOK
  <2>2. snap' = snap
    BY <1>2 DEF WriteListing
  <2> QED
    BY <1>1, <2>1, <2>2 DEF ActiveBelow, SnapBelow
<1>3. ASSUME NEW r \in Runs, NEW h \in Homes, CountMiss(r, h)
      PROVE  ActiveBelow' /\ SnapBelow'
  <2>1. ActiveBelow'
    <3>1. snap[r][h] + 1 \in Nat
      BY <1>1, <1>3 DEF CountMiss, TypeOK
    <3>2. /\ miss' = [miss EXCEPT ![h] = snap[r][h] + 1]
          /\ rows' = [rows EXCEPT ![h] = IF miss'[h] >= DelistAfter THEN "delisted" ELSE @]
      BY <1>3 DEF CountMiss
    <3> QED
      BY <1>1, <3>1, <3>2 DEF ActiveBelow, TypeOK
  <2>2. SnapBelow'
    <3>1. \A q \in Runs : /\ DOMAIN snap'[q] \subseteq DOMAIN snap[q]
                          /\ \A g \in DOMAIN snap'[q] : snap'[q][g] = snap[q][g]
      BY <1>1, <1>3 DEF CountMiss, KeptPerRun
    <3> QED
      BY <1>1, <3>1 DEF SnapBelow
  <2> QED
    BY <2>1, <2>2
<1>4. ASSUME NEW r \in Runs, ReadActive(r)
      PROVE  ActiveBelow' /\ SnapBelow'
  <2>1. ActiveBelow'
    BY <1>1, <1>4 DEF ReadActive, rowVars, ActiveBelow
  <2>2. SnapBelow'
    <3>1. CASE snap' = snap
      BY <1>1, <3>1 DEF SnapBelow
    <3>2. CASE snap' # snap
      <4>1. PICK S \in SUBSET Homes :
              /\ snap' = [snap EXCEPT ![r] = [h \in S |-> miss[h]]]
              /\ \A h \in S : rows[h] = "active"
        BY <1>4, <3>2 DEF ReadActive
      <4> QED
        BY <1>1, <4>1 DEF ActiveBelow, SnapBelow, KeptPerRun
    <3> QED
      BY <3>1, <3>2
  <2> QED
    BY <2>1, <2>2
<1>5. ASSUME NEW r \in Runs, SaveAndStop(r) \/ Match(r) \/ Crash(r)
      PROVE  ActiveBelow' /\ SnapBelow'
  <2>1. UNCHANGED <<rows, miss>>
    BY <1>5 DEF SaveAndStop, Match, Crash, rowVars
  <2>2. \A q \in Runs : snap'[q] = IF q = r THEN <<>> ELSE snap[q]
    BY <1>1, <1>5 DEF SaveAndStop, Match, Crash, Forget, KeptPerRun
  <2> QED
    BY <1>1, <2>1, <2>2, EmptyFunction, BelowFrame
<1>6. CASE UNCHANGED <<rows, miss, snap>>
  BY <1>1, <1>6, BelowFrame
<1>7. ASSUME NEW r \in Runs,
             \/ \E m \in Modes : Begin(r, m)
             \/ GetIndex(r) \/ GetChild(r) \/ GetChildDirectly(r)
             \/ \E h \in Homes : GetPage(r, h) \/ Look(r, h)
             \/ Refused(r) \/ Unavailable(r) \/ Aborted(r)
             \/ JudgedOk(r) \/ JudgedBroken(r)
             \/ MissesDone(r) \/ ClearFailures(r) \/ MarkBlocked(r) \/ SaveAndMatch(r)
      PROVE  UNCHANGED <<rows, miss, snap>>
  BY <1>7 DEF Begin, GetIndex, GetChild, GetChildDirectly, GetPage, Look, Refused,
              Unavailable, Aborted, JudgedOk, JudgedBroken, MissesDone, ClearFailures,
              MarkBlocked, SaveAndMatch, rowVars, workVars
<1>8. UNCHANGED vars \/ CooldownEnds \/ (\E h \in Homes : SiteChange(h))
        => UNCHANGED <<rows, miss, snap>>
  BY DEF vars, CooldownEnds, SiteChange, rowVars, workVars
<1> QED
  BY <1>2, <1>3, <1>4, <1>5, <1>6, <1>7, <1>8 DEF Next, RunStep

\* A step that counts no refusal, and adds none to be counted.
LEMMA CountFrame ==
  ASSUME TypeInv, TypeOK', fails' <= fails, refusals' <= refusals, faults <= faults',
         BlockedRuns' \subseteq BlockedRuns
  PROVE  FaultsCounted'
<1>1. /\ Cardinality(BlockedRuns') <= Cardinality(BlockedRuns)
      /\ Cardinality(BlockedRuns') \in Nat
  BY BlockedFinite, FS_Subset, FS_CardinalityType
<1> QED
  BY <1>1, BlockedFinite DEF TypeInv, TypeOK, FaultsCounted

\* Every refusal is counted at most once, whichever runs meet it.
LEMMA CountStep ==
  ASSUME TypeInv, TypeOK', [Next]_vars
  PROVE  FaultsCounted'
<1>1. TypeOK /\ FaultsCounted
  BY DEF TypeInv
<1>2. ASSUME NEW r \in Runs, Refused(r) PROVE FaultsCounted'
  <2>1. BlockedRuns' = BlockedRuns \cup {r}
    BY <1>1, <1>2 DEF Refused, Go, BlockedRuns, TypeOK
  <2>2. Cardinality(BlockedRuns \cup {r}) =
          IF r \in BlockedRuns THEN Cardinality(BlockedRuns) ELSE Cardinality(BlockedRuns) + 1
    BY BlockedFinite, FS_AddElement
  <2> QED
    BY <1>1, <1>2, <2>1, <2>2, BlockedFinite DEF Refused, healthVars, TypeOK, FaultsCounted
<1>3. ASSUME NEW r \in Runs, MarkBlocked(r) PROVE FaultsCounted'
  <2>1. r \in BlockedRuns /\ BlockedRuns' = BlockedRuns \ {r}
    BY <1>1, <1>3 DEF MarkBlocked, Go, BlockedRuns, TypeOK
  <2>2. Cardinality(BlockedRuns') = Cardinality(BlockedRuns) - 1
    BY <2>1, BlockedFinite, FS_RemoveElement
  <2> QED
    BY <1>1, <1>3, <2>2, BlockedFinite
       DEF MarkBlocked, Counted, boundVars, TypeOK, FaultsCounted
<1>4. ASSUME NEW r \in Runs,
             RunStep(r) \/ (\E m \in Modes : Begin(r, m)) \/ Unavailable(r)
               \/ Aborted(r) \/ JudgedBroken(r) \/ Crash(r),
             ~MarkBlocked(r)
      PROVE  FaultsCounted'
  <2>1. fails' \in {fails, 0} /\ refusals' \in {refusals, 0} /\ faults' \in {faults, faults + 1}
    BY <1>4 DEF Begin, GetIndex, GetChild, GetChildDirectly, GetPage, Look, WriteListing,
                CountMiss, ReadActive, Unavailable, Aborted, JudgedOk, JudgedBroken,
                MissesDone, ClearFailures, SaveAndMatch, SaveAndStop, Match, Crash,
                RunStep, healthVars, boundVars
  <2>2. \A q \in Runs : pc'[q] = "blocked" => pc[q] = "blocked"
    <3>1. CASE \/ \E m \in Modes : Begin(r, m)
               \/ GetIndex(r) \/ GetChild(r) \/ GetChildDirectly(r)
               \/ Unavailable(r) \/ Aborted(r) \/ JudgedOk(r) \/ JudgedBroken(r)
      BY <1>1, <3>1 DEF Begin, GetIndex, GetChild, GetChildDirectly, Unavailable, Aborted,
                        JudgedOk, JudgedBroken, AfterIndex, Go, TypeOK
    <3>2. CASE \E h \in Homes : GetPage(r, h) \/ Look(r, h) \/ WriteListing(r, h) \/ CountMiss(r, h)
      BY <3>2 DEF GetPage, Look, WriteListing, CountMiss
    <3>3. CASE ReadActive(r)
      <4>1. PICK p \in {"missing", "clean"} : pc' = [pc EXCEPT ![r] = p]
        BY <3>3, Zenon DEF ReadActive, Go
      <4> QED
        BY <1>1, <4>1 DEF TypeOK
    <3>4. CASE MissesDone(r) \/ ClearFailures(r) \/ SaveAndMatch(r) \/ SaveAndStop(r)
                 \/ Match(r) \/ Crash(r)
      BY <1>1, <3>4 DEF MissesDone, ClearFailures, SaveAndMatch, SaveAndStop, Match, Crash,
                        Forget, Go, TypeOK
    <3> QED
      BY <1>4, <3>1, <3>2, <3>3, <3>4 DEF RunStep
  <2>3. BlockedRuns' \subseteq BlockedRuns
    BY <2>2 DEF BlockedRuns
  <2> QED
    BY <1>1, <2>1, <2>3, CountFrame DEF TypeOK
<1>5. CASE UNCHANGED <<fails, refusals, faults, pc>>
  BY <1>1, <1>5, CountFrame DEF BlockedRuns, TypeOK
<1>6. UNCHANGED vars \/ CooldownEnds \/ (\E h \in Homes : SiteChange(h))
        => UNCHANGED <<fails, refusals, faults, pc>>
  BY DEF vars, CooldownEnds, SiteChange, healthVars, boundVars
<1> QED
  BY <1>2, <1>3, <1>4, <1>5, <1>6 DEF Next

\* Together: every step keeps the types.
LEMMA TypeStep == TypeInv /\ [Next]_vars => TypeInv'
<1> SUFFICES ASSUME TypeInv, [Next]_vars PROVE TypeInv'
  OBVIOUS
<1>1. TypeOK' /\ KeptPerRun'
  <2>1. CASE UNCHANGED vars
    BY <2>1 DEF vars, TypeInv, TypeOK, KeptPerRun, siteVars, rowVars, healthVars,
                savedVars, tagVars, outputVars, boundVars, localVars, workVars
  <2> QED
    BY <2>1, TypeWorld, TypeReading, TypeReconciling, TypeEnding DEF Next, RunStep
<1> QED
  BY <1>1, BelowStep, CountStep DEF TypeInv

\* Every variable keeps its type, however many runs overlap: no miss count passes
\* the limit, no cooldown the maximum.
THEOREM TypeCorrect == Spec => []TypeOK
<1>1. TypeInv => TypeOK
  BY DEF TypeInv
<1> QED
  BY TypeInit, TypeStep, <1>1, PTL DEF Spec

-----------------------------------------------------------------------------
(***************************************************************************)
(* From the row to the matcher, with any number of runs                    *)
(***************************************************************************)

\* A run that has not reconciled has stored nothing new.
Early(r) ==
  \/ pc[r] \in Fetching \cup {"idle", "blocked"}
  \/ pc[r] = "save" /\ ~done[r]
NothingFresh == \A r \in Runs : Early(r) => fresh[r] = {}

\* A row that was there at the look, or in the snapshot, is there ever after.
LookedAt ==
  \A r \in Runs : /\ \A h \in DOMAIN look[r] : look[r][h] # "none" => rows[h] # "none"
                  /\ \A h \in DOMAIN snap[r] : rows[h] # "none"

AnnounceInv == TypeInv /\ NothingFresh /\ LookedAt /\ StoredIsAnnounced

\* Nothing is stored and nobody holds anything.
LEMMA AnnounceInit == Init => AnnounceInv
BY TypeInit, EmptyFunction DEF Init, AnnounceInv, NothingFresh, Early, LookedAt, StoredIsAnnounced

\* A step that stores nothing, looks at nothing and loses nothing.
LEMMA AnnounceFrame ==
  ASSUME AnnounceInv, UNCHANGED <<rows, look, snap, fresh, announced, orphans>>
  PROVE  LookedAt' /\ StoredIsAnnounced'
BY DEF AnnounceInv, LookedAt, StoredIsAnnounced

\* A new row is at once in the hands of the run that wrote it.
LEMMA AnnounceWrite ==
  ASSUME AnnounceInv, NEW r \in Runs, NEW h \in Homes, WriteListing(r, h)
  PROVE  NothingFresh' /\ LookedAt' /\ StoredIsAnnounced'
<1>1. TypeOK /\ KeptPerRun /\ NothingFresh /\ LookedAt /\ StoredIsAnnounced
  BY DEF AnnounceInv, TypeInv
<1>2. PICK s \in Written(look[r][h], rows[h]) : rows' = [rows EXCEPT ![h] = s]
  BY DEF WriteListing
<1>3. s # "none"
  BY <1>1, <1>2 DEF WriteListing, Written, LookedAt
<1>4. /\ pc[r] = "write"
      /\ h \in DOMAIN look[r]
      /\ look' = [look EXCEPT ![r] = <<>>]
      /\ fresh' = [fresh EXCEPT ![r] = IF look[r][h] = "none" THEN @ \cup {h} ELSE @]
      /\ UNCHANGED <<announced, orphans, pc, done, snap>>
  BY DEF WriteListing, outputVars
<1>5. NothingFresh'
  <2>1. \A q \in Runs \ {r} : fresh'[q] = fresh[q]
    BY <1>1, <1>4 DEF TypeOK
  <2>2. "write" \notin Fetching \cup {"idle", "blocked", "save"}
    BY DEF Fetching
  <2> QED
    BY <1>1, <1>4, <2>1, <2>2 DEF NothingFresh, Early
<1>6. LookedAt'
  BY <1>1, <1>2, <1>3, <1>4, EmptyFunction DEF LookedAt, KeptPerRun, TypeOK
<1>7. StoredIsAnnounced'
  <2> SUFFICES ASSUME NEW g \in Homes, rows'[g] # "none"
               PROVE  \/ announced'[g] > 0
                      \/ \E q \in Runs : g \in fresh'[q]
                      \/ g \in orphans'
    BY DEF StoredIsAnnounced
  <2>1. \A q \in Runs : fresh[q] \subseteq fresh'[q]
    BY <1>1, <1>4 DEF TypeOK
  <2>2. CASE rows[g] # "none"
    BY <1>1, <1>4, <2>1, <2>2 DEF StoredIsAnnounced
  <2>3. CASE rows[g] = "none"
    <3>1. g = h
      BY <1>1, <1>2, <2>3 DEF TypeOK
    <3>2. look[r][h] = "none"
      BY <1>1, <1>4, <2>3, <3>1 DEF LookedAt
    <3>3. h \in fresh'[r]
      BY <1>1, <1>4, <3>2 DEF TypeOK
    <3> QED
      BY <3>1, <3>3
  <2> QED
    BY <2>2, <2>3
<1> QED
  BY <1>5, <1>6, <1>7

\* However a run ends, what it had stored is announced, was never there, or is
\* counted as lost.
LEMMA AnnounceEnd ==
  ASSUME AnnounceInv, NEW r \in Runs, SaveAndStop(r) \/ Match(r) \/ Crash(r)
  PROVE  NothingFresh' /\ LookedAt' /\ StoredIsAnnounced'
<1>1. TypeOK /\ KeptPerRun /\ NothingFresh /\ LookedAt /\ StoredIsAnnounced
  BY DEF AnnounceInv, TypeInv
<1>2. /\ pc' = [pc EXCEPT ![r] = "idle"]
      /\ look' = [look EXCEPT ![r] = <<>>]
      /\ fresh' = [fresh EXCEPT ![r] = {}]
      /\ done' = [done EXCEPT ![r] = FALSE]
      /\ snap' = [snap EXCEPT ![r] = <<>>]
      /\ rows' = rows
  BY DEF SaveAndStop, Match, Crash, Forget, Go, rowVars
<1>3. NothingFresh'
  <2> SUFFICES ASSUME NEW q \in Runs,
                      Early(q)'
               PROVE  fresh'[q] = {}
    BY DEF NothingFresh
  <2>1. CASE q = r
    BY <1>1, <1>2, <2>1 DEF TypeOK
  <2>2. CASE q # r
    BY <1>1, <1>2, <2>2 DEF NothingFresh, Early, TypeOK
  <2> QED
    BY <2>1, <2>2
<1>4. LookedAt'
  BY <1>1, <1>2, EmptyFunction DEF LookedAt, KeptPerRun
<1>5. StoredIsAnnounced'
  <2> SUFFICES ASSUME NEW g \in Homes, rows[g] # "none"
               PROVE  \/ announced'[g] > 0
                      \/ \E q \in Runs : g \in fresh'[q]
                      \/ g \in orphans'
    BY <1>2 DEF StoredIsAnnounced
  <2>1. announced[g] \in Nat /\ announced'[g] >= announced[g] /\ orphans \subseteq orphans'
    BY <1>1 DEF SaveAndStop, Match, Announced, Crash, outputVars, TypeOK
  <2>2. CASE announced[g] > 0 \/ g \in orphans
    BY <1>1, <2>1, <2>2 DEF Match, Announced, SaveAndStop, Crash, outputVars, TypeOK
  <2>3. CASE \E q \in Runs \ {r} : g \in fresh[q]
    BY <1>1, <1>2, <2>3 DEF TypeOK
  <2>4. CASE g \in fresh[r]
    <3>1. ~SaveAndStop(r)
      BY <1>1, <2>4 DEF SaveAndStop, Reconciled, NothingFresh, Early
    <3>2. CASE Match(r)
      BY <2>1, <2>4, <3>2 DEF Match, Announced
    <3>3. CASE Crash(r)
      BY <2>4, <3>3 DEF Crash
    <3> QED
      BY <3>1, <3>2, <3>3
  <2> QED
    BY <1>1, <2>2, <2>3, <2>4 DEF StoredIsAnnounced
<1> QED
  BY <1>3, <1>4, <1>5

\* Every step keeps it.
LEMMA AnnounceStep == AnnounceInv /\ [Next]_vars => AnnounceInv'
<1> SUFFICES ASSUME AnnounceInv, [Next]_vars
             PROVE  NothingFresh' /\ LookedAt' /\ StoredIsAnnounced'
  BY TypeStep DEF AnnounceInv
<1>1. TypeOK /\ KeptPerRun /\ NothingFresh /\ LookedAt
  BY DEF AnnounceInv, TypeInv
<1>2. CASE UNCHANGED vars \/ CooldownEnds \/ \E h \in Homes : SiteChange(h)
  <2>1. UNCHANGED <<rows, look, snap, fresh, announced, orphans, pc, done>>
    BY <1>2 DEF vars, CooldownEnds, SiteChange, rowVars, outputVars, workVars
  <2> QED
    BY <1>1, <2>1, AnnounceFrame DEF NothingFresh, Early
<1>3. ASSUME NEW r \in Runs, NEW h \in Homes, Look(r, h)
      PROVE  NothingFresh' /\ LookedAt' /\ StoredIsAnnounced'
  <2>1. /\ look' = [look EXCEPT ![r] = [g \in {h} |-> rows[g]]]
        /\ UNCHANGED <<rows, snap, fresh, announced, orphans, pc, done>>
    BY <1>3 DEF Look, rowVars, outputVars
  <2>2. NothingFresh' /\ StoredIsAnnounced'
    BY <1>1, <2>1 DEF AnnounceInv, NothingFresh, Early, StoredIsAnnounced
  <2>3. LookedAt'
    BY <1>1, <2>1 DEF LookedAt, KeptPerRun
  <2> QED
    BY <2>2, <2>3
<1>4. ASSUME NEW r \in Runs,
             \/ \E m \in Modes : Begin(r, m)
             \/ GetIndex(r) \/ GetChild(r) \/ GetChildDirectly(r)
             \/ \E h \in Homes : GetPage(r, h) \/ CountMiss(r, h)
             \/ Refused(r) \/ Unavailable(r) \/ Aborted(r)
             \/ JudgedOk(r) \/ JudgedBroken(r)
             \/ ReadActive(r) \/ MissesDone(r) \/ ClearFailures(r) \/ MarkBlocked(r)
             \/ SaveAndMatch(r)
      PROVE  NothingFresh' /\ LookedAt' /\ StoredIsAnnounced'
  <2>1. UNCHANGED <<look, fresh, announced, orphans>>
    BY <1>4 DEF Begin, GetIndex, GetChild, GetChildDirectly, GetPage, CountMiss, Refused,
                Unavailable, Aborted, JudgedOk, JudgedBroken, ReadActive, MissesDone,
                ClearFailures, MarkBlocked, SaveAndMatch, outputVars, workVars
  <2>2. \A h \in Homes : rows'[h] # "none" <=> rows[h] # "none"
    <3>1. ASSUME NEW h \in Homes, CountMiss(r, h)
          PROVE  rows[h] # "none" /\ \E t \in {"delisted", rows[h]} : rows' = [rows EXCEPT ![h] = t]
      BY <1>1, <3>1 DEF CountMiss, LookedAt
    <3>2. CASE ~ \E h \in Homes : CountMiss(r, h)
      BY <1>4, <3>2 DEF Begin, GetIndex, GetChild, GetChildDirectly, GetPage, Refused,
                Unavailable, Aborted, JudgedOk, JudgedBroken, ReadActive, MissesDone,
                ClearFailures, MarkBlocked, SaveAndMatch, rowVars
    <3> QED
      BY <1>1, <3>1, <3>2 DEF TypeOK
  <2>3. \A q \in Runs : \A h \in DOMAIN snap'[q] : h \in DOMAIN snap[q] \/ rows[h] = "active"
    <3>1. CASE ReadActive(r)
      <4>1. CASE snap' # snap
        <5>1. PICK S \in SUBSET Homes :
                /\ snap' = [snap EXCEPT ![r] = [h \in S |-> miss[h]]]
                /\ \A h \in S : rows[h] = "active"
          BY <3>1, <4>1 DEF ReadActive
        <5> QED
          BY <1>1, <5>1 DEF KeptPerRun
      <4> QED
        BY <4>1
    <3>2. CASE \E h \in Homes : CountMiss(r, h)
      BY <1>1, <3>2 DEF CountMiss, KeptPerRun
    <3>3. CASE ~ReadActive(r) /\ ~ \E h \in Homes : CountMiss(r, h)
      BY <1>4, <3>3 DEF Begin, GetIndex, GetChild, GetChildDirectly, GetPage, Refused,
                Unavailable, Aborted, JudgedOk, JudgedBroken, MissesDone, ClearFailures,
                MarkBlocked, SaveAndMatch, workVars
    <3> QED
      BY <3>1, <3>2, <3>3
  <2>4. LookedAt'
    <3> SUFFICES ASSUME NEW q \in Runs
                 PROVE  /\ \A h \in DOMAIN look[q] : look[q][h] # "none" => rows'[h] # "none"
                        /\ \A h \in DOMAIN snap'[q] : rows'[h] # "none"
      BY <2>1 DEF LookedAt
    <3>1. DOMAIN look[q] \subseteq Homes /\ DOMAIN snap[q] \subseteq Homes
      BY <1>1 DEF TypeOK
    <3>2. DOMAIN snap'[q] \subseteq Homes
      BY TypeStep DEF AnnounceInv, TypeInv, TypeOK
    <3> QED
      BY <1>1, <2>2, <2>3, <3>1, <3>2 DEF LookedAt
  <2>5. StoredIsAnnounced'
    BY <2>1, <2>2 DEF AnnounceInv, StoredIsAnnounced
  <2>6. NothingFresh'
    <3> SUFFICES ASSUME NEW q \in Runs, Early(q)' PROVE Early(q)
      BY <1>1, <2>1 DEF NothingFresh
    <3> USE DEF Early, Fetching, Go
    <3>1. CASE \/ \E m \in Modes : Begin(r, m)
               \/ GetIndex(r) \/ GetChild(r) \/ GetChildDirectly(r) \/ Refused(r)
               \/ Unavailable(r) \/ Aborted(r) \/ JudgedBroken(r) \/ MarkBlocked(r)
      <4>1. pc[r] \in Fetching \cup {"idle", "blocked"}
        BY <3>1 DEF Begin, GetIndex, GetChild, GetChildDirectly, Refused, Unavailable,
                    Aborted, JudgedBroken, MarkBlocked
      <4>2. q # r => pc'[q] = pc[q] /\ done'[q] = done[q]
        <5>1. done' = done
          BY <3>1 DEF Begin, GetIndex, GetChild, GetChildDirectly, Refused, Unavailable,
                      Aborted, JudgedBroken, MarkBlocked, workVars
        <5>2. q # r => pc'[q] = pc[q]
          BY <1>1, <3>1
             DEF Begin, GetIndex, GetChild, GetChildDirectly, Refused, Unavailable, Aborted,
                 JudgedBroken, MarkBlocked, AfterIndex, TypeOK
        <5> QED
          BY <5>1, <5>2
      <4> QED
        BY <4>1, <4>2
    <3>2. CASE \E h \in Homes : GetPage(r, h) \/ CountMiss(r, h)
      BY <3>2 DEF GetPage, CountMiss
    <3>3. CASE ReadActive(r)
      <4>1. PICK p \in {"missing", "clean"} : pc' = [pc EXCEPT ![r] = p]
        BY <3>3, Zenon DEF ReadActive
      <4>2. done' = done
        BY <3>3 DEF ReadActive
      <4> QED
        BY <1>1, <4>1, <4>2 DEF TypeOK
    <3>4. CASE JudgedOk(r) \/ MissesDone(r) \/ SaveAndMatch(r)
      BY <1>1, <3>4 DEF JudgedOk, MissesDone, SaveAndMatch, workVars, TypeOK
    <3>5. CASE ClearFailures(r)
      BY <1>1, <3>5 DEF ClearFailures, TypeOK
    <3> QED
      BY <1>4, <3>1, <3>2, <3>3, <3>4, <3>5
  <2> QED
    BY <2>4, <2>5, <2>6
<1> QED
  BY <1>2, <1>3, <1>4, AnnounceWrite, AnnounceEnd DEF Next, RunStep

\* Every stored home has been handed to the matcher, is on its way there, or was
\* in the hands of a run that died: no refusal, verdict or overlap loses it.
THEOREM StoredIsAnnouncedAlways == Spec => []StoredIsAnnounced
<1>1. AnnounceInv => StoredIsAnnounced
  BY DEF AnnounceInv
<1> QED
  BY AnnounceInit, AnnounceStep, <1>1, PTL DEF Spec

-----------------------------------------------------------------------------
(***************************************************************************)
(* Health, cooldown and misses, while one run at a time reads the source   *)
(***************************************************************************)

\* The workflow's concurrency group starts one run at a time.
OneRun == \A r, s \in Runs : r = s

\* The count read at the gate stays the count of the table until it is used, and
\* the table counts the refusals since the last run that read the source.
CooldownKnown ==
  /\ refusals = fails
  /\ \A r \in Runs : pc[r] \in Fetching \cup {"blocked"} => failsRead[r] = fails

\* A miss is a sweep that did not find the home, and the snapshot a sweep counts
\* from is the table's.
MissesKnown ==
  /\ \A h \in Homes : passes[h] = miss[h]
  /\ \A r \in Runs : \A h \in DOMAIN snap[r] :
       pc[r] = "missing" /\ mode[r] = "sweep" /\ snap[r][h] = miss[h]

SerialInv == TypeInv /\ UnhealthyIsLeftAlone /\ CooldownKnown /\ MissesKnown

\* Nobody reads the source yet.
LEMMA SerialInit == Init => SerialInv
BY TypeInit, EmptyFunction
   DEF Init, SerialInv, UnhealthyIsLeftAlone, CooldownKnown, MissesKnown, Fetching

\* A run's requests find the source as the gate left it, and a verdict or a
\* refusal ends them.
LEMMA SourceStep ==
  ASSUME OneRun, SerialInv, TypeInv', NEW r \in Runs,
         \/ \E m \in Modes : Begin(r, m)
         \/ RunStep(r) \/ Refused(r) \/ Unavailable(r) \/ Aborted(r)
         \/ JudgedBroken(r) \/ Crash(r)
  PROVE  UnhealthyIsLeftAlone' /\ CooldownKnown'
<1>1. TypeOK /\ TypeOK' /\ UnhealthyIsLeftAlone /\ CooldownKnown
  BY DEF SerialInv, TypeInv
<1>2. SUFFICES /\ pc'[r] \in Fetching => health' = "ok"
               /\ pc'[r] \in Fetching \cup {"blocked"} => failsRead'[r] = fails'
               /\ refusals' = fails'
  BY DEF OneRun, UnhealthyIsLeftAlone, CooldownKnown
<1>3. pc \in [Runs -> Pcs] /\ failsRead \in [Runs -> 0..MaxFaults]
  BY <1>1 DEF TypeOK
<1>4. ASSUME NEW m \in Modes, Begin(r, m)
      PROVE  health' = "ok" /\ failsRead'[r] = fails' /\ refusals' = fails'
  <2>1. health' \in {"ok", "blocked", "broken"}
    BY <1>1 DEF TypeOK
  <2> QED
    BY <1>1, <1>3, <1>4, <2>1 DEF Begin, Usable, CooldownKnown
<1>5. CASE \/ GetIndex(r) \/ GetChild(r) \/ GetChildDirectly(r) \/ Unavailable(r) \/ Refused(r)
           \/ \E h \in Homes : GetPage(r, h)
  <2>1. pc[r] \in Fetching /\ UNCHANGED <<health, fails, refusals, failsRead>>
    BY <1>5 DEF GetIndex, GetChild, GetChildDirectly, Unavailable, Refused, GetPage,
                Fetching, healthVars, localVars
  <2> QED
    BY <1>1, <2>1 DEF UnhealthyIsLeftAlone, CooldownKnown
<1>6. CASE \E h \in Homes : Look(r, h) \/ WriteListing(r, h) \/ CountMiss(r, h)
  <2>1. pc[r] \in {"write", "missing"} /\ UNCHANGED <<pc, fails, refusals>>
    BY <1>6 DEF Look, WriteListing, CountMiss, healthVars
  <2> QED
    BY <1>1, <2>1 DEF Fetching, CooldownKnown
<1>7. CASE ReadActive(r)
  <2>1. PICK p \in {"missing", "clean"} : pc' = [pc EXCEPT ![r] = p]
    BY <1>7, Zenon DEF ReadActive, Go
  <2>2. UNCHANGED <<fails, refusals>>
    BY <1>7 DEF ReadActive, healthVars
  <2> QED
    BY <1>1, <1>3, <2>1, <2>2 DEF Fetching, CooldownKnown
<1>8. CASE \/ Aborted(r) \/ JudgedOk(r) \/ JudgedBroken(r) \/ MissesDone(r) \/ SaveAndMatch(r)
           \/ SaveAndStop(r) \/ Match(r) \/ Crash(r)
  <2>1. pc'[r] \in {"save", "write", "clean", "match", "idle"}
    BY <1>3, <1>8 DEF Aborted, JudgedOk, JudgedBroken, MissesDone, SaveAndMatch,
                      SaveAndStop, Match, Crash, Forget, Go
  <2>2. UNCHANGED <<fails, refusals>>
    BY <1>8 DEF Aborted, JudgedOk, JudgedBroken, MissesDone, SaveAndMatch, SaveAndStop,
                Match, Crash, healthVars
  <2> QED
    BY <1>1, <2>1, <2>2 DEF Fetching, CooldownKnown
<1>9. CASE MarkBlocked(r) \/ ClearFailures(r)
  <2>1. pc'[r] = "save"
    BY <1>3, <1>9 DEF MarkBlocked, ClearFailures, Go
  <2>2. refusals' = fails'
    BY <1>1, <1>9 DEF MarkBlocked, Counted, ClearFailures, CooldownKnown
  <2> QED
    BY <2>1, <2>2 DEF Fetching
<1> QED
  BY <1>4, <1>5, <1>6, <1>7, <1>8, <1>9 DEF RunStep

\* A run that is not counting misses holds no snapshot.
LEMMA MissesStep ==
  ASSUME OneRun, SerialInv, TypeInv', NEW r \in Runs,
         \/ \E m \in Modes : Begin(r, m)
         \/ RunStep(r) \/ Refused(r) \/ Unavailable(r) \/ Aborted(r)
         \/ JudgedBroken(r) \/ Crash(r)
  PROVE  MissesKnown'
<1>1. TypeOK /\ KeptPerRun /\ MissesKnown
  BY DEF SerialInv, TypeInv
<1>2. SUFFICES /\ \A h \in Homes : passes'[h] = miss'[h]
               /\ \A h \in DOMAIN snap'[r] :
                    pc'[r] = "missing" /\ mode'[r] = "sweep" /\ snap'[r][h] = miss'[h]
  BY DEF OneRun, MissesKnown
<1>3. pc[r] # "missing" => DOMAIN snap[r] = {}
  BY <1>1 DEF MissesKnown
<1>4. ASSUME NEW h \in Homes, WriteListing(r, h)
      PROVE  (\A g \in Homes : passes'[g] = miss'[g]) /\ DOMAIN snap'[r] = {}
  BY <1>1, <1>3, <1>4 DEF WriteListing, TypeOK, MissesKnown
<1>5. ASSUME NEW h \in Homes, CountMiss(r, h)
      PROVE  /\ \A g \in Homes : passes'[g] = miss'[g]
             /\ \A g \in DOMAIN snap'[r] :
                  pc'[r] = "missing" /\ mode'[r] = "sweep" /\ snap'[r][g] = miss'[g]
  <2>1. mode[r] = "sweep" /\ snap[r][h] = miss[h]
    BY <1>1, <1>5 DEF CountMiss, MissesKnown
  <2>2. /\ pc[r] = "missing"
        /\ miss' = [miss EXCEPT ![h] = @ + 1]
        /\ passes' = [passes EXCEPT ![h] = @ + 1]
        /\ UNCHANGED <<pc, mode>>
    BY <1>5, <2>1 DEF CountMiss, localVars
  <2>3. /\ DOMAIN snap'[r] = DOMAIN snap[r] \ {h}
        /\ \A g \in DOMAIN snap'[r] : snap'[r][g] = snap[r][g]
    BY <1>1, <1>5 DEF CountMiss, KeptPerRun
  <2> QED
    BY <1>1, <2>2, <2>3 DEF MissesKnown, TypeOK
<1>6. CASE ReadActive(r)
  <2>1. UNCHANGED <<passes, miss, mode>>
    BY <1>6 DEF ReadActive, rowVars, localVars
  <2>2. CASE mode[r] = "sweep"
    <3> DEFINE S == {h \in Homes : rows[h] = "active"} \ seen[r]
    <3>1. /\ snap' = [snap EXCEPT ![r] = [h \in S |-> miss[h]]]
          /\ pc' = [pc EXCEPT ![r] = "missing"]
      BY <1>6, <2>2 DEF ReadActive, CountsMisses, Go
    <3> QED
      BY <1>1, <2>1, <2>2, <3>1 DEF MissesKnown, KeptPerRun, TypeOK
  <2>3. CASE mode[r] # "sweep"
    BY <1>1, <1>3, <1>6, <2>1, <2>3 DEF ReadActive, CountsMisses, MissesKnown
  <2> QED
    BY <2>2, <2>3
<1>7. CASE SaveAndStop(r) \/ Match(r) \/ Crash(r)
  BY <1>1, <1>7, EmptyFunction
     DEF SaveAndStop, Match, Crash, Forget, KeptPerRun, rowVars, MissesKnown
<1>8. CASE \/ \E m \in Modes : Begin(r, m)
           \/ GetIndex(r) \/ GetChild(r) \/ GetChildDirectly(r)
           \/ \E h \in Homes : GetPage(r, h) \/ Look(r, h)
           \/ Refused(r) \/ Unavailable(r) \/ Aborted(r) \/ JudgedOk(r) \/ JudgedBroken(r)
           \/ MissesDone(r) \/ ClearFailures(r) \/ MarkBlocked(r) \/ SaveAndMatch(r)
  <2>1. UNCHANGED <<passes, miss, snap>>
    BY <1>8 DEF Begin, GetIndex, GetChild, GetChildDirectly, GetPage, Look, Refused,
                Unavailable, Aborted, JudgedOk, JudgedBroken, MissesDone, ClearFailures,
                MarkBlocked, SaveAndMatch, rowVars, workVars
  <2>2. DOMAIN snap[r] = {}
    <3>1. pc[r] # "missing" \/ snap[r] = <<>>
      BY <1>8 DEF Begin, GetIndex, GetChild, GetChildDirectly, GetPage, Look, Refused,
                  Unavailable, Aborted, JudgedOk, JudgedBroken, MissesDone, ClearFailures,
                  MarkBlocked, SaveAndMatch, Fetching
    <3> QED
      BY <1>3, <3>1, EmptyFunction
  <2> QED
    BY <1>1, <2>1, <2>2 DEF MissesKnown
<1> QED
  BY <1>4, <1>5, <1>6, <1>7, <1>8 DEF RunStep

\* Every step keeps the invariant of a single run.
LEMMA SerialStep == ASSUME OneRun PROVE SerialInv /\ [Next]_vars => SerialInv'
<1> SUFFICES ASSUME SerialInv, [Next]_vars PROVE SerialInv'
  OBVIOUS
<1>1. TypeInv'
  BY TypeStep DEF SerialInv
<1>2. CASE UNCHANGED vars \/ CooldownEnds \/ \E h \in Homes : SiteChange(h)
  <2>1. UNCHANGED <<pc, mode, health, fails, failsRead, refusals, miss, passes, snap>>
    BY <1>2 DEF vars, CooldownEnds, SiteChange, healthVars, rowVars, localVars, workVars
  <2> QED
    BY <1>1, <2>1 DEF SerialInv, UnhealthyIsLeftAlone, CooldownKnown, MissesKnown
<1> QED
  BY <1>1, <1>2, SourceStep, MissesStep DEF Next, SerialInv

\* The invariant holds throughout.
LEMMA SerialAlways == ASSUME OneRun PROVE Spec => []SerialInv
BY SerialInit, SerialStep, PTL DEF Spec

\* With one run at a time nothing is requested from a source that is blocked or
\* broken, whatever was read before the verdict.
THEOREM UnhealthyIsLeftAloneAlways == ASSUME OneRun PROVE Spec => []UnhealthyIsLeftAlone
<1>1. SerialInv => UnhealthyIsLeftAlone
  BY DEF SerialInv
<1> QED
  BY SerialAlways, <1>1, PTL

\* With one run at a time a row is delisted only by DELIST_AFTER_MISSES sweeps
\* that missed it since it was last stored.
THEOREM TwoMissesAlways == ASSUME OneRun PROVE Spec => TwoMissesToDelist
<1> DEFINE Delisted == \A h \in Homes :
                         rows[h] = "active" /\ rows'[h] = "delisted" => passes'[h] >= DelistAfter
<1>1. SerialInv /\ SerialInv' /\ [Next]_vars => [Delisted]_rows
  <2> SUFFICES ASSUME SerialInv, SerialInv', [Next]_vars, NEW h \in Homes,
                      rows[h] = "active", rows'[h] = "delisted"
               PROVE  passes'[h] >= DelistAfter
    BY Zenon
  <2>1. TypeOK /\ MissesKnown'
    BY DEF SerialInv, TypeInv
  <2>2. PICK r \in Runs, g \in Homes : WriteListing(r, g) \/ CountMiss(r, g)
    <3>1. rows' # rows
      OBVIOUS
    <3>2. UNCHANGED vars \/ CooldownEnds \/ (\E g \in Homes : SiteChange(g)) => UNCHANGED rows
      BY DEF vars, CooldownEnds, SiteChange, rowVars
    <3>3. ASSUME NEW r \in Runs,
                 \/ \E m \in Modes : Begin(r, m)
                 \/ RunStep(r) \/ Refused(r) \/ Unavailable(r) \/ Aborted(r)
                 \/ JudgedBroken(r) \/ Crash(r),
                 ~ \E g \in Homes : WriteListing(r, g) \/ CountMiss(r, g)
          PROVE  UNCHANGED rows
      BY <3>3 DEF RunStep, rowVars, Begin, GetIndex, GetChild, GetChildDirectly, GetPage,
                  Look, Refused, Unavailable, Aborted, JudgedOk, JudgedBroken, ReadActive,
                  MissesDone, ClearFailures, MarkBlocked, SaveAndMatch, SaveAndStop, Match,
                  Crash
    <3> QED
      BY <3>1, <3>2, <3>3 DEF Next
  <2>3. CASE WriteListing(r, g)
    <3>1. PICK s \in Written(look[r][g], rows[g]) : rows' = [rows EXCEPT ![g] = s]
      BY <2>3 DEF WriteListing
    <3>2. g = h /\ s = "delisted"
      BY <2>1, <3>1 DEF TypeOK
    <3> QED
      BY <3>1, <3>2 DEF Written
  <2>4. CASE CountMiss(r, g)
    <3>1. g = h /\ miss'[h] >= DelistAfter
      BY <2>1, <2>4 DEF CountMiss, TypeOK
    <3> QED
      BY <2>1, <3>1 DEF MissesKnown
  <2> QED
    BY <2>2, <2>3, <2>4
<1> QED
  BY SerialAlways, <1>1, PTL DEF Spec, TwoMissesToDelist

\* With one run at a time the n-th refusal in a row sets the n-th cooldown.
THEOREM CooldownEscalatesAlways == ASSUME OneRun PROVE Spec => CooldownEscalates
<1> DEFINE Escalates == health # "blocked" /\ health' = "blocked" => level' = LevelOf(refusals)
<1>1. SerialInv /\ [Next]_vars => [Escalates]_health
  <2> SUFFICES ASSUME SerialInv, [Next]_vars, health # "blocked", health' = "blocked"
               PROVE  level' = LevelOf(refusals)
    OBVIOUS
  <2>1. PICK r \in Runs : MarkBlocked(r)
    <3>1. health' # health
      OBVIOUS
    <3>2. UNCHANGED vars \/ CooldownEnds \/ (\E h \in Homes : SiteChange(h)) => UNCHANGED health
      BY DEF vars, CooldownEnds, SiteChange, healthVars
    <3>3. ASSUME NEW r \in Runs,
                 RunStep(r) \/ Refused(r) \/ Unavailable(r) \/ Aborted(r) \/ Crash(r),
                 ~MarkBlocked(r)
          PROVE  UNCHANGED health
      BY <3>3 DEF RunStep, healthVars, GetIndex, GetChild, GetChildDirectly, GetPage, Look,
                  WriteListing, CountMiss, Refused, Unavailable, Aborted, JudgedOk,
                  ReadActive, MissesDone, ClearFailures, SaveAndMatch, SaveAndStop, Match,
                  Crash
    <3>4. ASSUME NEW r \in Runs, JudgedBroken(r) \/ \E m \in Modes : Begin(r, m) PROVE FALSE
      BY <3>4 DEF JudgedBroken, Begin, Usable
    <3> QED
      BY <3>1, <3>2, <3>3, <3>4 DEF Next
  <2>2. failsRead[r] = refusals
    BY <2>1 DEF MarkBlocked, SerialInv, CooldownKnown
  <2> QED
    BY <2>1, <2>2 DEF MarkBlocked
<1> QED
  BY SerialAlways, <1>1, PTL DEF Spec, CooldownEscalates
=============================================================================
