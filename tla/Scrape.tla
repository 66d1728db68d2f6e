------------------------------- MODULE Scrape -------------------------------
(***************************************************************************)
(* One source and the runs that read it: worker/pipeline/run.py            *)
(* (_run_source and everything it calls up to queue_matches), with         *)
(* worker/pipeline/reconcile.py, worker/store.py and the OpenRent adapter. *)
(*                                                                         *)
(* The site serves a sitemap index, one child sitemap that names the homes *)
(* on the market, and a page per home.  Each answer carries an ETag, so a  *)
(* document the client has stored the current validator of answers 304.    *)
(* The child gets a new validator with every change of the site, the index *)
(* need not, and a page keeps the one it has.                              *)
(*                                                                         *)
(* A home's price and other tracked fields are not modelled: an update and *)
(* a touch leave the same status and miss count.                           *)
(***************************************************************************)
EXTENDS Integers, FiniteSets

CONSTANTS
  Homes,         \* homes the site may list
  Malformed,     \* homes whose page is extracted but rejected by normalize
  Runs,          \* worker runs that may be under way at once
  NoTag,         \* "no validator stored"
  DelistAfter,   \* DELIST_AFTER_MISSES
  MaxLevel,      \* doublings after which the cooldown is COOLDOWN_MAX_SECONDS
  MaxChanges,    \* bound: changes of the site
  MaxFaults,     \* bound: refusals, failed requests and broken verdicts
  MaxCrashes     \* bound: process deaths

ASSUME HomesAssumption  == IsFiniteSet(Homes) /\ Malformed \subseteq Homes
ASSUME RunsAssumption   == IsFiniteSet(Runs)
ASSUME TagAssumption    == NoTag \notin Nat
ASSUME DelistAssumption == DelistAfter \in Nat \ {0}
ASSUME ScrapeBoundsAssumption ==
  /\ MaxLevel \in Nat
  /\ MaxChanges \in Nat
  /\ MaxFaults \in Nat
  /\ MaxCrashes \in Nat

VARIABLES
  \* the site
  site,        \* homes on the market
  indexRev,    \* revision of the sitemap index
  \* the listings table
  rows,        \* listings.status, "none" without a row
  miss,        \* listings.miss_count
  \* the sources row
  health,      \* sources.health
  until,       \* sources.health_until: "none", "future" or "past"
  level,       \* doublings of the cooldown in force
  fails,       \* sources.consecutive_fails
  savedIndex, savedChild, savedPages,     \* config -> validators
  \* the runs
  pc, mode, known, itag, ctag, ptags, tasks, got, look, seen, fresh, snap,
  failsRead, done,
  \* bounds and history
  changes, faults, crashes,
  everLeft,    \* homes that have left the market at least once
  passes,      \* sweeps that found the home missing since it was last stored
  refusals,    \* refusals since the last run that read the source
  announced,   \* how often a home was handed to the matcher
  orphans      \* homes stored by a run that died before matching

siteVars    == <<site, indexRev, changes, everLeft>>
rowVars     == <<rows, miss, passes>>
healthVars  == <<health, until, level, fails, refusals>>
savedVars   == <<savedIndex, savedChild, savedPages>>
tagVars     == <<itag, ctag, ptags>>
outputVars  == <<announced, orphans>>
boundVars   == <<faults, crashes>>
localVars   == <<mode, known, failsRead>>
workVars    == <<tasks, got, look, seen, fresh, snap, done>>
vars == <<siteVars, rowVars, healthVars, savedVars, tagVars, outputVars,
          boundVars, localVars, pc, workVars>>

Modes == {"hot", "sweep"}
Pcs == {"idle", "index", "child", "direct", "fetch", "write", "absent",
        "missing", "clean", "blocked", "save", "match"}
Fetching == {"index", "child", "direct", "fetch"}

Init ==
  /\ site = {}
  /\ indexRev = 0
  /\ rows = [h \in Homes |-> "none"]
  /\ miss = [h \in Homes |-> 0]
  /\ health = "ok"
  /\ until = "none"
  /\ level = 0
  /\ fails = 0
  /\ savedIndex = NoTag
  /\ savedChild = NoTag
  /\ savedPages = {}
  /\ pc = [r \in Runs |-> "idle"]
  /\ mode = [r \in Runs |-> "hot"]
  /\ known = [r \in Runs |-> {}]
  /\ itag = [r \in Runs |-> NoTag]
  /\ ctag = [r \in Runs |-> NoTag]
  /\ ptags = [r \in Runs |-> {}]
  /\ tasks = [r \in Runs |-> {}]
  /\ got = [r \in Runs |-> {}]
  /\ look = [r \in Runs |-> <<>>]
  /\ seen = [r \in Runs |-> {}]
  /\ fresh = [r \in Runs |-> {}]
  /\ snap = [r \in Runs |-> <<>>]
  /\ failsRead = [r \in Runs |-> 0]
  /\ done = [r \in Runs |-> FALSE]
  /\ changes = 0
  /\ faults = 0
  /\ crashes = 0
  /\ everLeft = {}
  /\ passes = [h \in Homes |-> 0]
  /\ refusals = 0
  /\ announced = [h \in Homes |-> 0]
  /\ orphans = {}

-----------------------------------------------------------------------------
(***************************************************************************)
(* The site and the clock                                                  *)
(***************************************************************************)

\* A home is published or taken down; the index is rebuilt with it, or not.
SiteChange(h) ==
  /\ changes < MaxChanges
  /\ changes' = changes + 1
  /\ site' = IF h \in site THEN site \ {h} ELSE site \cup {h}
  /\ everLeft' = everLeft \cup (site \cap {h})
  /\ indexRev' \in {indexRev, changes'}
  /\ UNCHANGED <<rowVars, healthVars, savedVars, tagVars, outputVars, boundVars,
                 localVars, pc, workVars>>

CooldownEnds ==
  /\ until = "future"
  /\ until' = "past"
  /\ UNCHANGED <<siteVars, rowVars, health, level, fails, refusals, savedVars,
                 tagVars, outputVars, boundVars, localVars, pc, workVars>>

-----------------------------------------------------------------------------
(***************************************************************************)
(* A run: the gate, discovery and the pages                                *)
(***************************************************************************)

Go(r, p) == pc' = [pc EXCEPT ![r] = p]

\* The test that keeps a run away from an unhealthy source; the variant looks
\* for a block only.
UsableV1(s) == s # "blocked"
Usable(s) == s \notin {"blocked", "broken"}

\* known_external_ids: every row, delisted ones too.
KnownIds == {h \in Homes : rows[h] # "none"}

\* clear_source_cooldown_if_elapsed; the variant never reopens the source.
ReopenedV1 == health
Reopened == IF until = "past" THEN "ok" ELSE health

\* The gate, then the validators and the ids already stored.
Begin(r, m) ==
  /\ pc[r] = "idle"
  /\ health' = Reopened
  /\ until' = IF until = "past" THEN "none" ELSE until
  /\ Usable(Reopened)
  /\ Go(r, "index")
  /\ mode' = [mode EXCEPT ![r] = m]
  /\ known' = [known EXCEPT ![r] = KnownIds]
  /\ failsRead' = [failsRead EXCEPT ![r] = fails]
  /\ itag' = [itag EXCEPT ![r] = savedIndex]
  /\ ctag' = [ctag EXCEPT ![r] = savedChild]
  /\ ptags' = [ptags EXCEPT ![r] = savedPages]
  /\ UNCHANGED <<siteVars, rowVars, level, fails, refusals, savedVars,
                 outputVars, boundVars, workVars>>

\* After the index and what it links to: a sweep also names the child itself.
\* The variant relies on the index.
AfterIndexV1(r) == Go(r, "fetch")
AfterIndex(r) == Go(r, IF mode[r] = "sweep" THEN "direct" ELSE "fetch")

\* A 304 on the index skips it, and with it the children it links to.
GetIndex(r) ==
  /\ pc[r] = "index"
  /\ IF itag[r] = indexRev THEN AfterIndex(r) ELSE Go(r, "child")
  /\ itag' = [itag EXCEPT ![r] = indexRev]
  /\ UNCHANGED <<siteVars, rowVars, healthVars, savedVars, ctag, ptags,
                 outputVars, boundVars, localVars, workVars>>

\* expand drops the ids already known, in a sweep as well.
Expand(r) == site \ known[r]

\* The child sitemap: unchanged, it has no body and nothing is expanded.
ReadChild(r) ==
  /\ tasks' = [tasks EXCEPT ![r] = @ \cup (IF ctag[r] = changes THEN {} ELSE Expand(r))]
  /\ ctag' = [ctag EXCEPT ![r] = changes]

GetChild(r) ==
  /\ pc[r] = "child"
  /\ ReadChild(r)
  /\ AfterIndex(r)
  /\ UNCHANGED <<siteVars, rowVars, healthVars, savedVars, itag, ptags,
                 outputVars, boundVars, localVars, got, look,
                 seen, fresh, snap, done>>

GetChildDirectly(r) ==
  /\ pc[r] = "direct"
  /\ ReadChild(r)
  /\ Go(r, "fetch")
  /\ UNCHANGED <<siteVars, rowVars, healthVars, savedVars, itag, ptags,
                 outputVars, boundVars, localVars, got, look,
                 seen, fresh, snap, done>>

\* A listing page is used when it answers 200 with a body that can be read; a
\* 304 and a 404 are "unusable".  A 200 leaves its validator behind either way.
GetPage(r, h) ==
  /\ pc[r] = "fetch"
  /\ h \in tasks[r]
  /\ tasks' = [tasks EXCEPT ![r] = @ \ {h}]
  /\ got' = [got EXCEPT ![r] =
               IF h \in site \ ptags[r] THEN @ \cup {h} ELSE @]
  /\ ptags' = [ptags EXCEPT ![r] = @ \cup ({h} \cap site)]
  /\ UNCHANGED <<siteVars, rowVars, healthVars, savedVars, itag, ctag,
                 outputVars, boundVars, localVars, pc, look, seen, fresh, snap, done>>

\* Challenged or Blocked, from any request.
Refused(r) ==
  /\ pc[r] \in Fetching
  /\ faults < MaxFaults
  /\ faults' = faults + 1
  /\ Go(r, "blocked")
  /\ UNCHANGED <<siteVars, rowVars, healthVars, savedVars, tagVars, outputVars,
                 crashes, localVars, workVars>>

\* A document that is not there answers 404: nothing to expand, nothing to keep.
Unavailable(r) ==
  /\ pc[r] \in {"index", "child", "direct"}
  /\ faults < MaxFaults
  /\ faults' = faults + 1
  /\ IF pc[r] = "direct" THEN Go(r, "fetch") ELSE AfterIndex(r)
  /\ UNCHANGED <<siteVars, rowVars, healthVars, savedVars, tagVars, outputVars,
                 crashes, localVars, workVars>>

\* FetchFailed, BudgetExhausted, or Disallowed while discovering.
Aborted(r) ==
  /\ pc[r] \in Fetching
  /\ faults < MaxFaults
  /\ faults' = faults + 1
  /\ Go(r, "save")
  /\ UNCHANGED <<siteVars, rowVars, healthVars, savedVars, tagVars, outputVars,
                 crashes, localVars, workVars>>

-----------------------------------------------------------------------------
(***************************************************************************)
(* A run: health, reconciliation and what follows                          *)
(***************************************************************************)

\* Every page is read and the rows, if any, are fit to reconcile; the ones that
\* normalize rejected were dropped on the way.
JudgedOk(r) ==
  /\ pc[r] = "fetch"
  /\ tasks[r] = {}
  /\ Go(r, "write")
  /\ got' = [got EXCEPT ![r] = @ \ Malformed]
  /\ UNCHANGED <<siteVars, rowVars, healthVars, savedVars, tagVars, outputVars,
                 boundVars, localVars, tasks, look, seen, fresh, snap, done>>

\* evaluate says broken: _mark_broken, with no cooldown.
JudgedBroken(r) ==
  /\ pc[r] = "fetch"
  /\ tasks[r] = {}
  /\ got[r] # {}
  /\ faults < MaxFaults
  /\ faults' = faults + 1
  /\ health' = "broken"
  /\ until' = "none"
  /\ Go(r, "save")
  /\ UNCHANGED <<siteVars, rowVars, level, fails, refusals, savedVars, tagVars,
                 outputVars, crashes, localVars, workVars>>

\* existing_listing, before the row is written.
Look(r, h) ==
  /\ pc[r] = "write"
  /\ look[r] = <<>>
  /\ h \in got[r]
  /\ look' = [look EXCEPT ![r] = [g \in {h} |-> rows[g]]]
  /\ got' = [got EXCEPT ![r] = @ \ {h}]
  /\ seen' = [seen EXCEPT ![r] = @ \cup {h}]
  /\ UNCHANGED <<siteVars, rowVars, healthVars, savedVars, tagVars, outputVars,
                 boundVars, localVars, pc, tasks, fresh, snap, done>>

\* What becomes of the row now is, when it was old at the look: an insert that
\* meets a row leaves its status, a touch leaves it, an update and a revival set
\* it active.
Written(old, now) ==
  IF old = "none" THEN {IF now = "none" THEN "active" ELSE now}
                  ELSE {"active"} \cup (IF old = "active" THEN {now} ELSE {})

WriteListing(r, h) ==
  /\ pc[r] = "write"
  /\ h \in DOMAIN look[r]
  /\ \E s \in Written(look[r][h], rows[h]) : rows' = [rows EXCEPT ![h] = s]
  /\ miss' = [miss EXCEPT ![h] = 0]
  /\ passes' = [passes EXCEPT ![h] = 0]
  /\ fresh' = [fresh EXCEPT ![r] = IF look[r][h] = "none" THEN @ \cup {h} ELSE @]
  /\ look' = [look EXCEPT ![r] = <<>>]
  /\ UNCHANGED <<siteVars, healthVars, savedVars, tagVars, outputVars, boundVars,
                 localVars, pc, tasks, got, seen, snap, done>>

\* The missing pass belongs to a sweep; the variant makes every run do it.
CountsMissesV1(r) == TRUE
CountsMisses(r) == mode[r] = "sweep"

\* Only a sweep looks for what is missing.  The active rows are read once.
ReadActive(r) ==
  /\ pc[r] = "write"
  /\ got[r] = {}
  /\ look[r] = <<>>
  /\ IF CountsMisses(r)
     THEN LET absent == {h \in Homes : rows[h] = "active"} \ seen[r]
          IN /\ snap' = [snap EXCEPT ![r] = [h \in absent |-> miss[h]]]
             /\ Go(r, "missing")
     ELSE /\ Go(r, "clean")
          /\ UNCHANGED snap
  /\ UNCHANGED <<siteVars, rowVars, healthVars, savedVars, tagVars, outputVars,
                 boundVars, localVars, tasks, got, look, seen, fresh, done>>

\* decide_missing with the health read at the gate, which is ok: a miss counted
\* from the snapshot, a delisting at the limit.
CountMiss(r, h) ==
  /\ pc[r] = "missing"
  /\ h \in DOMAIN snap[r]
  /\ miss' = [miss EXCEPT ![h] = snap[r][h] + 1]
  /\ rows' = [rows EXCEPT ![h] = IF miss'[h] >= DelistAfter THEN "delisted" ELSE @]
  /\ passes' = [passes EXCEPT ![h] = @ + (IF mode[r] = "sweep" THEN 1 ELSE 0)]
  /\ snap' = [snap EXCEPT ![r] = [g \in DOMAIN @ \ {h} |-> @[g]]]
  /\ UNCHANGED <<siteVars, healthVars, savedVars, tagVars, outputVars, boundVars,
                 localVars, pc, tasks, got, look, seen, fresh, done>>

MissesDone(r) ==
  /\ pc[r] = "missing"
  /\ snap[r] = <<>>
  /\ Go(r, "clean")
  /\ UNCHANGED <<siteVars, rowVars, healthVars, savedVars, tagVars, outputVars,
                 boundVars, localVars, workVars>>

\* clear_source_failures.
ClearFailures(r) ==
  /\ pc[r] = "clean"
  /\ fails' = 0
  /\ refusals' = 0
  /\ done' = [done EXCEPT ![r] = TRUE]
  /\ Go(r, "save")
  /\ UNCHANGED <<siteVars, rowVars, health, until, level, savedVars, tagVars,
                 outputVars, boundVars, localVars, tasks, got, look, seen,
                 fresh, snap>>

\* COOLDOWN_BASE_SECONDS * 2^n, at most COOLDOWN_MAX_SECONDS; the variant
\* counts the refusal at hand as well, and does not stop at the maximum.
LevelOfV1(n) == n + 1
LevelOf(n) == IF n < MaxLevel THEN n ELSE MaxLevel

\* The count a refusal leaves behind; the variant forgets to count it.
CountedV1(n) == n
Counted(n) == n + 1

\* _mark_blocked: the cooldown follows from the count read at the gate.
MarkBlocked(r) ==
  /\ pc[r] = "blocked"
  /\ health' = "blocked"
  /\ until' = "future"
  /\ level' = LevelOf(failsRead[r])
  /\ fails' = Counted(fails)
  /\ refusals' = refusals + 1
  /\ Go(r, "save")
  /\ UNCHANGED <<siteVars, rowVars, savedVars, tagVars, outputVars, boundVars,
                 localVars, workVars>>

\* Everything a run holds in memory, dropped.
Forget(r) ==
  /\ Go(r, "idle")
  /\ mode' = [mode EXCEPT ![r] = "hot"]
  /\ known' = [known EXCEPT ![r] = {}]
  /\ failsRead' = [failsRead EXCEPT ![r] = 0]
  /\ itag' = [itag EXCEPT ![r] = NoTag]
  /\ ctag' = [ctag EXCEPT ![r] = NoTag]
  /\ ptags' = [ptags EXCEPT ![r] = {}]
  /\ tasks' = [tasks EXCEPT ![r] = {}]
  /\ got' = [got EXCEPT ![r] = {}]
  /\ look' = [look EXCEPT ![r] = <<>>]
  /\ seen' = [seen EXCEPT ![r] = {}]
  /\ fresh' = [fresh EXCEPT ![r] = {}]
  /\ snap' = [snap EXCEPT ![r] = <<>>]
  /\ done' = [done EXCEPT ![r] = FALSE]

SaveTags(r) ==
  /\ savedIndex' = itag[r]
  /\ savedChild' = ctag[r]
  /\ savedPages' = ptags[r]

\* Only a run that reconciled goes on to match; the variant matches after hot
\* runs only.
ReconciledV1(r) == done[r] /\ mode[r] = "hot"
Reconciled(r) == done[r]

\* The finally clause saves the validators however the run went.
SaveAndMatch(r) ==
  /\ pc[r] = "save"
  /\ Reconciled(r)
  /\ SaveTags(r)
  /\ Go(r, "match")
  /\ UNCHANGED <<siteVars, rowVars, healthVars, tagVars, outputVars, boundVars,
                 localVars, workVars>>

SaveAndStop(r) ==
  /\ pc[r] = "save"
  /\ ~Reconciled(r)
  /\ SaveTags(r)
  /\ Forget(r)
  /\ UNCHANGED <<siteVars, rowVars, healthVars, outputVars, boundVars>>

\* What the run hands to queue_matches: summary.new_ids.
Announced(r) == [h \in Homes |-> IF h \in fresh[r] THEN announced[h] + 1 ELSE announced[h]]

Match(r) ==
  /\ pc[r] = "match"
  /\ announced' = Announced(r)
  /\ Forget(r)
  /\ UNCHANGED <<siteVars, rowVars, healthVars, savedVars, orphans, boundVars>>

\* Killed: the finally clause does not run.
Crash(r) ==
  /\ pc[r] # "idle"
  /\ crashes < MaxCrashes
  /\ crashes' = crashes + 1
  /\ orphans' = orphans \cup fresh[r]
  /\ Forget(r)
  /\ UNCHANGED <<siteVars, rowVars, healthVars, savedVars, announced, faults>>

RunStep(r) ==
  \/ GetIndex(r)
  \/ GetChild(r)
  \/ GetChildDirectly(r)
  \/ \E h \in Homes : GetPage(r, h) \/ Look(r, h) \/ WriteListing(r, h) \/ CountMiss(r, h)
  \/ JudgedOk(r)
  \/ ReadActive(r)
  \/ MissesDone(r)
  \/ ClearFailures(r)
  \/ MarkBlocked(r)
  \/ SaveAndMatch(r)
  \/ SaveAndStop(r)
  \/ Match(r)

Next ==
  \/ \E h \in Homes : SiteChange(h)
  \/ CooldownEnds
  \/ \E r \in Runs : \/ \E m \in Modes : Begin(r, m)
                     \/ RunStep(r)
                     \/ Refused(r)
                     \/ Unavailable(r)
                     \/ Aborted(r)
                     \/ JudgedBroken(r)
                     \/ Crash(r)

Spec == Init /\ [][Next]_vars

\* A run under way goes on, time passes, and the hot and the sweep schedule both
\* come round again and again.  Faults, crashes and the site owe nothing.
Fairness ==
  /\ WF_vars(CooldownEnds)
  /\ \A r \in Runs : /\ WF_vars(RunStep(r))
                     /\ \A m \in Modes : SF_vars(Begin(r, m))

FairSpec == Spec /\ Fairness
-----------------------------------------------------------------------------
(***************************************************************************)
(* Properties                                                              *)
(***************************************************************************)

RowStatus == {"none", "active", "delisted"}

\* Every variable has its type; the level never passes the cooldown's maximum.
TypeOK ==
  /\ site \in SUBSET Homes
  /\ indexRev \in 0..MaxChanges
  /\ rows \in [Homes -> RowStatus]
  /\ miss \in [Homes -> 0..DelistAfter]
  /\ health \in {"ok", "blocked", "broken"}
  /\ until \in {"none", "future", "past"}
  /\ level \in 0..MaxLevel
  /\ fails \in 0..MaxFaults
  /\ savedIndex \in Nat \cup {NoTag}
  /\ savedChild \in Nat \cup {NoTag}
  /\ savedPages \in SUBSET Homes
  /\ pc \in [Runs -> Pcs]
  /\ mode \in [Runs -> Modes]
  /\ known \in [Runs -> SUBSET Homes]
  /\ itag \in [Runs -> Nat \cup {NoTag}]
  /\ ctag \in [Runs -> Nat \cup {NoTag}]
  /\ ptags \in [Runs -> SUBSET Homes]
  /\ tasks \in [Runs -> SUBSET Homes]
  /\ got \in [Runs -> SUBSET Homes]
  /\ \A r \in Runs : /\ DOMAIN look[r] \subseteq Homes
                     /\ \A h \in DOMAIN look[r] : look[r][h] \in RowStatus
                     /\ DOMAIN snap[r] \subseteq Homes
                     /\ \A h \in DOMAIN snap[r] : snap[r][h] \in 0..DelistAfter
  /\ seen \in [Runs -> SUBSET Homes]
  /\ fresh \in [Runs -> SUBSET Homes]
  /\ failsRead \in [Runs -> 0..MaxFaults]
  /\ done \in [Runs -> BOOLEAN]
  /\ changes \in 0..MaxChanges
  /\ faults \in 0..MaxFaults
  /\ crashes \in 0..MaxCrashes
  /\ everLeft \in SUBSET Homes
  /\ passes \in [Homes -> Nat]
  /\ refusals \in 0..MaxFaults
  /\ announced \in [Homes -> Nat]
  /\ orphans \in SUBSET Homes

\* Nothing is requested from a source that is blocked or broken: the gate of
\* the run is the only test, and nothing else can change the health under it.
UnhealthyIsLeftAlone == \A r \in Runs : pc[r] \in Fetching => health = "ok"

\* A row is delisted only when DELIST_AFTER_MISSES full passes in a row missed
\* it; the hot runs, refusals and deaths between them count for nothing.
TwoMissesToDelist ==
  [][\A h \in Homes :
       rows[h] = "active" /\ rows'[h] = "delisted" => passes'[h] >= DelistAfter]_rows

\* The n-th refusal in a row sets the n-th cooldown, and a run that read the
\* source starts the count over; aborted runs and broken verdicts in between
\* neither count nor reset.
CooldownEscalates ==
  [][health # "blocked" /\ health' = "blocked" => level' = LevelOf(refusals)]_health

\* Every stored home has been handed to the matcher, or is in the hands of a run
\* on its way there, or was lost with a run that died.
StoredIsAnnounced ==
  \A h \in Homes :
    rows[h] # "none" => \/ announced[h] > 0
                        \/ \E r \in Runs : h \in fresh[r]
                        \/ h \in orphans

\* A block ends: once the cooldown has passed a run reopens the source.
BlockLifts == health = "blocked" ~> health = "ok"

\* While no request fails, a home that stays on the market and whose page can be
\* read is stored in the end: the 304s of the index, of the child and of the
\* page never hide it for good, wherever runs die.
CleanRunsStore ==
  \A h \in Homes \ Malformed :
    (<>[](h \in site) /\ [](faults = 0)) => <>(rows[h] # "none")

\* "A failure loses only its own work and a repeat run is safe" (the header of
\* worker/pipeline/run.py): a home that stays on the market is stored in the end
\* whatever failed on the way, as long as the source is not found broken.
EventuallyStored ==
  \A h \in Homes \ Malformed :
    (<>[](h \in site) /\ [](health # "broken")) => <>(rows[h] # "none")

\* decide_missing is about "a stored listing the source did not return"
\* (worker/pipeline/reconcile.py): what is delisted has left the market.
DelistedHasLeft == \A h \in Homes : rows[h] = "delisted" => h \in everLeft
=============================================================================
