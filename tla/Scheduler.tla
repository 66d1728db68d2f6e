----------------------------- MODULE Scheduler -----------------------------
(***************************************************************************)
(* When jobs run: worker/__main__.py and the functions of worker/db.py it  *)
(* calls, on the schedules table and the advisory locks of Postgres.       *)
(*                                                                         *)
(* The times next_run_at are modelled by what is done with them: the       *)
(* agenda lists the schedules in their order and its first ndue are due,   *)
(* and a tick's reading of next_run_at is current until someone claims the *)
(* schedule.  A job is named by its lock, <<job, source>>; a schedule is a *)
(* job with a row in the table (the index schedules_job_source).           *)
(*                                                                         *)
(* What a run does is reduced to what the quiet hours are about: it ends   *)
(* with a delivery of whatever is queued, or holds the messages back.      *)
(* finish_schedule writes last_status and consecutive_fails, which only    *)
(* `worker schedules` prints; they are left out.                           *)
(***************************************************************************)
EXTENDS Naturals, Sequences, SequencesExt

CONSTANTS
  Jobs,        \* what the command line can run
  Schedules,   \* the jobs of the schedules table
  Window,      \* [Schedules -> {"none", "queue", "pause"}], from quiet_hours
  Tickers,     \* processes of `worker tick`
  Hands,       \* processes of `worker hot|sweep|drain`
  NoOne,       \* the lock is free
  NoJob,       \* no job in hand
  MaxCrashes   \* bound: process deaths

ASSUME JobsAssumption   == IsFiniteSet(Schedules) /\ Schedules \subseteq Jobs
ASSUME WindowAssumption == Window \in [Schedules -> {"none", "queue", "pause"}]
ASSUME NobodyAssumption == NoOne \notin Tickers \cup Hands /\ NoJob \notin Jobs
ASSUME CrashAssumption  == MaxCrashes \in Nat

Procs == Tickers \cup Hands

VARIABLES
  \* the schedules table and the clock
  agenda,     \* the schedules by next_run_at
  ndue,       \* how many of them are due
  night,      \* is it inside the quiet hours?
  \* the advisory locks
  lock,
  \* the processes
  pc,
  list,       \* the due schedules read and not yet taken up
  current,    \* those of them whose next_run_at is still the one read
  cur,        \* the job in hand
  suppress,   \* suppress_delivery
  \* bounds and history
  held,       \* are messages held back for the quiet hours under way?
  crashes

tableVars == <<agenda, ndue>>
procVars  == <<pc, list, current, cur, suppress>>
vars == <<tableVars, night, lock, procVars, held, crashes>>

Running == {"run", "release"}

Init ==
  /\ agenda \in SetToSeqs(Schedules)
  /\ ndue = Len(agenda)
  /\ night = FALSE
  /\ lock = [j \in Jobs |-> NoOne]
  /\ pc = [p \in Procs |-> "idle"]
  /\ list = [p \in Procs |-> <<>>]
  /\ current = [p \in Procs |-> {}]
  /\ cur = [p \in Procs |-> NoJob]
  /\ suppress = [p \in Procs |-> FALSE]
  /\ held = FALSE
  /\ crashes = 0

-----------------------------------------------------------------------------
(***************************************************************************)
(* Time                                                                    *)
(***************************************************************************)

ComesDue ==
  /\ ndue < Len(agenda)
  /\ ndue' = ndue + 1
  /\ UNCHANGED <<agenda, night, lock, procVars, held, crashes>>

\* The quiet hours begin or end.
ClockTurns ==
  /\ night' = ~night
  /\ held' = FALSE
  /\ UNCHANGED <<tableVars, lock, procVars, crashes>>

-----------------------------------------------------------------------------
(***************************************************************************)
(* A tick                                                                  *)
(***************************************************************************)

Due == SubSeq(agenda, 1, ndue)

\* ORDER BY next_run_at; the variant takes the latest first.
InOrderV1(due) == Reverse(due)
InOrder(due) == due

\* fetch_due_schedules; with nothing due the tick ends at once.
Tick(p) ==
  /\ pc[p] = "idle"
  /\ ndue > 0
  /\ pc' = [pc EXCEPT ![p] = "next"]
  /\ list' = [list EXCEPT ![p] = InOrder(Due)]
  /\ current' = [current EXCEPT ![p] = ToSet(Due)]
  /\ UNCHANGED <<tableVars, night, lock, cur, suppress, held, crashes>>

\* next_run_at becomes now() plus the interval: later than everything due, and
\* anywhere among the rest.  The variant leaves the old entry.
AgendasV1(s) == {Append(agenda, s)}
Agendas(s) ==
  {InsertAt(RemoveAt(agenda, i), k, s) : i \in {i \in DOMAIN agenda : agenda[i] = s},
                                         k \in ndue..Len(agenda)}

\* The comparison of claim_schedule's UPDATE; the variant leaves it out.
StillCurrentV1(p, s) == TRUE
StillCurrent(p, s) == s \in current[p]

\* Compare-and-swap on next_run_at.
Claim(p) ==
  /\ pc[p] = "next"
  /\ list[p] # <<>>
  /\ LET s == Head(list[p])
     IN /\ StillCurrent(p, s)
        /\ agenda' \in Agendas(s)
        /\ ndue' = ndue - (IF s \in ToSet(Due) THEN 1 ELSE 0)
        /\ current' = [q \in Procs |-> current[q] \ {s}]
        /\ cur' = [cur EXCEPT ![p] = s]
  /\ list' = [list EXCEPT ![p] = Tail(@)]
  /\ pc' = [pc EXCEPT ![p] = "quiet"]
  /\ UNCHANGED <<night, lock, suppress, held, crashes>>

ClaimedByAnother(p) ==
  /\ pc[p] = "next"
  /\ list[p] # <<>>
  /\ ~StillCurrent(p, Head(list[p]))
  /\ list' = [list EXCEPT ![p] = Tail(@)]
  /\ UNCHANGED <<tableVars, night, lock, pc, current, cur, suppress, held,
                 crashes>>

\* The job is behind it; a tick looks at its list again.
PutDown(p) ==
  /\ pc' = [pc EXCEPT ![p] = "next"]
  /\ cur' = [cur EXCEPT ![p] = NoJob]
  /\ suppress' = [suppress EXCEPT ![p] = FALSE]

\* The process ends, by itself or not; its session's lock goes with it.
Unlocked(p) == [j \in Jobs |-> IF lock[j] = p THEN NoOne ELSE lock[j]]

Exit(p) ==
  /\ pc' = [pc EXCEPT ![p] = "idle"]
  /\ list' = [list EXCEPT ![p] = <<>>]
  /\ current' = [current EXCEPT ![p] = {}]
  /\ cur' = [cur EXCEPT ![p] = NoJob]
  /\ suppress' = [suppress EXCEPT ![p] = FALSE]

NothingLeft(p) ==
  /\ pc[p] = "next"
  /\ list[p] = <<>>
  /\ Exit(p)
  /\ UNCHANGED <<tableVars, night, lock, held, crashes>>

\* _quiet_state, read once for the whole run.
QuietPause(p) ==
  /\ pc[p] = "quiet"
  /\ night
  /\ Window[cur[p]] = "pause"
  /\ PutDown(p)
  /\ UNCHANGED <<tableVars, night, lock, list, current, held, crashes>>

QuietRead(p) ==
  /\ pc[p] = "quiet"
  /\ ~(night /\ Window[cur[p]] = "pause")
  /\ suppress' = [suppress EXCEPT ![p] = night /\ Window[cur[p]] = "queue"]
  /\ pc' = [pc EXCEPT ![p] = "lock"]
  /\ UNCHANGED <<tableVars, night, lock, list, current, cur, held, crashes>>

-----------------------------------------------------------------------------
(***************************************************************************)
(* A run                                                                   *)
(***************************************************************************)

\* _run_one: by hand, of any job, never suppressed.
RunOne(p, j) ==
  /\ pc[p] = "idle"
  /\ pc' = [pc EXCEPT ![p] = "lock"]
  /\ cur' = [cur EXCEPT ![p] = j]
  /\ UNCHANGED <<tableVars, night, lock, list, current, suppress, held, crashes>>

\* pg_try_advisory_lock; the variant always gets it.
LockFreeV1(j) == TRUE
LockFree(j) == lock[j] = NoOne

TakeLock(p) ==
  /\ pc[p] = "lock"
  /\ LockFree(cur[p])
  /\ lock' = [lock EXCEPT ![cur[p]] = p]
  /\ pc' = [pc EXCEPT ![p] = "run"]
  /\ UNCHANGED <<tableVars, night, list, current, cur, suppress, held, crashes>>

\* skipped_locked: no finish_schedule.
SkipLocked(p) ==
  /\ pc[p] = "lock"
  /\ ~LockFree(cur[p])
  /\ PutDown(p)
  /\ UNCHANGED <<tableVars, night, lock, list, current, held, crashes>>

\* run_job to its end: queued messages go out, unless delivery is suppressed.
RunJob(p) ==
  /\ pc[p] = "run"
  /\ held' \in IF suppress[p] THEN {held, night} ELSE {FALSE}
  /\ pc' = [pc EXCEPT ![p] = "release"]
  /\ UNCHANGED <<tableVars, night, lock, list, current, cur, suppress, crashes>>

\* An exception leaves _dispatch: the with blocks release the lock, and the
\* process ends with the rest of its list.
Raises(p) ==
  /\ pc[p] = "run"
  /\ lock' = Unlocked(p)
  /\ Exit(p)
  /\ UNCHANGED <<tableVars, night, held, crashes>>

Release(p) ==
  /\ pc[p] = "release"
  /\ lock' = Unlocked(p)
  /\ PutDown(p)
  /\ UNCHANGED <<tableVars, night, list, current, held, crashes>>

\* Killed, or cut off by the job's time limit: Postgres ends the session.
Crash(p) ==
  /\ pc[p] # "idle"
  /\ crashes < MaxCrashes
  /\ crashes' = crashes + 1
  /\ lock' = Unlocked(p)
  /\ Exit(p)
  /\ UNCHANGED <<tableVars, night, held>>

Step(p) ==
  \/ Claim(p)
  \/ ClaimedByAnother(p)
  \/ NothingLeft(p)
  \/ QuietPause(p)
  \/ QuietRead(p)
  \/ TakeLock(p)
  \/ SkipLocked(p)
  \/ RunJob(p)
  \/ Raises(p)
  \/ Release(p)

Next ==
  \/ ComesDue
  \/ ClockTurns
  \/ \E p \in Tickers : Tick(p)
  \/ \E p \in Hands, j \in Jobs : RunOne(p, j)
  \/ \E p \in Procs : Step(p) \/ Crash(p)

Spec == Init /\ [][Next]_vars

\* The clock passes every next_run_at, the cron trigger ticks, and a process
\* under way goes on.  Whether a run succeeds or raises is left open, every time.
Fairness ==
  /\ \A s \in Schedules : []<>(s \in ToSet(Due))
  /\ \A p \in Tickers : WF_vars(Tick(p))
  /\ \A p \in Procs : WF_vars(Step(p))

FairSpec == Spec /\ Fairness
-----------------------------------------------------------------------------
(***************************************************************************)
(* Properties                                                              *)
(***************************************************************************)

\* Every variable has its type; the agenda lists each schedule once.
TypeOK ==
  /\ agenda \in SetToSeqs(Schedules)
  /\ ndue \in 0..Len(agenda)
  /\ night \in BOOLEAN
  /\ lock \in [Jobs -> Procs \cup {NoOne}]
  /\ pc \in [Procs -> {"idle", "next", "quiet", "lock"} \cup Running]
  /\ \A p \in Procs : ToSet(list[p]) \subseteq Schedules
  /\ current \in [Procs -> SUBSET Schedules]
  /\ cur \in [Procs -> Jobs \cup {NoJob}]
  /\ suppress \in [Procs -> BOOLEAN]
  /\ held \in BOOLEAN
  /\ crashes \in 0..MaxCrashes

Runs(p, j) == pc[p] \in Running /\ cur[p] = j

\* A job never runs twice at once, whether ticks overlap, a schedule comes round
\* while its last run is still under way, or somebody starts it by hand.
OneRunPerJob ==
  \A j \in Jobs : \A p, q \in Procs : Runs(p, j) /\ Runs(q, j) => p = q

\* A tick that works through an old list never takes up a schedule that is no
\* longer due because another tick has had it meanwhile.
ClaimedWhenDue ==
  [][\A p \in Tickers :
       pc[p] = "next" /\ pc'[p] = "quiet" => cur'[p] \in ToSet(Due)]_pc

\* Every scheduled job runs again and again, even if another one raises and takes
\* the rest of its tick with it every time, unless its quiet hours pause it.
EachJobRunsAgain ==
  \A s \in Schedules : Window[s] # "pause" => []<>(\E p \in Procs : Runs(p, s))

\* Quiet hours of mode queue defer "delivery until the window closes, ... and
\* nobody is messaged at 03:00" (_quiet_state): what a run held back is not sent
\* by another run before the window closes.
HeldUntilMorning == [][held => held' \/ ~night']_held
=============================================================================
