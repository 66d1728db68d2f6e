------------------------------- MODULE Outbox -------------------------------
(***************************************************************************)
(* Matching and delivery: the notifications table (the outbox) together    *)
(* with everything that writes it.                                         *)
(*                                                                         *)
(*   - worker runs that store new listings and queue one notification per  *)
(*     interested subscriber (worker/pipeline/outbox.py, queue_matches);   *)
(*   - worker runs that claim queued notifications, send them and record   *)
(*     the result (drain, _apply, and the functions of worker/store.py);   *)
(*   - the web app, where a person subscribes, presses START and writes    *)
(*     /stop (apps/web/app/api);                                           *)
(*   - the messaging provider, the calendar and process death.             *)
(*                                                                         *)
(* Worker connections are in autocommit mode, so every SQL statement of    *)
(* the worker is a step of its own.  The web app's handlers run in a       *)
(* transaction that locks the user row, so each is one step.               *)
(*                                                                         *)
(* The web form creates one user and one subscription together, so a       *)
(* subscription is named by its user.  UNIQUE (user_id, listing_id) names  *)
(* a notification by its pair <<user, listing>>.                           *)
(***************************************************************************)
EXTENDS Integers, FiniteSets

CONSTANTS
  Users,          \* people who may fill in the form
  Listings,       \* homes the source sites may publish
  Wants,          \* <<user, listing>> pairs the criteria match (match.matches)
  Matchers,       \* worker runs that reconcile and match
  Drains,         \* worker runs that deliver
  MaxAttempts,    \* MAX_ATTEMPTS
  Batch,          \* BATCH, the LIMIT of one claim
  Cap,            \* subscriptions.max_alerts_per_day
  LostAnswers,    \* may a delivered message's answer time out?
  NoMsg,          \* stands for "no row in hand"
  MaxCrashes,     \* bound: process deaths
  MaxMidnights    \* bound: London days that pass

ASSUME FiniteAssumption ==
  IsFiniteSet(Users) /\ IsFiniteSet(Listings) /\ IsFiniteSet(Drains)
ASSUME AttemptsAssumption == MaxAttempts \in Nat \ {0}
ASSUME BatchAssumption    == Batch \in Nat \ {0}
ASSUME CapAssumption      == Cap \in Nat
ASSUME WantsAssumption    == Wants \subseteq Users \X Listings
ASSUME NoMsgAssumption    == NoMsg \notin Users \X Listings
ASSUME LostAssumption     == LostAnswers \in BOOLEAN
ASSUME BoundsAssumption   == MaxCrashes \in Nat /\ MaxMidnights \in Nat

Msgs == Users \X Listings

VARIABLES
  \* the database
  users,        \* users.status; "absent" before the form is submitted
  sub,          \* the user's subscriptions row: "none", "active" or "inactive"
  backlog,      \* listings first seen no later than subscriptions.backfill_from
  stored,       \* listings with a row
  status,       \* notifications.status; "none" never inserted, "deleted" by /stop
  attempts,     \* notifications.attempts
  today,        \* notifications created since London midnight
  \* matching runs
  mpc, checking, fresh, todo, tally,
  \* delivering runs
  dpc, held, saw, gone, cur, result,
  \* the outside world
  reachable,    \* has the person not blocked the bot?
  crashes, midnights,
  \* history
  sends,        \* calls to the provider per notification
  arrived       \* copies that reached the person's chat

webVars    == <<users, sub, backlog>>
rowVars    == <<status, attempts, today>>
matchVars  == <<mpc, checking, fresh, todo, tally>>
drainVars  == <<dpc, held, saw, gone, cur, result>>
worldVars  == <<reachable, crashes, midnights>>
history    == <<sends, arrived>>
vars == <<webVars, stored, rowVars, matchVars, drainVars, worldVars, history>>

UserStatus == {"absent", "pending", "active", "stopped", "blocked"}
SubStatus  == {"none", "active", "inactive"}
RowStatus  == {"none", "queued", "sent", "failed", "skipped", "deleted"}
MatchPc    == {"idle", "insert", "found", "tally", "queue"}
DrainPc    == {"idle", "claimed", "loop", "result",
               "stop_subs", "stop_rows", "stop_mark"}
Results    == {"none", "ok", "retry", "permanent", "gone"}

\* Rows with a place in the table: the ones UNIQUE (user_id, listing_id) sees.
\* The variant is an upsert that overwrites a settled row.
PresentV1(p) == status[p] = "queued"
Present(p) == status[p] \notin {"none", "deleted"}

Init ==
  /\ users = [u \in Users |-> "absent"]
  /\ sub = [u \in Users |-> "none"]
  /\ backlog = [u \in Users |-> {}]
  /\ stored = {}
  /\ status = [p \in Msgs |-> "none"]
  /\ attempts = [p \in Msgs |-> 0]
  /\ today = {}
  /\ mpc = [m \in Matchers |-> "idle"]
  /\ checking = [m \in Matchers |-> {}]
  /\ fresh = [m \in Matchers |-> {}]
  /\ todo = [m \in Matchers |-> {}]
  /\ tally = [m \in Matchers |-> [u \in Users |-> 0]]
  /\ dpc = [d \in Drains |-> "idle"]
  /\ held = [d \in Drains |-> {}]
  /\ saw = [d \in Drains |-> [p \in Msgs |-> 0]]
  /\ gone = [d \in Drains |-> {}]
  /\ cur = [d \in Drains |-> NoMsg]
  /\ result = [d \in Drains |-> "none"]
  /\ reachable = [u \in Users |-> TRUE]
  /\ crashes = 0
  /\ midnights = 0
  /\ sends = [p \in Msgs |-> 0]
  /\ arrived = [p \in Msgs |-> 0]

-----------------------------------------------------------------------------
(***************************************************************************)
(* The web app                                                             *)
(***************************************************************************)

\* The form: one pending user with one subscription.  backfill_from = now(), so
\* everything already stored is backlog.
Subscribe(u) ==
  /\ users[u] = "absent"
  /\ users' = [users EXCEPT ![u] = "pending"]
  /\ sub' = [sub EXCEPT ![u] = "active"]
  /\ backlog' = [backlog EXCEPT ![u] = stored]
  /\ UNCHANGED <<stored, rowVars, matchVars, drainVars, worldVars, history>>

\* START with a valid token links the chat and activates the user.
Start(u) ==
  /\ users[u] = "pending"
  /\ users' = [users EXCEPT ![u] = "active"]
  /\ UNCHANGED <<sub, backlog, stored, rowVars, matchVars, drainVars,
                 worldVars, history>>

\* /stop deletes the filter and whatever is queued, in one transaction.
Stop(u) ==
  /\ users[u] \in {"active", "blocked"}
  /\ sub' = [sub EXCEPT ![u] = "none"]
  /\ status' = [p \in Msgs |->
                  IF p[1] = u /\ status[p] = "queued" THEN "deleted" ELSE status[p]]
  /\ users' = [users EXCEPT ![u] = "stopped"]
  /\ UNCHANGED <<backlog, stored, attempts, today, matchVars, drainVars,
                 worldVars, history>>

-----------------------------------------------------------------------------
(***************************************************************************)
(* A matching run                                                          *)
(***************************************************************************)

\* existing_listing found no row, so decide_seen says "insert".
FindNew(m, l) ==
  /\ mpc[m] \in {"idle", "found"}
  /\ l \notin stored
  /\ mpc' = [mpc EXCEPT ![m] = "insert"]
  /\ checking' = [checking EXCEPT ![m] = {l}]
  /\ UNCHANGED <<webVars, stored, rowVars, fresh, todo, tally, drainVars,
                 worldVars, history>>

\* insert_listing returns an id even when another run inserted first.
InsertListing(m) ==
  /\ mpc[m] = "insert"
  /\ mpc' = [mpc EXCEPT ![m] = "found"]
  /\ stored' = stored \cup checking[m]
  /\ fresh' = [fresh EXCEPT ![m] = @ \cup checking[m]]
  /\ checking' = [checking EXCEPT ![m] = {}]
  /\ UNCHANGED <<webVars, rowVars, todo, tally, drainVars, worldVars, history>>

\* The backfill test of is_eligible; the variant leaves it out.
EligibleV1(p) == TRUE
Eligible(p) == p[2] \notin backlog[p[1]]

\* active_subscriptions.  matches and the backfill test of is_eligible depend
\* only on values that no longer change, so they are decided here.
ReadSubscriptions(m) ==
  /\ mpc[m] = "found"
  /\ mpc' = [mpc EXCEPT ![m] = "tally"]
  /\ todo' = [todo EXCEPT ![m] =
                {p \in Wants : /\ p[2] \in fresh[m]
                               /\ Eligible(p)
                               /\ users[p[1]] = "active"
                               /\ sub[p[1]] = "active"}]
  /\ fresh' = [fresh EXCEPT ![m] = {}]
  /\ UNCHANGED <<webVars, stored, rowVars, checking, tally, drainVars,
                 worldVars, history>>

\* sent_today: rows of this London day that are queued or sent.
SentToday(u) == Cardinality({p \in today : p[1] = u /\ status[p] \in {"queued", "sent"}})

ReadTally(m) ==
  /\ mpc[m] = "tally"
  /\ mpc' = [mpc EXCEPT ![m] = "queue"]
  /\ tally' = [tally EXCEPT ![m] = [u \in Users |-> SentToday(u)]]
  /\ UNCHANGED <<webVars, stored, rowVars, checking, fresh, todo, drainVars,
                 worldVars, history>>

\* The variants compare with one more and one less.
AtCapV1(m, u) == tally[m][u] > Cap
AtCapV2(m, u) == tally[m][u] >= Cap - 1
AtCap(m, u) == tally[m][u] >= Cap

\* The foreign key of notifications.subscription_id; the variant is a schema
\* without it.
SubscriptionExistsV1(u) == users[u] # "absent"
SubscriptionExists(u) == sub[u] # "none"

\* The cap was reached: the loop over this subscription's listings breaks.
CapReached(m, p) ==
  /\ mpc[m] = "queue"
  /\ p \in todo[m]
  /\ AtCap(m, p[1])
  /\ todo' = [todo EXCEPT ![m] = {q \in @ : q[1] # p[1]}]
  /\ UNCHANGED <<webVars, stored, rowVars, mpc, checking, fresh, tally,
                 drainVars, worldVars, history>>

\* ON CONFLICT (user_id, listing_id) DO NOTHING.
AlreadyNotified(m, p) ==
  /\ mpc[m] = "queue"
  /\ p \in todo[m]
  /\ ~AtCap(m, p[1])
  /\ Present(p)
  /\ todo' = [todo EXCEPT ![m] = @ \ {p}]
  /\ UNCHANGED <<webVars, stored, rowVars, mpc, checking, fresh, tally,
                 drainVars, worldVars, history>>

\* The row is inserted; its subscription_id must still exist.
Queue(m, p) ==
  /\ mpc[m] = "queue"
  /\ p \in todo[m]
  /\ ~AtCap(m, p[1])
  /\ ~Present(p)
  /\ SubscriptionExists(p[1])
  /\ status' = [status EXCEPT ![p] = "queued"]
  /\ attempts' = [attempts EXCEPT ![p] = 0]
  /\ today' = today \cup {p}
  /\ tally' = [tally EXCEPT ![m][p[1]] = @ + 1]
  /\ todo' = [todo EXCEPT ![m] = @ \ {p}]
  /\ UNCHANGED <<webVars, stored, mpc, checking, fresh, drainVars, worldVars,
                 history>>

\* /stop deleted the subscription after it was read: the foreign key refuses
\* the row, the exception leaves queue_matches and the run is over.
ForeignKeyFailure(m, p) ==
  /\ mpc[m] = "queue"
  /\ p \in todo[m]
  /\ ~AtCap(m, p[1])
  /\ ~Present(p)
  /\ ~SubscriptionExists(p[1])
  /\ mpc' = [mpc EXCEPT ![m] = "idle"]
  /\ todo' = [todo EXCEPT ![m] = {}]
  /\ tally' = [tally EXCEPT ![m] = [u \in Users |-> 0]]
  /\ UNCHANGED <<webVars, stored, rowVars, checking, fresh, drainVars,
                 worldVars, history>>

MatchDone(m) ==
  /\ mpc[m] = "queue"
  /\ todo[m] = {}
  /\ mpc' = [mpc EXCEPT ![m] = "idle"]
  /\ tally' = [tally EXCEPT ![m] = [u \in Users |-> 0]]
  /\ UNCHANGED <<webVars, stored, rowVars, checking, fresh, todo, drainVars,
                 worldVars, history>>

MatchStep(m) ==
  \/ \E l \in Listings : FindNew(m, l)
  \/ InsertListing(m)
  \/ ReadSubscriptions(m)
  \/ ReadTally(m)
  \/ \E p \in Msgs : \/ CapReached(m, p)
                     \/ AlreadyNotified(m, p)
                     \/ Queue(m, p)
                     \/ ForeignKeyFailure(m, p)
  \/ MatchDone(m)

-----------------------------------------------------------------------------
(***************************************************************************)
(* A delivering run                                                        *)
(***************************************************************************)

\* The variants forget the attempt limit and the status.
DueV1 == {p \in Msgs : status[p] = "queued"}
DueV2 == {p \in Msgs : Present(p) /\ attempts[p] < MaxAttempts}
Due == {p \in Msgs : status[p] = "queued" /\ attempts[p] < MaxAttempts}

\* SET attempts = attempts + 1; the variant counts nothing before the send.
CountAttemptsV1(S) == UNCHANGED attempts
CountAttempts(S) ==
  attempts' = [p \in Msgs |-> IF p \in S THEN attempts[p] + 1 ELSE attempts[p]]

\* The UPDATE of claim_queued.  Its row locks end with the statement; while the
\* statements of two runs overlap, SKIP LOCKED passes over the other's rows.
\* Which of the due rows come first is left open.
Claim(d) ==
  /\ dpc[d] = "idle"
  /\ \E locked \in SUBSET UNION {held[e] : e \in {f \in Drains : dpc[f] = "claimed"}} :
       \E S \in SUBSET (Due \ locked) :
         /\ S # {}
         /\ Cardinality(S) <= Batch
         /\ Cardinality(S) < Batch => S = Due \ locked
         /\ held' = [held EXCEPT ![d] = S]
         /\ CountAttempts(S)
  /\ dpc' = [dpc EXCEPT ![d] = "claimed"]
  /\ UNCHANGED <<webVars, stored, status, today, matchVars, saw, gone, cur,
                 result, worldVars, history>>

\* The SELECT of claim_queued: by id, whatever the status has become; rows that
\* /stop deleted meanwhile are not found.
Fetch(d) ==
  /\ dpc[d] = "claimed"
  /\ LET found == {p \in held[d] : status[p] # "deleted"}
     IN /\ held' = [held EXCEPT ![d] = found]
        /\ saw' = [saw EXCEPT ![d] = [p \in Msgs |-> IF p \in found THEN attempts[p] ELSE 0]]
  /\ dpc' = [dpc EXCEPT ![d] = "loop"]
  /\ UNCHANGED <<webVars, stored, rowVars, matchVars, gone, cur, result,
                 worldVars, history>>

\* mark_sent, mark_failed and mark_skipped: UPDATE ... WHERE id, no other
\* condition; no row is hit once /stop has deleted it.
Mark(p, s) == status' = [status EXCEPT ![p] = IF @ = "deleted" THEN @ ELSE s]

\* A recipient found unreachable earlier in this batch is not tried again.
SkipGone(d, p) ==
  /\ dpc[d] = "loop"
  /\ p \in held[d]
  /\ p[1] \in gone[d]
  /\ Mark(p, "skipped")
  /\ held' = [held EXCEPT ![d] = @ \ {p}]
  /\ UNCHANGED <<webVars, stored, attempts, today, matchVars, dpc, saw, gone,
                 cur, result, worldVars, history>>

\* notifier.send: r is the answer the run sees, copy says whether the message
\* reached the chat.  A timeout is retryable and tells nothing.
Answer(u, r, copy) ==
  \/ r = "ok" /\ copy = 1 /\ reachable[u]
  \/ r \in {"retry", "permanent"} /\ copy = 0
  \/ r = "retry" /\ copy = 1 /\ reachable[u] /\ LostAnswers
  \/ r = "gone" /\ copy = 0 /\ ~reachable[u]

Send(d, p) ==
  /\ dpc[d] = "loop"
  /\ p \in held[d]
  /\ p[1] \notin gone[d]
  /\ \E r \in Results, copy \in {0, 1} :
       /\ Answer(p[1], r, copy)
       /\ result' = [result EXCEPT ![d] = r]
       /\ arrived' = [arrived EXCEPT ![p] = @ + copy]
  /\ sends' = [sends EXCEPT ![p] = @ + 1]
  /\ cur' = [cur EXCEPT ![d] = p]
  /\ held' = [held EXCEPT ![d] = @ \ {p}]
  /\ dpc' = [dpc EXCEPT ![d] = "result"]
  /\ UNCHANGED <<webVars, stored, rowVars, matchVars, saw, gone, worldVars>>

\* Back to the loop over the batch, nothing in hand.
NextRow(d) ==
  /\ dpc' = [dpc EXCEPT ![d] = "loop"]
  /\ cur' = [cur EXCEPT ![d] = NoMsg]
  /\ result' = [result EXCEPT ![d] = "none"]

\* The variant gives up one attempt too late.
GiveUpV1(d) == saw[d][cur[d]] > MaxAttempts
GiveUp(d) == saw[d][cur[d]] >= MaxAttempts

\* leave_queued records the error and does not touch the status; the variant
\* puts the row back in the queue.
LeaveQueuedV1(p) == Mark(p, "queued")
LeaveQueued(p) == UNCHANGED status

\* outcome_for: the attempt count that decides is the one read with the claim.
ApplySent(d) ==
  /\ dpc[d] = "result"
  /\ result[d] = "ok"
  /\ Mark(cur[d], "sent")
  /\ NextRow(d)
  /\ UNCHANGED <<webVars, stored, attempts, today, matchVars, held, saw, gone,
                 worldVars, history>>

ApplyFailed(d) ==
  /\ dpc[d] = "result"
  /\ \/ result[d] = "permanent"
     \/ result[d] = "retry" /\ GiveUp(d)
  /\ Mark(cur[d], "failed")
  /\ NextRow(d)
  /\ UNCHANGED <<webVars, stored, attempts, today, matchVars, held, saw, gone,
                 worldVars, history>>

ApplyRetry(d) ==
  /\ dpc[d] = "result"
  /\ result[d] = "retry"
  /\ ~GiveUp(d)
  /\ LeaveQueued(cur[d])
  /\ NextRow(d)
  /\ UNCHANGED <<webVars, stored, attempts, today, matchVars, held, saw, gone,
                 worldVars, history>>

\* stop_user, three statements, and then mark_failed.
StopUserStatus(d) ==
  /\ dpc[d] = "result"
  /\ result[d] = "gone"
  /\ gone' = [gone EXCEPT ![d] = @ \cup {cur[d][1]}]
  /\ users' = [users EXCEPT ![cur[d][1]] = "blocked"]
  /\ dpc' = [dpc EXCEPT ![d] = "stop_subs"]
  /\ UNCHANGED <<sub, backlog, stored, rowVars, matchVars, held, saw, cur,
                 result, worldVars, history>>

\* An UPDATE: no row, no effect.  The variant is an upsert.
DeactivateV1(u) == sub' = [sub EXCEPT ![u] = "inactive"]
Deactivate(u) == sub' = [sub EXCEPT ![u] = IF @ = "none" THEN @ ELSE "inactive"]

StopUserSubscriptions(d) ==
  /\ dpc[d] = "stop_subs"
  /\ Deactivate(cur[d][1])
  /\ dpc' = [dpc EXCEPT ![d] = "stop_rows"]
  /\ UNCHANGED <<users, backlog, stored, rowVars, matchVars, held, saw, gone,
                 cur, result, worldVars, history>>

\* The third statement; the variant drops its status condition.
SkipQueuedV1(u) ==
  status' = [p \in Msgs |-> IF p[1] = u /\ Present(p) THEN "skipped" ELSE status[p]]
SkipQueued(u) ==
  status' = [p \in Msgs |->
               IF p[1] = u /\ status[p] = "queued" THEN "skipped" ELSE status[p]]

StopUserQueued(d) ==
  /\ dpc[d] = "stop_rows"
  /\ SkipQueued(cur[d][1])
  /\ dpc' = [dpc EXCEPT ![d] = "stop_mark"]
  /\ UNCHANGED <<webVars, stored, attempts, today, matchVars, held, saw, gone,
                 cur, result, worldVars, history>>

ApplyGone(d) ==
  /\ dpc[d] = "stop_mark"
  /\ Mark(cur[d], "failed")
  /\ NextRow(d)
  /\ UNCHANGED <<webVars, stored, attempts, today, matchVars, held, saw, gone,
                 worldVars, history>>

\* The end of a batch, and of a process: nothing in memory survives.
Forget(d) ==
  /\ dpc' = [dpc EXCEPT ![d] = "idle"]
  /\ held' = [held EXCEPT ![d] = {}]
  /\ saw' = [saw EXCEPT ![d] = [p \in Msgs |-> 0]]
  /\ gone' = [gone EXCEPT ![d] = {}]
  /\ cur' = [cur EXCEPT ![d] = NoMsg]
  /\ result' = [result EXCEPT ![d] = "none"]

DrainDone(d) ==
  /\ dpc[d] = "loop"
  /\ held[d] = {}
  /\ Forget(d)
  /\ UNCHANGED <<webVars, stored, rowVars, matchVars, worldVars, history>>

DrainStep(d) ==
  \/ Claim(d)
  \/ Fetch(d)
  \/ \E p \in Msgs : SkipGone(d, p) \/ Send(d, p)
  \/ ApplySent(d)
  \/ ApplyFailed(d)
  \/ ApplyRetry(d)
  \/ StopUserStatus(d)
  \/ StopUserSubscriptions(d)
  \/ StopUserQueued(d)
  \/ ApplyGone(d)
  \/ DrainDone(d)

-----------------------------------------------------------------------------
(***************************************************************************)
(* The outside world                                                       *)
(***************************************************************************)

\* The person blocks or unblocks the bot.
ToggleBot(u) ==
  /\ users[u] \notin {"absent", "pending"}
  /\ reachable' = [reachable EXCEPT ![u] = ~@]
  /\ UNCHANGED <<webVars, stored, rowVars, matchVars, drainVars, crashes,
                 midnights, history>>

Midnight ==
  /\ midnights < MaxMidnights
  /\ midnights' = midnights + 1
  /\ today' = {}
  /\ UNCHANGED <<webVars, stored, status, attempts, matchVars, drainVars,
                 reachable, crashes, history>>

\* The job timeout, an exception of the database or a kill.
MatcherCrash(m) ==
  /\ crashes < MaxCrashes
  /\ mpc[m] # "idle"
  /\ crashes' = crashes + 1
  /\ mpc' = [mpc EXCEPT ![m] = "idle"]
  /\ checking' = [checking EXCEPT ![m] = {}]
  /\ fresh' = [fresh EXCEPT ![m] = {}]
  /\ todo' = [todo EXCEPT ![m] = {}]
  /\ tally' = [tally EXCEPT ![m] = [u \in Users |-> 0]]
  /\ UNCHANGED <<webVars, stored, rowVars, drainVars, reachable, midnights,
                 history>>

DrainCrash(d) ==
  /\ crashes < MaxCrashes
  /\ dpc[d] # "idle"
  /\ crashes' = crashes + 1
  /\ Forget(d)
  /\ UNCHANGED <<webVars, stored, rowVars, matchVars, reachable, midnights,
                 history>>

Next ==
  \/ \E u \in Users : Subscribe(u) \/ Start(u) \/ Stop(u) \/ ToggleBot(u)
  \/ \E m \in Matchers : MatchStep(m) \/ MatcherCrash(m)
  \/ \E d \in Drains : DrainStep(d) \/ DrainCrash(d)
  \/ Midnight

Spec == Init /\ [][Next]_vars

\* A run that is under way finishes unless it dies; the seeded drain schedule
\* starts another one for as long as something is due.  People, new listings
\* and the calendar owe nothing.
Fairness ==
  /\ \A d \in Drains : WF_vars(DrainStep(d))
  /\ \A m \in Matchers : WF_vars(/\ mpc[m] # "idle"
                                 /\ MatchStep(m))

FairSpec == Spec /\ Fairness
-----------------------------------------------------------------------------
(***************************************************************************)
(* Properties                                                              *)
(***************************************************************************)

\* Every variable has its type.
TypeOK ==
  /\ users \in [Users -> UserStatus]
  /\ sub \in [Users -> SubStatus]
  /\ backlog \in [Users -> SUBSET Listings]
  /\ stored \in SUBSET Listings
  /\ status \in [Msgs -> RowStatus]
  /\ attempts \in [Msgs -> 0..MaxAttempts]
  /\ today \in SUBSET Msgs
  /\ mpc \in [Matchers -> MatchPc]
  /\ checking \in [Matchers -> SUBSET Listings]
  /\ fresh \in [Matchers -> SUBSET Listings]
  /\ todo \in [Matchers -> SUBSET Msgs]
  /\ tally \in [Matchers -> [Users -> Nat]]
  /\ dpc \in [Drains -> DrainPc]
  /\ held \in [Drains -> SUBSET Msgs]
  /\ saw \in [Drains -> [Msgs -> 0..MaxAttempts]]
  /\ gone \in [Drains -> SUBSET Users]
  /\ cur \in [Drains -> Msgs \cup {NoMsg}]
  /\ result \in [Drains -> Results]
  /\ reachable \in [Users -> BOOLEAN]
  /\ crashes \in 0..MaxCrashes
  /\ midnights \in 0..MaxMidnights
  /\ sends \in [Msgs -> Nat]
  /\ arrived \in [Msgs -> Nat]

\* The provider is called at most MAX_ATTEMPTS times for a notification, however
\* many runs claim it and wherever they die: claim_queued counts the attempt
\* before the send, and the count survives the process.
SendsBounded == \A p \in Msgs : sends[p] <= attempts[p] /\ attempts[p] <= MaxAttempts

\* Once /stop has deleted the subscription the outbox holds nothing for that
\* person, and no run that read the subscription earlier can queue more: the
\* deletes share a transaction and the foreign key refuses late inserts.
StopEmptiesQueue ==
  \A p \in Msgs : users[p[1]] # "absent" /\ sub[p[1]] = "none" => status[p] # "queued"

\* Only listings first seen after the form was submitted are queued, whatever
\* order storing, subscribing and matching come in.
NoBacklogReplay == \A p \in Msgs : status[p] # "none" => p[2] \notin backlog[p[1]]

\* A row that has left the queue never returns to it: a run that finishes late
\* with a retryable answer cannot revive a row another run has settled, and a
\* second match cannot revive it either.
NeverRequeued ==
  [][\A p \in Msgs : status'[p] = "queued" => status[p] \in {"none", "queued"}]_status

\* One delivering run at a time, no process death, no lost answer: nobody gets
\* the same listing twice.
AtMostOnce == \A p \in Msgs : arrived[p] <= 1

\* One delivering run at a time: what is recorded as sent stays recorded, so the
\* daily tally and the history a returning subscriber relies on never shrink.
SentIsFinal == [][\A p \in Msgs : status[p] = "sent" => status'[p] = "sent"]_status

\* One matching run at a time: a person's queued and sent rows of one London day
\* never exceed the cap of the subscription.
DailyCap == \A u \in Users : SentToday(u) <= Cap

\* With runs that finish, every queued notification is eventually settled.
QueueDrains == \A p \in Msgs : status[p] = "queued" ~> status[p] # "queued"

\* A match on a run's list whose row the foreign key will refuse.
Refused(m, p) == ~AtCap(m, p[1]) /\ ~Present(p) /\ ~SubscriptionExists(p[1])

\* With runs that finish, every match found becomes a notification, unless the
\* person's cap is reached, or somebody on the same list, this person or another,
\* wrote /stop after it was read and the exception takes the whole list along.
\* Nothing less costs anyone a match.
MatchesQueued ==
  \A m \in Matchers, p \in Msgs :
    p \in todo[m] ~> \/ Present(p)
                     \/ tally[m][p[1]] >= Cap
                     \/ \E q \in todo[m] : Refused(m, q)
-----------------------------------------------------------------------------
(***************************************************************************)
(* What the outbox implements                                              *)
(***************************************************************************)

Phase(s) ==
  CASE s \in {"failed", "skipped"} -> "abandoned"
    [] s = "deleted" -> "withdrawn"
    [] OTHER -> s

D == INSTANCE Delivery WITH
       Exclusive <- Cardinality(Drains) = 1,
       phase     <- [p \in Msgs |-> Phase(status[p])],
       tries     <- sends,
       accepted  <- arrived

\* The outbox, its runs dying and overlapping as they may, does nothing that
\* Delivery does not allow: no offer beyond the limit, no "sent" without a
\* delivered copy, no return from a settled or withdrawn phase.
ImplementsDelivery == D!DSpec

M == INSTANCE Membership WITH Members <- Users, status <- users, filter <- sub

\* The runs that find a recipient gone, and die or overlap while they record it,
\* only ever let people go: a /stop in between stays a removal.
ImplementsMembership == M!MSpec
=============================================================================
