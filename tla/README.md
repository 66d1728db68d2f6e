# new-home-finder: a formal model

The program watches rental sites for new homes and tells subscribers about the
ones that fit. A Python worker (`src/worker`) scrapes and delivers, a Next.js
app (`src/apps/web`) takes subscriptions, and one Postgres database
(`src/db/migrations`) is all they share. This directory holds TLA+ models of the
parts that keep state, the TLC configurations that check them on small
instances, and TLAPS proofs of what matters most for every instance.

    tlc -config outbox_core.cfg MCOutbox      # model-check one instance
    tlapm OutboxProofs.tla                    # check the proofs of a module

## 1. The system

| part | code | state | operations |
|---|---|---|---|
| scheduling | `worker/__main__.py`, `worker/db.py` | `schedules`, advisory locks | tick, claim, quiet hours, run, run by hand |
| scrape run | `pipeline/run.py`, `pipeline/reconcile.py`, `sources/` | `sources` (health, cooldown, validators), `listings` | gate, discover, collect, judge, reconcile, block |
| HTTP client | `fetch/client.py`, `fetch/robots.py` | per run: budget, robots, agent, validators | get, retry, correct the agent, give up |
| extraction | `sources/`, `extract/`, `normalize/` | `parse_schemas` | apply a schema, judge a batch, normalise |
| criteria | `apps/web/lib/criteria.ts`, `pipeline/match.py` | `subscriptions.criteria` | parse a form, match a listing |
| matching | `pipeline/outbox.py` (`queue_matches`), `pipeline/match.py` | `notifications` | read subscriptions, tally the day, queue |
| delivery | `pipeline/outbox.py` (`drain`), `notify/telegram.py` | `notifications` | claim, send, settle, stop a user |
| sign-up | `apps/web/app/api/subscribe`, `apps/web/app/api/tg/webhook` | `users`, `user_channels`, `subscriptions` | submit the form, START, /stop |
| run log | `obs/log.py` | `job_runs`, `stage_runs` | nothing reads it back |

How they interact. A *tick* takes due schedules one by one and runs their jobs
under a lock named `job:<job>:<source>`. A `hot` or `sweep` job reads a source,
stores new listings, matches them and delivers, in one run; a `drain` job only
delivers. The web app writes the rows that matching and delivery read. Nothing
is passed in memory between processes: everything goes through the tables.

What is hard about it.

- **Every SQL statement of the worker commits by itself** (`worker/db.py:26-29`),
  so a row lock lasts for one statement and any two runs interleave between any
  two statements. The web handlers do use transactions.
- **Runs overlap.** GitHub's `concurrency: group: scrape` serialises the runs it
  starts itself, not a run from a command line; and the advisory lock is per
  job and source, so `hot`, `sweep` and `drain` never exclude each other.
- **Runs die.** The workflow cuts a job off after ten minutes, an exception of
  the database leaves the run wherever it is, and what was in memory is gone.
- **Sending is not atomic with recording it**, and an answer can be lost.
- **Conditional requests** make what a run sees depend on what an earlier run
  has *stored*, even if it then failed.
- **Miss counters, cooldowns, attempts and tallies** are carried over many runs.

What makes each part correct: a notification is offered a bounded number of times
and settles; people who left get nothing queued; nobody gets the backlog; the cap
holds; a listing is delisted only after two full passes missed it; an unhealthy
source is left alone and is read again afterwards; every stored home reaches the
matcher; a job never runs twice at once and every job comes round; a link works
once; `/stop` is complete; the client keeps its ceiling, the site's rules and its pace;
a page is stored with the rent it states, and its readers are told of exactly the homes
that answer what they asked.

`PROJECT.json` lists every component, also those without a model, and the hazards
at the lines where they bite.

## 2. The modules

| module | models | checked by | proved in |
|---|---|---|---|
| `Outbox` | matching, delivery, the web's effect on them | `MCOutbox` | `OutboxProofs` |
| `Delivery` | abstract: what the outbox promises of one message | refinement in `MCOutbox` | `OutboxRefinement` |
| `Scrape` | one source and the runs that read it | `Scrape` | `ScrapeProofs` |
| `Subscription` | form, START, /stop, the worker's stop | `MCSubscription` | `SubscriptionProofs` |
| `Membership` | abstract: what becomes of a person and the filter | refinement in `MCSubscription` and `MCOutbox` | `SubscriptionProofs`, `OutboxRefinement` |
| `Robots` | reading a robots.txt, and what its lines say | `MCPoliteClient` | `RobotsProofs` |
| `PoliteClient` | one run's requests and waits; uses `Robots` | `MCPoliteClient` | `PoliteClientProofs` |
| `Extraction` | from a page to a listing: schemas, verdict, normalisation | `MCAlerting` | `AlertingProofs` |
| `Criteria` | from a form to criteria, and from them to a verdict | `MCAlerting` | `AlertingProofs` |
| `Alerting` | search pages, scope, collection and matching over the two | `MCAlerting` | `AlertingProofs` |
| `Scheduler` | ticks, schedules, locks, quiet hours | `MCScheduler` | `SchedulerProofs` |

Conventions. Variables carry the names of the columns or of the Python variables
they stand for; `pc`, `mpc` and `dpc` say where a run is. An action is what happens
between two points at which another process can step in: one SQL statement of the
worker, one transaction of the web app, one HTTP request. Variables under
*history* are read by no action and exist for the properties. Constants called
`Max...` under *bound* cap counters of events that could go on forever (deaths,
faults, changes, midnights). A definition named `...V1` or `...V2` beside another
one is a *variant*: the same definition with a plausible bug, there to confirm
that a property notices it. No specification uses one.

**Outbox.** A subscription is named by its user (the form makes one of each) and
a notification by `<<user, listing>>`, its unique key. A matching run goes
`FindNew` (existing_listing found none), `InsertListing`, `ReadSubscriptions`,
`ReadTally`, then per pair `CapReached`, `AlreadyNotified` (the unique key),
`Queue` or `ForeignKeyFailure`. A delivering run goes `Claim` (the UPDATE of
claim_queued), `Fetch` (its SELECT), then per row `SkipGone` or `Send` and one of
`ApplySent`, `ApplyFailed`, `ApplyRetry` or the statements of stop_user and
`ApplyGone`. `SKIP LOCKED` is modelled by what it can do: the claim of a run
between its own two statements may or may not still be locked. `Wants` stands for the
criteria. Four outcomes of `drain` fail a row without sending (no notifier, no
address, nothing to render, unsupported kind); with the one channel and the
one kind of message the program has, and addresses that are never deleted, they
cannot happen and are left out, and so is the dry run.

**Delivery.** Per message a phase, the offers made and the copies accepted.
`Exclusive` says whether one run delivers at a time. `MCOutbox` maps
`failed`/`skipped` to abandoned, `deleted` to withdrawn, calls to the provider to
offers. It makes explicit what the outbox does *not* promise: a withdrawn message
whose row a run already holds can still go out (`Offer`), and without exclusion
a settled message may be offered and settled again.

**Scrape.** The site is an index, one child sitemap and a page per home. A run is
`Begin` (gate, validators and known ids), `GetIndex`, `GetChild`,
`GetChildDirectly` (what a sweep adds), `GetPage`, a verdict, `Look` and
`WriteListing` per home, `ReadActive` and `CountMiss` in a sweep, `ClearFailures`,
`SaveAndMatch` or `SaveAndStop` (the finally clause), `Match`. `Refused`,
`Unavailable`, `Aborted`, `JudgedBroken` and `Crash` are its other ways out.
`until` and `level` stand for health_until and the length of the cooldown. What
is left out: learned schemas, tracked fields, the LRU bound of saved
validators (the last five hundred are kept; losing one only costs a full answer), overlap of two
runs of one source (see the plan), the scope and the pages' contents, which are in
`Alerting`, and everything in `Match` that is `Outbox`.

**Subscription.** Links may be opened late, twice and from any chat. Tables with
unique keys, not identities, decide what happens: `StartFails` is the unique
violation that rolls START back. The worker's stop_user is two steps here.

**Membership.** Somebody joins, is activated, and from then on can only be let go. Sign-up
and outbox each implement it with their half of the code, so that what `Outbox` assumes
of its `Users` is what `Subscription` makes of its `Accounts`: no filter and no account
comes back, in whatever order START, /stop and the worker's stop_user meet.

**Robots.** A file is the sequence of its lines. `Parse`, `GroupFor` and `MayFetch` follow
the code line by line, group by group, rule by rule. `Permitted` and `AskedDelay` say the
same of the lines themselves: which `User-agent` line addresses us, which lines it binds,
which of them decides. The two loops of the code over lines and tokens are `Rounds`, the function from the
number of rounds done to what the loop has then, which is also what can be proved about. They take over from the code one choice that RFC 9309 makes
differently: of several groups for one agent only the first counts.

**PoliteClient.** One client per run: budget before a page, robots per host,
attempts per request, one correction of the User-Agent. Time passes only while the client
sleeps, which is the least it can be: `last` is the age of `_last_request_at`, `Pause`
what `_pace` still owes, and a retry sleeps first and is paced afterwards. Beside them
`since` and `wanted` say when a host was really called and how long it asked to be left
alone: its crawl delay, or the Retry-After it sent, not the wait the code makes of that. A host serves any of the `Files`, and what the client takes from a file is kept beside what
the file says. robots is respected (the default policy).

**Extraction, Criteria, Alerting.** A page is what a reader finds stated on it: the figures of
the rent in order, each with its period, and a value or nothing for every other field. `Apply` is
the adapter's detail schema, `Normalize` its normalize, `Broken` the verdict; `ParseForm`
and `Matches` are the form's way to the same comparison. Text is abstracted to
what is looked for in it: `Title` has a number because `text.bedrooms` searches the
heading for one. `Alerting` lets homes be published and let at any time, while runs of
either mode page through the search (`GetIndex`, Rightmove) or read all of the sitemaps
at once (OpenRent), read what is new and in scope (`GetPage`), and are
found broken (`MarkBroken`) or stored and matched (`ReconcileAndMatch`). Runs come
one after the other there; what their statements can do to each other is in `Scrape`.
The properties read the page and the form directly: `StatedRent`, `Beds`, `HasTheBeds` and
`HasTheRest` are written from what a person sees, not from the schemas and checks in between;
`Guessed` names the pages on which the adapters and that person part about the bedrooms.

**Scheduler.** Times are abstracted to their order: `agenda` lists the schedules by
next_run_at, `ndue` says how many are due, `current` says whether a reading of
next_run_at still equals the stored one. What a job does is reduced to whether
it ends with a delivery or holds messages back.

## 3. What the runs check

| run | instance | distinct states | shows |
|---|---|---|---|
| `outbox_core` | 1 person, 1 listing, 2 matchers, 2 drains, 2 attempts, 2 deaths, lost answers | 144,900 | bounds and final states under full overlap; implements `Delivery` and `Membership` |
| `outbox_serial` | 2 listings and a midnight for 1 person, or 2 people and 1 listing; 1 matcher, 1 drain, cap 1 | 83,648 | at most once, cap, sent is final, liveness; implements `Delivery` with `Exclusive` |
| `scrape` | 2 homes (one unreadable), 1 run at a time, 2 changes, 2 faults, 1 death | 217,722 | health gate, delisting, cooldown, announcements, liveness |
| `subscription` | 3 accounts, 2 chats | 2,746 | consent, one-time links, complete /stop; implements `Membership` |
| `client` | 3 pages on 2 hosts, every robots.txt of at most 4 lines out of 10, budget 4, 2 retries, a Retry-After below and above its cap, modes honest and auto | 353,310 | files read as written, bounded overshoot, robots, pace, refusals end a run |
| `alerting` | 3 homes, either site, 5 kinds of page each, 5 forms, page size 1, 1 or 2 search pages | 1,731,851 | rents by the month, alerts answer the form, a source is broken by its pages, paging skips nothing |
| `scheduler` | 2 schedules, 2 ticks, 1 run by hand, 1 death | 156,196 | exclusion, claims of due schedules only, no starvation |

Why these bounds. What goes wrong in this code is pairwise: two runs and one row,
a run and a /stop, a tick and another tick. The instances have two of whatever
competes. Attempts, misses and retries have a limit of two, so that "below", "at" and
"beyond" all occur; two deaths let both runs, or one run twice, die with one row.
A sweep needs two passes to delist, and the two faults allow a refused run between them.
Three accounts are needed for two of them to compete for the chat of a third. Two due
schedules are what a list that one tick reads and another works through takes.
`outbox_core` is about overlap and has one listing, so that two runs always meet on the
same row; `outbox_serial` has two, so that the cap of one can bind, or else two people, so that one's /stop
meets the other's match on one list (the action constraint `KeptApart` keeps the two questions apart, and the
instance small; it withholds nothing that fairness asks for). Symmetry is used
only for runs of one kind, accounts, chats and homes, and only in runs without liveness.

`client` enumerates its files instead of choosing some: four lines are two blocks of agents, each with a rule,
or one with two rules and a delay, over two tokens that are part of ours, one that is not, and `*`;
patterns and paths of two pieces have a wildcard, an anchor and an empty rule among them.
`alerting` has pages and forms that differ from a plain one in what one step of the way tells
apart: a studio, a room and a terraced house with no number, a silent page, a rent that is too low, weekly only or without a
period, a type the matcher calls by another name; a bound on each side, a type nobody
offers, a district nobody collects for. Three homes and search pages of one result
are what it takes for a home to be pushed from the first page to the second, and past it.

Deadlock checking is off where the system may stop by right: people may stop
coming (`outbox_*`), a broken source waits for an operator (`scrape`, `scrape_lost`),
a client's run ends (`client`), everything may have been read (`alerting`).

### Fairness

- `Outbox`: weak fairness of each delivering run, and of a matching run once it is
  under way. The run is a sequential program; a new delivering run comes with the
  next due schedule. People, new listings, blocks and midnights owe nothing.
- `Scrape`: weak fairness of a run under way and of the clock; strong fairness of
  `Begin` per mode, because both schedules come round forever and the gate
  may be closed at times. Faults, deaths and the site owe nothing.
- `Scheduler`: every schedule is due again and again (the clock passes any
  next_run_at), ticks keep coming, a process under way goes on. A run may raise every time.

The cron trigger in `scrape.yml` is commented out "until the pipeline works end to
end"; liveness is stated for a deployment in which it is enabled.

### Where the code and its documentation disagree

Five runs are expected to end in a counterexample; each states what the repository
says, and the trace is what the code does.

| run | promise | what happens |
|---|---|---|
| `outbox_exactly_once` | "exactly once", a crash costs "a retry rather than a lost or duplicated message" (`outbox.py:3-6`) | the run dies after the provider took the message and before `mark_sent`; the next run sends it again |
| `scrape_delist` | delisting is for a listing "the source did not return" (`reconcile.py:118`) | `expand` drops known ids in a sweep too, so two sweeps delist a home still on the market |
| `scrape_lost` | "a failure loses only its own work" (`run.py:3-4`) | a run that fails after the sitemaps saves their validators; later runs get 304 and never see the home |
| `subscription_return` | "the same chat may return with a new subscription" (`route.ts:116-118`) | the insert violates `UNIQUE (channel, address)` before the UPDATE that moves the address; the person gets no answer |
| `quiet_hours` | "nobody is messaged at 03:00" (`__main__.py:173-175`) | the seeded drain schedule has no quiet hours and sends what the hot job held back |

Met on the way and without a run of their own.

- A /stop does not reach rows already in a delivering run's batch, although STOPPED says
  that "nothing will arrive after this"; a row whose last attempt died stays queued and
  unclaimable; rows queued before midnight count on the day they were created, not
  on the day they arrive.
- `client.py:286` says transport failures are retried by the caller, and nobody retries
  them.
- A Retry-After is capped at `retry_max_seconds` (`client.py:366`) although "that instruction wins"
  (`client.py:365`). `LeftAlone` compares each call with what the host sent and lets only this
  one through: a call sooner than that comes after `retry_max_seconds`.
- One person's /stop costs others their matches: the row it refuses raises in the middle of
  `queue_matches`, and what is left of the run's list is never queued, although "a failure loses only its
  own work" (`run.py:3-4`). `MatchesQueued` names that price (`Refused`) and no other but the cap.
- Groups of one agent in a robots.txt are not combined as RFC 9309 has it, and a line of any
  other field ends a block of `User-agent` lines.
- "Unknown does not pass" a criterion (`match.py:5`), but an unknown number of bedrooms never gets
  there: both adapters store it as 0 (`rightmove.py:222`, and likewise OpenRent's normalize), so a page
  that names none passes "at most" and fails "at least". On OpenRent a heading that counts none first
  lends the digits of its district: a room in SE16 has sixteen, although "a room in a shared property
  is one habitable room" (`text.py:53`); on Rightmove a room has 0. `AlertsAnswerTheForm` has the reader's
  view (`Beds`), under which all of these are wrong, and so claims of these pages (`Guessed`), when the
  form asks about bedrooms, only that an alert is right about everything else.
- Most houses are "terraced", "semi-detached" or "detached" on the sites and keep that name,
  so the form's "house" does not find them (`Called` says so).
- Rightmove states no number of bedrooms for a studio, and the field is required: a run that
  finds one new studio and nothing else marks the source broken, although a studio is "zero bedrooms, not
  a missing value" (`text.py:42`, `rightmove.py:208-209`,
  `test_a_studio_without_a_bedroom_count_is_zero_not_missing`). `VerdictOnThePages` states the verdict
  as it is reached, with such studios counted against the source (`ShowsBeds`); with them counted as `Beds`
  counts them it is violated.
- The range checks of `health.py` read `price_pcm` and `bedrooms`, rows have `price_raw` and
  `bedrooms_raw`; `recent_average` is never given, so "degraded" never occurs; a run
  without a schema still ends "ok".
- A run limited to some districts requests Rightmove's search pages of all that are enabled.
- While a run pages, a home that is let moves the results up, and one may pass unseen until the
  next run (`PagingSkipsNothing` leaves that case out).
- A number field of the form that holds only blanks is read as 0.
- The same heading makes a room in a district numbered above 20 (SE21 and on) a listing with more
  bedrooms than `Listing` allows, so the room is never stored (`Implausible` names the case).
- One page without its rent or its number of bedrooms is enough to take a source out of action when
  the run finds little else: the share is taken of however few pages there are.

## 4. What is proved

Proved by TLAPS for every value of the constants, from the assumptions named in the modules
(finite sets of people, listings, homes, hosts and runs; positive limits; the "no row" and
"nobody" values outside the sets). Some theorems need fewer runs than the models allow; they say
so in an `ASSUME` of their own (`OneDrain`, `OneMatcher`, `OneRun`). The deployment keeps these
promises as far as the `scrape` concurrency group reaches: it serialises the runs GitHub starts,
and a run started from a command line breaks them, in which case the theorem says nothing.

| module | theorem | property | for |
|---|---|---|---|
| `OutboxProofs` | `TypeCorrect` | `TypeOK` | any runs |
| | `SendsBoundedAlways` | `SendsBounded`: at most MAX_ATTEMPTS calls to the provider | any runs |
| | `StopEmptiesQueueAlways` | `StopEmptiesQueue`: nothing queued once /stop removed the filter | any runs |
| | `NoBacklogReplayAlways` | `NoBacklogReplay`: only listings newer than the subscription | any runs |
| | `NeverRequeuedAlways` | `NeverRequeued`: what left the queue stays out | any runs |
| | `Safe` | `SafeInv`, the inductive invariant behind them | any runs |
| | `SentIsFinalAlways` | `SentIsFinal`: a sent row stays sent | one delivering run |
| | `AtMostOnceAlways` | `AtMostOnce`: no message is accepted twice | one delivering run, no deaths, no lost answers |
| | `DailyCapAlways` | `DailyCap` | one delivering and one matching run |
| `OutboxRefinement` | `MembershipImplemented` | `ImplementsMembership` | any runs |
| | `DeliveryImplemented` | `ImplementsDelivery`, exclusive when there is one delivering run | any runs |
| `SubscriptionProofs` | `TypeCorrect` | `TypeOK` | any accounts and chats |
| | `ConsentAlways` | `ConsentOnRecord` | |
| | `LinkWorksOnceAlways` | `LinkWorksOnce` | |
| | `StopIsCompleteAlways` | `StopIsComplete` | |
| | `MembershipImplemented` | `ImplementsMembership` | |
| `ScrapeProofs` | `TypeCorrect` | `TypeOK` | any runs |
| | `StoredIsAnnouncedAlways` | `StoredIsAnnounced`: no stored home is lost on its way to the matcher | any runs |
| | `UnhealthyIsLeftAloneAlways` | `UnhealthyIsLeftAlone` | one run |
| | `TwoMissesAlways` | `TwoMissesToDelist` | one run |
| | `CooldownEscalatesAlways` | `CooldownEscalates` | one run |
| `RobotsProofs` | `FetchedAsPermitted` | parsed and queried, a file permits what its lines permit | any file, any path |
| | `DelayedAsAsked` | the delay kept is the one its lines ask for | any file |
| `PoliteClientProofs` | `ReadAsWrittenAlways` | `ReadsWhatItSays` | any files and pages |
| | `TypeCorrect` | `TypeOK` | any files, pages, hosts, limits |
| | `BoundedOvershootAlways` | `BoundedOvershoot` | |
| | `RefusalEndsRunAlways` | `RefusalEndsRun` | |
| | `RobotsRespectedAlways` | `RobotsRespected` | |
| | `LeftAloneAlways` | `LeftAlone` | |
| `SchedulerProofs` | `OneRunPerJobAlways` | `OneRunPerJob` | any ticks and runs by hand |
| | `TypeCorrect` | `TypeOK` | |
| | `ClaimedWhenDueAlways` | `ClaimedWhenDue` | |
| `AlertingProofs` | `TypeCorrect` | `TypeOK`, with the bounds of what is stored | any homes, forms, districts, page sizes, and pages as below |
| | `RentIsMonthlyAlways` | `RentIsMonthly` | |
| | `AlertsAnswerTheFormAlways` | `AlertsAnswerTheForm` | |
| | `VerdictOnThePagesAlways` | `VerdictOnThePages` | |
| | `PagingSkipsNothingAlways` | `PagingSkipsNothing` | |
| | `InvAlways` | `IInv`, the inductive invariant behind them | |

Every theorem but `Safe`, `InvAlways` and the two of `RobotsProofs` states a property that a run of section 3
checks too. Hardly any of these properties is inductive. What had to be found is what a process
*knows*: something it read, wrote or took that nobody else can have changed since.

**Outbox, any number of runs.** `SendsBounded` compares calls with the counted attempts, and the
count is made in `Claim`, long before the call. `SafeInv` therefore adds, part by part:

- `TypeInv`: the types, and that a run waiting for an answer has a row in hand;
- `RowsInv`: what the status of a row says about the person and the backlog;
- `HeldInv`: a row that a delivering run holds or has in hand was inserted at some time;
- `TodoInv`: what a matcher has read about the pairs it still has to queue;
- `CountInv`: calls made plus the copies that runs still hold are no more than attempts. This is
  a sum over runs, so the proof counts holders as the cardinality of a set of runs.

`StopEmptiesQueue` needs the foreign key (`Queue` requires the row of the subscription);
`NeverRequeued` follows from the types and the guard of `Queue` by one step.

**Outbox, serial.** With one delivering run, `SerialInv` holds: what the run holds or has in
hand is still queued, or was withdrawn by the person (`HeldFresh`, `HandFresh`). That is false
of two runs, whose claims may cover the same row, and it is all `SentIsFinal` needs. `OnceInv`
adds that a listing that reached its recipient is settled, withdrawn, or in the hand of the run
that has the answer. `CapInv` says that a day never counts more than the cap and, while the
matcher works through its list, never more than it has tallied; a second matcher, or a tally
taken by another run, breaks it, which is why the cap is a promise to one matcher only.

**Outbox and sign-up refine.** For `Membership` the outbox has to know that whoever it plans a
row for was activated once (`Planned`, `Notified`) and that whoever a run is about to cut off is
blocked by then, or has left (`CuttingOff`). For `Delivery`, `OkInv` says that an "ok" in the
hand means a copy has arrived; each step maps, message by message, to one of `Delivery`'s or to
a stutter. With one delivering run `SerialInv` excludes what the exclusive `Delivery` does not
do: offer or settle a settled message again.

**Sign-up.** `SubInv` has six parts beside the types. `OneAccountPerChat` is the unique key;
`LinkedOnce` says that the chats an account was ever linked to are the one it has;
`ActiveByConsent`, `NoFilterAfterStop` and `StoppedIsInactive` are what the statuses say to each
other, and `HalfwayIsBlocked` covers the worker between its two statements. `StopIsComplete`
needs the first: /stop looks at one account, and there is no other.

**Scrape.** `StoredIsAnnounced` survives any overlap: a run has nothing fresh before it
reconciles (`NothingFresh`), and rows are never removed, so what was there at the look or in the
snapshot is there ever after (`LookedAt`). The other three do not, and assume `OneRun`.
`SerialInv` then says that the number of failures read at the gate is still the one in the table
when the cooldown is computed (`CooldownKnown`), and that the snapshot a sweep counts misses
from is the table (`MissesKnown`).

**robots.txt.** The code parses a file into groups, picks the group for us, then the rule for
the path; `Permitted` and `AskedDelay` say the result on the lines. The proof that they agree on
every file goes by induction over the lines. The library's induction theorems cannot be used
(they take an operator as parameter), so `Induction` derives, from the well-foundedness of `<`,
induction up to a bound over a *set*, and `Recursion` and `Settled` what a loop (`Rounds`) does.
Then: after n lines the k-th group holds the tokens, the rules and the last delay of the lines
that its agents bind (`GroupsKeep`); the k-th group is the k-th run of `User-agent` lines
(`RunOfGroup`, `GroupsAndRuns`); the group chosen is the run that `Addressed` names
(`Selected`); and the rule the last loop ends with is a strongest one that matches
(`WinnerIsStrongest`). What `Matches` says of one pattern and one path is shared by both sides,
so that this proof is about files, not about wildcards.

**HTTP client.** `FileIsWritten` applies the two theorems to the files a host serves. So the
rules and the delay of a host are those of the lines it served (`ReadsWhatItSays`), and `RulesInv`,
which adds that pages are asked for by them, gives `RobotsRespected` with no assumption about the parser. `BudgetInv` bounds requests stage by stage of one page
(`WithinPage`) and counts the calls that the budget does not see (`Uncounted`). `RefusalInv`
relates refusals to the one correction. `PaceInv` is about waits: while a run is live, the age
the client knows of a host's last answer is the age of its last call, and what a host asked for
is either over, or no more than the delay the client keeps, or has been waited for up to
`retry_max_seconds` (`Paced`), the last being the one case in which a call may be early; it fails only when a
transport failure ends the run.

**Scheduler.** `OneRunPerJob` becomes inductive with `Owns`: who runs a job has its lock.
Whoever lets go of the lock is running nothing (`OwnsUnlocked`), and it is taken only when free
(`OwnsTaken`). A claim moves a schedule to the end of the agenda; `TypeOK` keeps it a
permutation of the schedules, `Lists` says that ticks work through schedules only, and
`CurrentIsDue` says that a reading which still equals the stored `next_run_at` is of a schedule
that is still due, so the conditional UPDATE never claims one that is not.

**From the page to the alert.** What these theorems assume of a site is `PagesAssumption`, read
off the two schemas and their comments. OpenRent's row "Rent PCM" has one figure at most.
Rightmove's fold nests the weekly figure inside the monthly one
(`sources/rightmove.py:111-118`), so each period comes once and no weekly figure stands before
a monthly one. A number is a natural number or missing, and a district's name has a number.
Any other page, with any type, flags and districts, is allowed, and so are forms with any answers.

The data come first, as lemmas without a state. `RentRead`: the first figure with its
period, through `detect_period` and `to_pcm`, is the rent that `StatedRent` finds. `BedsRead`: the
count that comes out of the text and of OpenRent's fallback to the heading is the one the page names, a
fixed number without one, or the digits of the district (`MadeUp`); unless it is `Guessed` it is the
reader's. `MatchIsAnswer`: on a valid listing the matcher's verdict is `HasTheRest` and, unless guessed,
`HasTheBeds`, check by check. `VerdictOnRows`: the shares that the verdict takes of the rows are those of the
pages. `InvalidForAReason` is what a page that normalize refuses has wrong with it.

`IInv` then says that the run keeps to the pages. `RunInv`: rows are what the pages make, of homes
not stored, and a broken source runs no more. `StoredInv`: what is stored is the page's
listing, what was read and is not stored is no valid one. `MatchInv`: the criteria are the form's, the
alerts the matcher's. The paging needs two more. `IndexInv` keeps the search pages of one district in their
order. `ReachedInv` follows a home that was advertised when the run began: it is queued, or
*every* page of its search is still to come or shows only homes before it. A new home
moves others back (`PublishPushes`), so that stays true; a page that is read shows the home, or lies behind
it, and then an earlier page would still have to come, against the order (`ReachedByGetIndex`). That
`discover` asks for every page of every district, each in its turn, is `DiscoverOnRightmove`.
A home that is let breaks `ReachedInv`; `owed` is emptied then, and the theorem says nothing of that run.

**Only model-checked.**

- The five expected violations: a theorem cannot have a counterexample.
- All liveness (`QueueDrains`, `MatchesQueued`, `BlockLifts`, `CleanRunsStore`,
  `EachJobRunsAgain`): fairness and ENABLED are out of the prover's reach.
- What `Matches` and `Permitted` say about one pattern character by character is a definition,
  not a theorem.

## 5. Not modelled, and why

- Learned schemas and their storage, JSON strategies, document fingerprints: both adapters carry a
  schema of their own, which the first page puts in force and nothing replaces.
- Dates, deposits, descriptions and the other flags of a page: stored and shown, compared
  with nothing a form can ask. Zones, the date window and flags wanted to be FALSE are in
  `match.py` but in no form.
- Two runs of one source at once are not model-checked: a hot run and a sweep hold different locks. The
  run of `Scrape` has one at a time, and so has `Alerting`; `ScrapeProofs` covers the overlap only for what it
  proves of any runs. What the overlap does to the tables of the outbox is in `Outbox`, with any number
  of runs.
- The run log, configuration, row level security, Docker, user interface, scripts: no behaviour over time,
  or nothing that reads it back.
- Clock arithmetic of days: next_run_at, health_until and midnight are events. The client's
  waits are numbers.

## 6. Plan

Done, in this order: `Outbox` with `Delivery`, `OutboxProofs`, `Scrape`, `Subscription`,
`PoliteClient`, `Scheduler`, `SchedulerProofs`; then `Robots` and the client's waits, `Criteria`,
`Extraction` and `Alerting`, `Membership`; then the proofs: both refinements, sign-up, scrape, the serial
outbox, robots.txt, client, scheduler, alerting. Every safety property that a passing run checks is
proved as well.

Next:

1. `Scrape` with two runs of different jobs on one source: misses counted from a stale
   snapshot, health overwritten between gate and verdict, validators of the slower run.
2. Overlapping runs in `Alerting`, whose rows and alerts are kept apart today by `RunInv`.
3. `Outbox` with the criteria of `Criteria` in the place of `Wants`.
