---------------------------- MODULE PoliteClient ----------------------------
(***************************************************************************)
(* One run's requests to a source: worker/fetch/client.py, and what        *)
(* _discover and _collect of worker/pipeline/run.py make of its            *)
(* exceptions.  Robots reads the hosts' robots.txt.                        *)
(*                                                                         *)
(* A client lives for one run.  Time is what it sleeps: what the rest of   *)
(* the run takes only widens the gaps.  Validators are in Scrape.          *)
(***************************************************************************)
EXTENDS Robots

CONSTANTS
  Urls,          \* pages a run may ask for
  Origins,       \* their hosts
  OriginOf,      \* [Urls -> Origins]
  PathOf,        \* [Urls -> paths]
  Files,         \* robots.txt files a host may serve
  NoUrl,         \* no request under way
  AgentModes,    \* values of policy.user_agent_mode to consider
  MaxRequests,   \* policy.max_requests
  RetryMax,      \* policy.retry_max_attempts
  Gaps,          \* what 1 / policy.rate_limit_rps gives after the jitter
  RetryAfters,   \* values of a Retry-After header
  RetryBase,     \* policy.retry_base_seconds
  RetryCap,      \* policy.retry_max_seconds
  LongAgo        \* ages are not told apart from here on

ASSUME OriginAssumption  == IsFiniteSet(Origins) /\ OriginOf \in [Urls -> Origins]
ASSUME NoUrlAssumption   == NoUrl \notin Urls
ASSUME ModesAssumption   == AgentModes \subseteq {"honest", "chrome", "auto"}
ASSUME PolicyAssumption  == MaxRequests \in Nat \ {0} /\ RetryMax \in Nat
ASSUME TimesAssumption   ==
  /\ Gaps \subseteq Nat /\ Gaps # {}
  /\ LongAgo \in Nat /\ RetryCap \in 0..LongAgo /\ RetryAfters \subseteq 0..LongAgo
  /\ \A n \in 0..RetryMax : RetryBase * 2 ^ n \in Nat
\* Files have lines, and ages are told apart up to any delay they ask for.
ASSUME FilesAssumption   ==
  /\ Files \subseteq Seq(Line)
  /\ \A f \in Files : \A i \in DOMAIN f :
       f[i].key = "crawl-delay" => f[i].delay <= LongAgo

VARIABLES
  policyMode,  \* policy.user_agent_mode
  agent,       \* _ua_mode
  escalated,   \* _escalated
  rules,       \* _robots: the urls allowed, by host, for the hosts asked
  delay,       \* _crawl_delay, 0 for none
  last,        \* the age of _last_request_at, for the hosts that answered
  requests,    \* stats.requests
  phase,       \* "discover" or "collect"
  pc,          \* "idle", "robots", "allowed", "send", or how the run ended
  url,         \* the page asked for
  attempt,     \* of the request under way
  \* history
  calls,       \* calls to the transport
  forbidden,   \* answers with status 403
  unread,      \* hosts whose robots.txt could not be read
  asked,       \* pages asked for from the transport
  refused,     \* pages not asked for because of robots.txt
  says,        \* what the files read permit, and the delay they ask for
  since,       \* the age of the last call, for the hosts called
  wanted,      \* how long after it each host wants to be left alone
  rushed       \* calls made sooner than that: their age, and the crawl delay

pacing == <<last, since, wanted, rushed>>
robots == <<rules, delay, says, unread>>

vars == <<policyMode, agent, escalated, robots, pacing, requests, phase, pc, url,
          attempt, calls, forbidden, asked, refused>>

Errors == {"Disallowed", "Challenged", "Blocked", "BudgetExhausted", "FetchFailed"}

Init ==
  /\ policyMode \in AgentModes
  /\ agent = policyMode
  /\ escalated = FALSE
  /\ rules = [o \in {} |-> {}] /\ delay = rules /\ says = rules /\ unread = {}
  /\ last = rules /\ since = rules /\ wanted = rules /\ rushed = {}
  /\ requests = 0
  /\ phase = "discover"
  /\ pc = "idle"
  /\ url = NoUrl
  /\ attempt = 0
  /\ calls = 0
  /\ forbidden = 0
  /\ asked = {}
  /\ refused = {}

\* Only _collect survives an exception, and only Disallowed; the variant goes on
\* after a refusal as well.
SurvivesV1(e) == phase = "collect" /\ e \in {"Disallowed", "Blocked"}
Survives(e) == phase = "collect" /\ e = "Disallowed"

Raise(e) ==
  /\ pc' = IF Survives(e) THEN "idle" ELSE e
  /\ url' = NoUrl
  /\ attempt' = 0

Return ==
  /\ pc' = "idle"
  /\ url' = NoUrl
  /\ attempt' = 0

\* The index is read; from here on the pages are.
EnterCollect ==
  /\ pc = "idle"
  /\ phase = "discover"
  /\ phase' = "collect"
  /\ UNCHANGED <<policyMode, agent, escalated, robots, pacing, requests, pc, url,
                 attempt, calls, forbidden, asked, refused>>

\* The ceiling on requests; the variant lets one more through.
OverBudgetV1 == requests > MaxRequests
OverBudget == requests >= MaxRequests

\* _check_budget, before a page only; the ceiling on time may end any run here.
Get(u) ==
  /\ pc = "idle"
  /\ ~OverBudget
  /\ url' = u
  /\ pc' = IF OriginOf[u] \in DOMAIN rules THEN "allowed" ELSE "robots"
  /\ UNCHANGED <<policyMode, agent, escalated, robots, pacing, requests, phase,
                 attempt, calls, forbidden, asked, refused>>

Exhausted ==
  /\ pc = "idle"
  /\ Raise("BudgetExhausted")
  /\ UNCHANGED <<policyMode, agent, escalated, robots, pacing, requests, phase,
                 calls, forbidden, asked, refused>>

-----------------------------------------------------------------------------
(***************************************************************************)
(* Pacing                                                                  *)
(***************************************************************************)

With(f, o, x) == [h \in DOMAIN f \cup {o} |-> IF h = o THEN x ELSE f[h]]
Older(f, t) == [h \in DOMAIN f |-> Min({f[h] + t, LongAgo})]

\* _interval: the jittered gap, or the host's own delay if that is longer; the
\* variant knows only the gap.
IntervalV1(o, gap) == gap
Interval(o, gap) == IF o \in DOMAIN delay THEN Max({gap, delay[o]}) ELSE gap

\* _pace: nothing is owed before the first request that a host answers.
Pause(o, gap) ==
  IF o \in DOMAIN last THEN Max({0, Interval(o, gap) - last[o]}) ELSE 0

\* A call after the pause; afterwards the client may sleep again.  A call that
\* raises leaves _last_request_at as it was.
Call(o, answered, sleep) ==
  \E gap \in Gaps :
    LET pause == Pause(o, gap)
    IN /\ last' = IF answered THEN With(Older(last, pause + sleep), o, sleep)
                  ELSE Older(last, pause + sleep)
       /\ since' = With(Older(since, pause + sleep), o, Min({sleep, LongAgo}))
       /\ rushed' = IF o \in DOMAIN since /\ Older(since, pause)[o] < wanted[o]
                    THEN rushed \cup {[age |-> Older(since, pause)[o],
                                       delay |-> says[o].delay]}
                    ELSE rushed
       /\ calls' = calls + 1

-----------------------------------------------------------------------------
(***************************************************************************)
(* robots.txt                                                              *)
(***************************************************************************)

\* What the client takes from each file, and what the file says.
Readings ==
  {LET groups == Parse(f)
   IN [allowed |-> {u \in Urls : MayFetch(groups, PathOf[u])},
       delay |-> GroupFor(groups).delay,
       says |-> [permits |-> {u \in Urls : Permitted(f, PathOf[u])},
                 delay |-> AskedDelay(f)]] : f \in Files}
NoFile == [allowed |-> Urls, delay |-> 0, says |-> [permits |-> Urls, delay |-> 0]]

ReadAs(o, reading) ==
  /\ rules' = With(rules, o, reading.allowed)
  /\ delay' = With(delay, o, reading.delay)
  /\ says' = With(says, o, reading.says)
  /\ wanted' = With(wanted, o, reading.says.delay)

\* _load_robots: read, or not there, or the transport raised; a request that
\* raises is not counted, and a host without a file allows everything.
LoadRobots ==
  /\ pc = "robots"
  /\ LET o == OriginOf[url]
     IN \/ /\ \E r \in Readings : ReadAs(o, r)
           /\ Call(o, TRUE, 0)
           /\ requests' = requests + 1
           /\ UNCHANGED unread
        \/ /\ ReadAs(o, NoFile)
           /\ \E answered \in BOOLEAN :
                /\ Call(o, answered, 0)
                /\ requests' = IF answered THEN requests + 1 ELSE requests
           /\ unread' = unread \cup {o}
  /\ pc' = "allowed"
  /\ UNCHANGED <<policyMode, agent, escalated, phase, url, attempt, forbidden,
                 asked, refused>>

\* can_fetch with the rules of the page's own host; the variant asks whichever
\* host was read.
CanFetchV1(u) == \E o \in DOMAIN rules : u \in rules[o]
CanFetch(u) == u \in rules[OriginOf[u]]

Allowed ==
  /\ pc = "allowed"
  /\ IF CanFetch(url)
     THEN pc' = "send" /\ UNCHANGED <<url, attempt, refused>>
     ELSE Raise("Disallowed") /\ refused' = refused \cup {url}
  /\ UNCHANGED <<policyMode, agent, escalated, robots, pacing, requests, phase,
                 calls, forbidden, asked>>

-----------------------------------------------------------------------------
(***************************************************************************)
(* Requests                                                                *)
(***************************************************************************)

\* One call to the transport that answers; the client then sleeps.
AnsweredThen(sleep) ==
  /\ pc = "send"
  /\ Call(OriginOf[url], TRUE, sleep)
  /\ requests' = requests + 1
  /\ asked' = asked \cup {url}
  /\ UNCHANGED <<policyMode, robots, phase, refused>>

\* From now on the host wants its own delay, or longer if the answer says so.
Wants(t) == wanted' = [wanted EXCEPT ![OriginOf[url]] = Max({says[OriginOf[url]].delay, t})]

Answered == AnsweredThen(0) /\ Wants(0)

\* 200, 304, or a status nobody retries.
Served ==
  /\ Answered
  /\ Return
  /\ UNCHANGED <<agent, escalated, forbidden>>

IsChallenge ==
  /\ Answered
  /\ Raise("Challenged")
  /\ UNCHANGED <<agent, escalated, forbidden>>

\* At most one correction of the User-Agent.
CanEscalate == policyMode = "auto" /\ ~escalated

Escalate ==
  /\ Answered
  /\ CanEscalate
  /\ agent' = "chrome"
  /\ escalated' = TRUE
  /\ attempt' = attempt + 1
  /\ forbidden' = forbidden + 1
  /\ UNCHANGED <<pc, url>>

Refused ==
  /\ Answered
  /\ ~CanEscalate
  /\ Raise("Blocked")
  /\ forbidden' = forbidden + 1
  /\ UNCHANGED <<agent, escalated>>

\* attempt counts the call just made; the variant forgets to.
SpentRetriesV1 == attempt > RetryMax
SpentRetries == attempt + 1 > RetryMax

\* _backoff: doubling from the base, unless the host says how long; no longer than
\* retry_max_seconds either way.
Backoff == Min({RetryBase * 2 ^ attempt, RetryCap})

Retry ==
  /\ \/ AnsweredThen(Backoff) /\ Wants(0)
     \/ \E t \in RetryAfters :
          AnsweredThen(Min({t, RetryCap})) /\ Wants(t)
  /\ ~SpentRetries
  /\ attempt' = attempt + 1
  /\ UNCHANGED <<agent, escalated, forbidden, pc, url>>

GiveUp ==
  /\ Answered
  /\ SpentRetries
  /\ Raise("FetchFailed")
  /\ UNCHANGED <<agent, escalated, forbidden>>

\* The transport raises: not counted, and not retried.
TransportFails ==
  /\ pc = "send"
  /\ Call(OriginOf[url], FALSE, 0)
  /\ asked' = asked \cup {url}
  /\ Raise("FetchFailed")
  /\ UNCHANGED <<policyMode, agent, escalated, robots, wanted, requests, phase,
                 forbidden, refused>>

Next ==
  \/ EnterCollect
  \/ \E u \in Urls : Get(u)
  \/ Exhausted
  \/ LoadRobots
  \/ Allowed
  \/ Served
  \/ IsChallenge
  \/ Escalate
  \/ Refused
  \/ Retry
  \/ GiveUp
  \/ TransportFails

Spec == Init /\ [][Next]_vars
-----------------------------------------------------------------------------
(***************************************************************************)
(* Properties                                                              *)
(***************************************************************************)

\* Every variable has its type; the agent differs from the policy only by the
\* one correction.
TypeOK ==
  /\ policyMode \in AgentModes
  /\ agent = IF escalated THEN "chrome" ELSE policyMode
  /\ escalated \in BOOLEAN
  /\ DOMAIN rules \in SUBSET Origins
  /\ rules \in [DOMAIN rules -> SUBSET Urls]
  /\ says \in [DOMAIN rules -> [permits : SUBSET Urls, delay : Nat]]
  /\ DOMAIN delay = DOMAIN rules /\ delay \in [DOMAIN rules -> Nat]
  /\ DOMAIN wanted = DOMAIN rules /\ wanted \in [DOMAIN rules -> Nat]
  /\ DOMAIN since = DOMAIN rules /\ since \in [DOMAIN rules -> 0..LongAgo]
  /\ DOMAIN last \in SUBSET DOMAIN rules /\ last \in [DOMAIN last -> Nat]
  /\ rushed \in SUBSET [age : 0..LongAgo, delay : Nat]
  /\ requests \in Nat
  /\ phase \in {"discover", "collect"}
  /\ pc \in {"idle", "robots", "allowed", "send"} \cup Errors
  /\ url \in Urls \cup {NoUrl}
  /\ pc \in {"robots", "allowed", "send"} <=> url # NoUrl
  /\ attempt \in 0..(RetryMax + 1)
  /\ calls \in Nat
  /\ forbidden \in Nat
  /\ unread \in SUBSET Origins
  /\ asked \in SUBSET Urls
  /\ refused \in SUBSET Urls

\* The ceiling is tested before each page and nowhere else, so retries, the
\* correction, robots.txt and calls that raise can pass it, but by no more than
\* one page's worth.
BoundedOvershoot ==
  /\ requests <= MaxRequests + RetryMax + 2
  /\ calls <= requests + Cardinality(unread) + 1

\* Whatever lines a host's robots.txt has, RobotsTxt.parse and its queries make of it
\* the answer for each page, and the delay, that the lines themselves promise.
ReadsWhatItSays ==
  \A o \in DOMAIN rules : rules[o] = says[o].permits /\ delay[o] = says[o].delay

\* Whatever lines a robots.txt has, in whatever order hosts and pages come up,
\* the client asks for no page that the page's own host forbids, and passes over
\* none that it permits.
RobotsRespected ==
  /\ \A u \in asked : u \in says[OriginOf[u]].permits
  /\ \A u \in refused : u \notin says[OriginOf[u]].permits

\* Once a host's robots.txt is read, no call to it follows another sooner than
\* the crawl delay it names: not the first page after robots.txt, not after a
\* retry, a correction of the User-Agent or requests to other hosts.  Nor does one
\* come sooner than the last answer asked to be retried, unless that is longer than
\* retry_max_seconds: then it comes after retry_max_seconds, although the code says
\* of the host's instruction that it wins.  A host whose file failed has named no
\* delay.
LeftAlone == \A call \in rushed : call.age >= call.delay /\ call.age >= RetryCap

\* Two refusals end a run in mode auto and one any other: there is one correction
\* per run, not one per page, and nothing is asked for after the last refusal.
RefusalEndsRun ==
  forbidden > (IF policyMode = "auto" THEN 1 ELSE 0) => pc = "Blocked"
=============================================================================
