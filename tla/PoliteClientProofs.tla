-------------------------- MODULE PoliteClientProofs --------------------------
(***************************************************************************)
(* Proofs about PoliteClient, for any pages, hosts, robots.txt files,      *)
(* gaps, delays and limits.  That a file is read as it is written comes    *)
(* from RobotsProofs.                                                      *)
(***************************************************************************)
EXTENDS PoliteClient, RobotsProofs

-----------------------------------------------------------------------------
(***************************************************************************)
(* The files                                                               *)
(***************************************************************************)

\* What the client takes from a file, page by page and as the delay, is what the
\* lines of the file promise.
LEMMA FileIsWritten ==
  ASSUME NEW f \in Files
  PROVE  /\ \A u \in Urls : MayFetch(Parse(f), PathOf[u]) <=> Permitted(f, PathOf[u])
         /\ GroupFor(Parse(f)).delay = AskedDelay(f)
<1>1. f \in Seq(Line)
  BY FilesAssumption
<1> QED
  BY <1>1, FetchedAsPermitted, DelayedAsAsked, Zenon

\* No delay is longer than the ages that are told apart.
LEMMA DelaysBounded ==
  ASSUME NEW f \in Files
  PROVE  GroupFor(Parse(f)).delay \in Nat /\ AskedDelay(f) \in 0..LongAgo
<1>1. f \in Seq(Line) /\ LongAgo \in Nat
  BY FilesAssumption, TimesAssumption
<1> DEFINE d == AskedDelay(f)
<1>2. d \in Nat /\ (d = 0 \/ \E i \in DOMAIN f : f[i].key = "crawl-delay" /\ d = f[i].delay)
  BY <1>1, AskedIsWritten
<1>3. GroupFor(Parse(f)).delay = d
  BY <1>1, DelayedAsAsked
<1> HIDE DEF d
<1>4. d <= LongAgo
  BY <1>1, <1>2, FilesAssumption
<1>5. d \in 0..LongAgo
  BY <1>1, <1>2, <1>4
<1> QED
  BY <1>2, <1>3, <1>5 DEF d

-----------------------------------------------------------------------------
(***************************************************************************)
(* Functions from hosts, and what a call does to them                      *)
(***************************************************************************)

\* The larger and the smaller of two numbers.
LEMMA MaxOfTwo ==
  ASSUME NEW x \in Int, NEW y \in Int
  PROVE  Max({x, y}) = IF x >= y THEN x ELSE y
BY DEF Max

LEMMA MinOfTwo ==
  ASSUME NEW x \in Int, NEW y \in Int
  PROVE  Min({x, y}) = IF x <= y THEN x ELSE y
BY DEF Min

\* Time passes for every host alike.
LEMMA OlderValues ==
  ASSUME NEW f, f \in [DOMAIN f -> Nat], NEW t \in Nat
  PROVE  /\ DOMAIN Older(f, t) = DOMAIN f
         /\ Older(f, t) \in [DOMAIN f -> 0..LongAgo]
         /\ \A h \in DOMAIN f :
              Older(f, t)[h] = IF f[h] + t <= LongAgo THEN f[h] + t ELSE LongAgo
<1>1. \A h \in DOMAIN f : Min({f[h] + t, LongAgo}) = IF f[h] + t <= LongAgo THEN f[h] + t ELSE LongAgo
  <2> SUFFICES ASSUME NEW h \in DOMAIN f
               PROVE  Min({f[h] + t, LongAgo}) = IF f[h] + t <= LongAgo THEN f[h] + t ELSE LongAgo
    OBVIOUS
  <2>1. f[h] + t \in Int /\ LongAgo \in Int
    BY TimesAssumption
  <2> QED
    BY <2>1, MinOfTwo
<1>2. \A h \in DOMAIN f : Min({f[h] + t, LongAgo}) \in 0..LongAgo
  BY <1>1, TimesAssumption
<1> QED
  BY <1>1, <1>2 DEF Older

\* What is known of the ages, the delays and the wishes of the hosts.
PaceTypes ==
  /\ DOMAIN rules \in SUBSET Origins
  /\ says \in [DOMAIN rules -> [permits : SUBSET Urls, delay : Nat]]
  /\ DOMAIN delay = DOMAIN rules /\ delay \in [DOMAIN rules -> Nat]
  /\ DOMAIN wanted = DOMAIN rules /\ wanted \in [DOMAIN rules -> Nat]
  /\ DOMAIN since = DOMAIN rules /\ since \in [DOMAIN rules -> 0..LongAgo]
  /\ DOMAIN last \in SUBSET DOMAIN rules /\ last \in [DOMAIN last -> Nat]
  /\ rushed \in SUBSET [age : 0..LongAgo, delay : Nat]

\* After the pause a host that answered before has been left alone for the delay
\* the client knows.
LEMMA PauseIsEnough ==
  ASSUME PaceTypes, NEW o \in Origins, NEW gap \in Gaps
  PROVE  /\ Pause(o, gap) \in Nat
         /\ o \in DOMAIN last => last[o] + Pause(o, gap) >= delay[o]
<1>1. gap \in Nat
  BY TimesAssumption
<1>2. CASE o \in DOMAIN last
  <2>1. last[o] \in Nat /\ o \in DOMAIN delay /\ delay[o] \in Nat
    BY <1>2 DEF PaceTypes
  <2>2. Interval(o, gap) \in Nat /\ Interval(o, gap) >= delay[o]
    BY <1>1, <2>1, MaxOfTwo DEF Interval
  <2>3. Pause(o, gap) = Max({0, Interval(o, gap) - last[o]})
    BY <1>2 DEF Pause
  <2>4. Interval(o, gap) - last[o] \in Int
    BY <2>1, <2>2
  <2>5. Pause(o, gap) = IF 0 >= Interval(o, gap) - last[o] THEN 0 ELSE Interval(o, gap) - last[o]
    BY <2>3, <2>4, MaxOfTwo
  <2> QED
    BY <2>1, <2>2, <2>5
<1>3. CASE o \notin DOMAIN last
  BY <1>3 DEF Pause
<1> QED
  BY <1>2, <1>3

\* A call: some pause, then the ages of all hosts.
LEMMA CallValues ==
  ASSUME PaceTypes, NEW o \in Origins, NEW answered \in BOOLEAN, NEW sleep \in Nat,
         Call(o, answered, sleep)
  PROVE  \E pause \in Nat :
           /\ o \in DOMAIN last => last[o] + pause >= delay[o]
           /\ last' = IF answered THEN With(Older(last, pause + sleep), o, sleep)
                      ELSE Older(last, pause + sleep)
           /\ since' = With(Older(since, pause + sleep), o,
                            IF sleep <= LongAgo THEN sleep ELSE LongAgo)
           /\ rushed' = IF o \in DOMAIN since /\ Older(since, pause)[o] < wanted[o]
                        THEN rushed \cup {[age |-> Older(since, pause)[o],
                                           delay |-> says[o].delay]}
                        ELSE rushed
           /\ calls' = calls + 1
<1>1. PICK gap \in Gaps :
        /\ last' = IF answered THEN With(Older(last, Pause(o, gap) + sleep), o, sleep)
                   ELSE Older(last, Pause(o, gap) + sleep)
        /\ since' = With(Older(since, Pause(o, gap) + sleep), o, Min({sleep, LongAgo}))
        /\ rushed' = IF o \in DOMAIN since /\ Older(since, Pause(o, gap))[o] < wanted[o]
                     THEN rushed \cup {[age |-> Older(since, Pause(o, gap))[o],
                                        delay |-> says[o].delay]}
                     ELSE rushed
        /\ calls' = calls + 1
  BY DEF Call
<1>2. Min({sleep, LongAgo}) = IF sleep <= LongAgo THEN sleep ELSE LongAgo
  BY TimesAssumption, MinOfTwo
<1> QED
  BY <1>1, <1>2, PauseIsEnough

\* It leaves ages behind.
LEMMA CallTypes ==
  ASSUME PaceTypes, NEW o \in Origins, NEW answered \in BOOLEAN, NEW sleep \in Nat,
         Call(o, answered, sleep)
  PROVE  /\ DOMAIN last' = IF answered THEN DOMAIN last \cup {o} ELSE DOMAIN last
         /\ last' \in [DOMAIN last' -> Nat]
         /\ DOMAIN since' = DOMAIN rules \cup {o}
         /\ since' \in [DOMAIN rules \cup {o} -> 0..LongAgo]
         /\ rushed' \in SUBSET [age : 0..LongAgo, delay : Nat]
         /\ calls' = calls + 1
<1>1. PICK pause \in Nat :
           /\ last' = IF answered THEN With(Older(last, pause + sleep), o, sleep)
                      ELSE Older(last, pause + sleep)
           /\ since' = With(Older(since, pause + sleep), o,
                            IF sleep <= LongAgo THEN sleep ELSE LongAgo)
           /\ rushed' = IF o \in DOMAIN since /\ Older(since, pause)[o] < wanted[o]
                        THEN rushed \cup {[age |-> Older(since, pause)[o],
                                           delay |-> says[o].delay]}
                        ELSE rushed
           /\ calls' = calls + 1
  BY CallValues
<1> DEFINE t == pause + sleep
           was == Older(last, t)
           ages == Older(since, t)
           cut == IF sleep <= LongAgo THEN sleep ELSE LongAgo
<1>2. t \in Nat /\ cut \in 0..LongAgo
  BY TimesAssumption
<1>3. /\ DOMAIN was = DOMAIN last /\ was \in [DOMAIN was -> Nat]
      /\ DOMAIN ages = DOMAIN rules /\ ages \in [DOMAIN ages -> 0..LongAgo]
  <2>1. last \in [DOMAIN last -> Nat] /\ since \in [DOMAIN since -> Nat] /\ DOMAIN since = DOMAIN rules
    BY DEF PaceTypes
  <2>2. /\ DOMAIN was = DOMAIN last /\ was \in [DOMAIN last -> 0..LongAgo]
        /\ DOMAIN ages = DOMAIN since /\ ages \in [DOMAIN since -> 0..LongAgo]
    BY <1>2, <2>1, OlderValues
  <2> QED
    BY <2>1, <2>2
<1> HIDE DEF was, ages, cut
<1>4. /\ DOMAIN With(was, o, sleep) = DOMAIN last \cup {o}
      /\ With(was, o, sleep) \in [DOMAIN last \cup {o} -> Nat]
  BY <1>3 DEF With
<1>5. /\ DOMAIN With(ages, o, cut) = DOMAIN rules \cup {o}
      /\ With(ages, o, cut) \in [DOMAIN rules \cup {o} -> 0..LongAgo]
  BY <1>2, <1>3 DEF With
<1>6. since' = With(ages, o, cut) /\ last' = IF answered THEN With(was, o, sleep) ELSE was
  BY <1>1 DEF ages, cut, was
<1>7. rushed' \in SUBSET [age : 0..LongAgo, delay : Nat]
  <2> DEFINE then == Older(since, pause)
  <2>1. since \in [DOMAIN since -> Nat] /\ DOMAIN since = DOMAIN rules
    BY DEF PaceTypes
  <2>2. o \in DOMAIN since => then[o] \in 0..LongAgo
    BY <2>1, OlderValues
  <2>3. o \in DOMAIN since => says[o].delay \in Nat
    BY <2>1 DEF PaceTypes
  <2>4. /\ rushed \in SUBSET [age : 0..LongAgo, delay : Nat]
        /\ rushed' = IF o \in DOMAIN since /\ then[o] < wanted[o]
                     THEN rushed \cup {[age |-> then[o], delay |-> says[o].delay]} ELSE rushed
    BY <1>1 DEF PaceTypes
  <2> HIDE DEF then
  <2> QED
    BY <2>2, <2>3, <2>4
<1> QED
  BY <1>1, <1>3, <1>4, <1>5, <1>6, <1>7 DEF PaceTypes

-----------------------------------------------------------------------------
(***************************************************************************)
(* Types                                                                   *)
(***************************************************************************)

\* A page is asked for, and its robots.txt consulted, only with the file read.
HostKnown ==
  /\ pc \in {"allowed", "send"} => OriginOf[url] \in DOMAIN rules
  /\ pc = "robots" => OriginOf[url] \notin DOMAIN rules

\* The correction of the User-Agent costs one attempt beyond the retries.
Attempts == (~escalated => attempt <= RetryMax) /\ (attempt # 0 => pc = "send")

TypeInv == TypeOK /\ HostKnown /\ Attempts

\* The types hold at the start.
LEMMA TypeInit == Init => TypeInv
<1> SUFFICES ASSUME Init PROVE TypeInv
  OBVIOUS
<1>1. policyMode \in AgentModes /\ pc = "idle" /\ url = NoUrl /\ attempt = 0 /\ escalated = FALSE
  BY DEF Init
<1> DEFINE none == [o \in {} |-> {}]
<1>2. /\ rules = none /\ delay = none /\ says = none
      /\ last = none /\ since = none /\ wanted = none
  BY DEF Init
<1>a. DOMAIN none = {} /\ \A S : none \in [{} -> S]
  OBVIOUS
<1> HIDE DEF none
<1>3. /\ DOMAIN rules \in SUBSET Origins
      /\ rules \in [DOMAIN rules -> SUBSET Urls]
      /\ says \in [DOMAIN rules -> [permits : SUBSET Urls, delay : Nat]]
      /\ DOMAIN delay = DOMAIN rules /\ delay \in [DOMAIN rules -> Nat]
      /\ DOMAIN wanted = DOMAIN rules /\ wanted \in [DOMAIN rules -> Nat]
      /\ DOMAIN since = DOMAIN rules /\ since \in [DOMAIN rules -> 0..LongAgo]
      /\ DOMAIN last \in SUBSET DOMAIN rules /\ last \in [DOMAIN last -> Nat]
  BY <1>2, <1>a
<1>4. /\ agent = policyMode /\ rushed = {} /\ requests = 0 /\ phase = "discover"
      /\ calls = 0 /\ forbidden = 0 /\ unread = {} /\ asked = {} /\ refused = {}
  BY DEF Init
<1>5. /\ agent = IF escalated THEN "chrome" ELSE policyMode
      /\ escalated \in BOOLEAN
      /\ rushed \in SUBSET [age : 0..LongAgo, delay : Nat] /\ unread \in SUBSET Origins
      /\ requests \in Nat /\ calls \in Nat /\ forbidden \in Nat
      /\ phase \in {"discover", "collect"}
      /\ asked \in SUBSET Urls /\ refused \in SUBSET Urls
  BY <1>1, <1>4
<1>6. /\ pc \in {"idle", "robots", "allowed", "send"} \cup Errors
      /\ url \in Urls \cup {NoUrl}
      /\ pc \in {"robots", "allowed", "send"} <=> url # NoUrl
      /\ attempt \in 0..(RetryMax + 1)
  BY <1>1, PolicyAssumption
<1>7. TypeOK
  BY <1>1, <1>3, <1>5, <1>6 DEF TypeOK
<1> QED
  BY <1>1, <1>7, PolicyAssumption DEF TypeInv, HostKnown, Attempts

\* A request under way has a page, and the page a host.
LEMMA UrlType ==
  ASSUME TypeInv, pc \in {"robots", "allowed", "send"}
  PROVE  url \in Urls /\ OriginOf[url] \in Origins
<1>1. url \in Urls \cup {NoUrl} /\ (pc \in {"robots", "allowed", "send"} <=> url # NoUrl)
  BY DEF TypeInv, TypeOK
<1> QED
  BY <1>1, OriginAssumption

\* An exception ends the run or, while collecting, the page.
LEMMA Raised ==
  ASSUME NEW e \in Errors, Raise(e)
  PROVE  /\ pc' = e \/ (e = "Disallowed" /\ pc' = "idle")
         /\ pc' \in {"idle"} \cup Errors
         /\ url' = NoUrl /\ attempt' = 0
BY DEF Raise, Survives, Errors

\* The backoff is a time.
LEMMA BackoffType == TypeInv /\ ~SpentRetries => Backoff \in 0..RetryCap
<1> SUFFICES ASSUME TypeInv, ~SpentRetries PROVE Backoff \in 0..RetryCap
  OBVIOUS
<1>1. attempt \in 0..RetryMax
  BY PolicyAssumption DEF TypeInv, TypeOK, SpentRetries
<1>2. RetryBase * 2 ^ attempt \in Nat /\ RetryCap \in Nat
  BY <1>1, TimesAssumption
<1> DEFINE doubled == RetryBase * 2 ^ attempt
<1>3. doubled \in Nat
  BY <1>2
<1> HIDE DEF doubled
<1>4. Min({doubled, RetryCap}) \in 0..RetryCap
  BY <1>2, <1>3, MinOfTwo
<1> QED
  BY <1>4 DEF Backoff, doubled

\* The types a call to a page leaves behind, whatever is done with the answer.
PageTypes ==
  /\ DOMAIN last' \in SUBSET DOMAIN rules /\ last' \in [DOMAIN last' -> Nat]
  /\ DOMAIN since' = DOMAIN rules /\ since' \in [DOMAIN rules -> 0..LongAgo]
  /\ rushed' \in SUBSET [age : 0..LongAgo, delay : Nat]
  /\ calls' = calls + 1
  /\ asked' = asked \cup {url}

\* A call that answers, and one that does not.
LEMMA AnsweredTypes ==
  ASSUME TypeInv, NEW sleep \in Nat, AnsweredThen(sleep)
  PROVE  PageTypes /\ requests' = requests + 1
<1>1. /\ pc = "send" /\ Call(OriginOf[url], TRUE, sleep)
      /\ asked' = asked \cup {url} /\ requests' = requests + 1
  BY DEF AnsweredThen
<1>2. OriginOf[url] \in Origins /\ OriginOf[url] \in DOMAIN rules
  BY <1>1, UrlType DEF TypeInv, HostKnown
<1>3. PaceTypes
  BY DEF TypeInv, TypeOK, PaceTypes
<1>4. TRUE \in BOOLEAN
  OBVIOUS
<1>5. /\ DOMAIN last' = DOMAIN last \cup {OriginOf[url]}
      /\ last' \in [DOMAIN last' -> Nat]
      /\ DOMAIN since' = DOMAIN rules \cup {OriginOf[url]}
      /\ since' \in [DOMAIN rules \cup {OriginOf[url]} -> 0..LongAgo]
      /\ rushed' \in SUBSET [age : 0..LongAgo, delay : Nat]
      /\ calls' = calls + 1
  BY <1>1, <1>2, <1>3, <1>4, CallTypes
<1>6. DOMAIN rules \cup {OriginOf[url]} = DOMAIN rules
  BY <1>2
<1>7. DOMAIN last \cup {OriginOf[url]} \in SUBSET DOMAIN rules
  BY <1>2, <1>3 DEF PaceTypes
<1> QED
  BY <1>1, <1>5, <1>6, <1>7 DEF PageTypes

LEMMA FailedTypes ==
  ASSUME TypeInv, TransportFails
  PROVE  PageTypes
<1>1. pc = "send" /\ Call(OriginOf[url], FALSE, 0) /\ asked' = asked \cup {url}
  BY DEF TransportFails
<1>2. OriginOf[url] \in Origins /\ OriginOf[url] \in DOMAIN rules
  BY <1>1, UrlType DEF TypeInv, HostKnown
<1>3. PaceTypes
  BY DEF TypeInv, TypeOK, PaceTypes
<1>4. FALSE \in BOOLEAN /\ 0 \in Nat
  OBVIOUS
<1>5. /\ DOMAIN last' = DOMAIN last
      /\ last' \in [DOMAIN last' -> Nat]
      /\ DOMAIN since' = DOMAIN rules \cup {OriginOf[url]}
      /\ since' \in [DOMAIN rules \cup {OriginOf[url]} -> 0..LongAgo]
      /\ rushed' \in SUBSET [age : 0..LongAgo, delay : Nat]
      /\ calls' = calls + 1
  BY <1>1, <1>2, <1>3, <1>4, CallTypes
<1>6. DOMAIN rules \cup {OriginOf[url]} = DOMAIN rules
  BY <1>2
<1>7. DOMAIN last \in SUBSET DOMAIN rules
  BY <1>3 DEF PaceTypes
<1> QED
  BY <1>1, <1>5, <1>6, <1>7 DEF PageTypes

\* What a host wants to be left alone for is a number.
LEMMA WantsTypes ==
  ASSUME TypeInv, pc = "send", NEW t \in Nat, Wants(t)
  PROVE  DOMAIN wanted' = DOMAIN rules /\ wanted' \in [DOMAIN rules -> Nat]
<1>1. OriginOf[url] \in DOMAIN rules
  BY DEF TypeInv, HostKnown
<1>2. says[OriginOf[url]].delay \in Nat
  BY <1>1 DEF TypeInv, TypeOK
<1> DEFINE d == says[OriginOf[url]].delay
<1>3. Max({d, t}) \in Nat
  <2> HIDE DEF d
  <2>1. d \in Int /\ t \in Int /\ d \in Nat
    BY <1>2 DEF d
  <2>2. Max({d, t}) = IF d >= t THEN d ELSE t
    BY <2>1, MaxOfTwo
  <2> QED
    BY <2>1, <2>2
<1>4. wanted \in [DOMAIN rules -> Nat]
  BY DEF TypeInv, TypeOK
<1> QED
  BY <1>1, <1>3, <1>4 DEF Wants

\* The request goes on, or it is over.
GoesOn == pc' = pc /\ url' = url
IsOver == pc' \in {"idle"} \cup Errors /\ url' = NoUrl /\ attempt' = 0

\* What is left to show of an answer to a page.
LEMMA PageStep ==
  ASSUME TypeInv, pc = "send", PageTypes, GoesOn \/ IsOver,
         UNCHANGED <<policyMode, robots, phase, refused>>,
         DOMAIN wanted' = DOMAIN rules, wanted' \in [DOMAIN rules -> Nat],
         requests' \in Nat, forbidden' \in Nat, escalated' \in BOOLEAN,
         agent' = IF escalated' THEN "chrome" ELSE policyMode,
         attempt' \in 0..(RetryMax + 1), ~escalated' => attempt' <= RetryMax
  PROVE  TypeInv'
<1>1. url \in Urls /\ OriginOf[url] \in DOMAIN rules /\ DOMAIN rules \in SUBSET Origins
  BY UrlType DEF TypeInv, TypeOK, HostKnown
<1>2. /\ policyMode' = policyMode /\ phase' = phase /\ refused' = refused
      /\ rules' = rules /\ delay' = delay /\ says' = says /\ unread' = unread
  BY DEF robots
<1>3. /\ pc' \in {"idle", "robots", "allowed", "send"} \cup Errors
      /\ url' \in Urls \cup {NoUrl}
      /\ pc' \in {"robots", "allowed", "send"} <=> url' # NoUrl
  BY <1>1, NoUrlAssumption DEF GoesOn, IsOver, Errors
<1>4. calls' \in Nat /\ asked' \in SUBSET Urls
  BY <1>1 DEF TypeInv, TypeOK, PageTypes
<1>5. TypeOK'
  <2>1. /\ DOMAIN rules' \in SUBSET Origins
        /\ rules' \in [DOMAIN rules' -> SUBSET Urls]
        /\ says' \in [DOMAIN rules' -> [permits : SUBSET Urls, delay : Nat]]
        /\ DOMAIN delay' = DOMAIN rules' /\ delay' \in [DOMAIN rules' -> Nat]
        /\ policyMode' \in AgentModes /\ phase' \in {"discover", "collect"}
        /\ unread' \in SUBSET Origins /\ refused' \in SUBSET Urls
    BY <1>2 DEF TypeInv, TypeOK
  <2>2. /\ DOMAIN wanted' = DOMAIN rules' /\ wanted' \in [DOMAIN rules' -> Nat]
        /\ DOMAIN since' = DOMAIN rules' /\ since' \in [DOMAIN rules' -> 0..LongAgo]
        /\ DOMAIN last' \in SUBSET DOMAIN rules' /\ last' \in [DOMAIN last' -> Nat]
        /\ rushed' \in SUBSET [age : 0..LongAgo, delay : Nat]
    BY <1>2 DEF PageTypes
  <2> QED
    BY <1>2, <1>3, <1>4, <2>1, <2>2 DEF TypeOK
<1>6. HostKnown'
  BY <1>1, <1>2 DEF GoesOn, IsOver, Errors, HostKnown
<1>7. Attempts'
  BY DEF GoesOn, IsOver, Attempts
<1> QED
  BY <1>5, <1>6, <1>7 DEF TypeInv

\* A reading of a file is what a file may be read as.
LEMMA ReadingTypes ==
  ASSUME NEW r \in Readings \cup {NoFile}
  PROVE  /\ r.allowed \in SUBSET Urls /\ r.delay \in Nat
         /\ r.says \in [permits : SUBSET Urls, delay : Nat]
         /\ r.says.delay \in 0..LongAgo
<1>1. CASE r = NoFile
  BY <1>1, TimesAssumption DEF NoFile
<1>2. CASE r \in Readings
  <2>1. PICK f \in Files :
          r = [allowed |-> {u \in Urls : MayFetch(Parse(f), PathOf[u])},
               delay |-> GroupFor(Parse(f)).delay,
               says |-> [permits |-> {u \in Urls : Permitted(f, PathOf[u])},
                         delay |-> AskedDelay(f)]]
    BY <1>2 DEF Readings
  <2>2. GroupFor(Parse(f)).delay \in Nat /\ AskedDelay(f) \in 0..LongAgo /\ LongAgo \in Nat
    BY DelaysBounded, TimesAssumption
  <2> QED
    BY <2>1, <2>2
<1> QED
  BY <1>1, <1>2

\* Reading one makes its host known, with values of the right kind.
LEMMA ReadAsTypes ==
  ASSUME TypeInv, NEW o \in Origins, NEW r \in Readings \cup {NoFile}, ReadAs(o, r)
  PROVE  /\ DOMAIN rules' = DOMAIN rules \cup {o}
         /\ rules' \in [DOMAIN rules \cup {o} -> SUBSET Urls]
         /\ says' \in [DOMAIN rules \cup {o} -> [permits : SUBSET Urls, delay : Nat]]
         /\ DOMAIN delay' = DOMAIN rules \cup {o}
         /\ delay' \in [DOMAIN rules \cup {o} -> Nat]
         /\ DOMAIN wanted' = DOMAIN rules \cup {o}
         /\ wanted' \in [DOMAIN rules \cup {o} -> Nat]
<1>1. /\ r.allowed \in SUBSET Urls /\ r.delay \in Nat
      /\ r.says \in [permits : SUBSET Urls, delay : Nat] /\ r.says.delay \in Nat
  BY ReadingTypes
<1>2. /\ rules \in [DOMAIN rules -> SUBSET Urls]
      /\ says \in [DOMAIN rules -> [permits : SUBSET Urls, delay : Nat]]
      /\ DOMAIN delay = DOMAIN rules /\ delay \in [DOMAIN rules -> Nat]
      /\ DOMAIN wanted = DOMAIN rules /\ wanted \in [DOMAIN rules -> Nat]
  BY DEF TypeInv, TypeOK
<1>3. /\ rules' = With(rules, o, r.allowed) /\ delay' = With(delay, o, r.delay)
      /\ says' = With(says, o, r.says) /\ wanted' = With(wanted, o, r.says.delay)
  BY DEF ReadAs
<1>4. DOMAIN rules' = DOMAIN rules \cup {o} /\ rules' \in [DOMAIN rules \cup {o} -> SUBSET Urls]
  BY <1>1, <1>2, <1>3 DEF With
<1>5. says' \in [DOMAIN rules \cup {o} -> [permits : SUBSET Urls, delay : Nat]]
  <2>1. DOMAIN says = DOMAIN rules
    BY <1>2
  <2>2. \A h \in DOMAIN rules \cup {o} :
          (IF h = o THEN r.says ELSE says[h]) \in [permits : SUBSET Urls, delay : Nat]
    BY <1>1, <1>2
  <2> QED
    BY <1>3, <2>1, <2>2 DEF With
<1>6. DOMAIN delay' = DOMAIN rules \cup {o} /\ delay' \in [DOMAIN rules \cup {o} -> Nat]
  BY <1>1, <1>2, <1>3 DEF With
<1>7. DOMAIN wanted' = DOMAIN rules \cup {o} /\ wanted' \in [DOMAIN rules \cup {o} -> Nat]
  BY <1>1, <1>2, <1>3 DEF With
<1> QED
  BY <1>4, <1>5, <1>6, <1>7

\* Reading robots.txt.
LEMMA LoadStep ==
  ASSUME TypeInv, LoadRobots
  PROVE  /\ TypeInv'
         /\ \E r \in Readings \cup {NoFile}, answered \in BOOLEAN :
              /\ ReadAs(OriginOf[url], r)
              /\ Call(OriginOf[url], answered, 0)
              /\ requests' = IF answered THEN requests + 1 ELSE requests
              /\ \/ r \in Readings /\ answered /\ unread' = unread
                 \/ r = NoFile /\ unread' = unread \cup {OriginOf[url]}
<1> DEFINE o == OriginOf[url]
<1>1. pc = "robots" /\ url \in Urls /\ o \in Origins
  BY UrlType DEF LoadRobots
<1>2. PICK r \in Readings \cup {NoFile}, answered \in BOOLEAN :
        /\ ReadAs(o, r)
        /\ Call(o, answered, 0)
        /\ requests' = IF answered THEN requests + 1 ELSE requests
        /\ \/ r \in Readings /\ answered /\ unread' = unread
           \/ r = NoFile /\ unread' = unread \cup {o}
  <2>1. CASE \E r \in Readings : ReadAs(o, r) /\ Call(o, TRUE, 0) /\ requests' = requests + 1
                                 /\ unread' = unread
    BY <2>1
  <2>2. CASE \E answered \in BOOLEAN :
               /\ ReadAs(o, NoFile) /\ Call(o, answered, 0)
               /\ requests' = IF answered THEN requests + 1 ELSE requests
               /\ unread' = unread \cup {o}
    BY <2>2
  <2> QED
    BY <2>1, <2>2 DEF LoadRobots
<1>3. PaceTypes /\ 0 \in Nat
  BY DEF TypeInv, TypeOK, PaceTypes
<1>4. /\ DOMAIN last' = IF answered THEN DOMAIN last \cup {o} ELSE DOMAIN last
      /\ last' \in [DOMAIN last' -> Nat]
      /\ DOMAIN since' = DOMAIN rules \cup {o}
      /\ since' \in [DOMAIN rules \cup {o} -> 0..LongAgo]
      /\ rushed' \in SUBSET [age : 0..LongAgo, delay : Nat]
      /\ calls' = calls + 1
  BY <1>1, <1>2, <1>3, CallTypes
<1>5. /\ DOMAIN rules' = DOMAIN rules \cup {o}
      /\ rules' \in [DOMAIN rules \cup {o} -> SUBSET Urls]
      /\ says' \in [DOMAIN rules \cup {o} -> [permits : SUBSET Urls, delay : Nat]]
      /\ DOMAIN delay' = DOMAIN rules \cup {o}
      /\ delay' \in [DOMAIN rules \cup {o} -> Nat]
      /\ DOMAIN wanted' = DOMAIN rules \cup {o}
      /\ wanted' \in [DOMAIN rules \cup {o} -> Nat]
  BY <1>1, <1>2, ReadAsTypes
<1>6. /\ pc' = "allowed" /\ policyMode' = policyMode /\ agent' = agent
      /\ escalated' = escalated /\ phase' = phase /\ url' = url /\ attempt' = attempt
      /\ forbidden' = forbidden /\ asked' = asked /\ refused' = refused
  BY DEF LoadRobots
<1> HIDE DEF o
<1>7. /\ policyMode' \in AgentModes
      /\ agent' = IF escalated' THEN "chrome" ELSE policyMode'
      /\ escalated' \in BOOLEAN /\ phase' \in {"discover", "collect"}
      /\ url' \in Urls \cup {NoUrl} /\ attempt' \in 0..(RetryMax + 1)
      /\ forbidden' \in Nat /\ asked' \in SUBSET Urls /\ refused' \in SUBSET Urls
      /\ calls' \in Nat /\ requests' \in Nat /\ unread' \in SUBSET Origins
      /\ pc' \in {"idle", "robots", "allowed", "send"} \cup Errors
      /\ pc' \in {"robots", "allowed", "send"} <=> url' # NoUrl
  BY <1>1, <1>2, <1>4, <1>6, NoUrlAssumption DEF TypeInv, TypeOK
<1>8. DOMAIN rules' \in SUBSET Origins /\ DOMAIN last' \in SUBSET DOMAIN rules'
  BY <1>1, <1>4, <1>5, <1>3 DEF PaceTypes
<1>9. TypeOK'
  BY <1>4, <1>5, <1>7, <1>8 DEF TypeOK
<1>10. HostKnown' /\ Attempts'
  BY <1>1, <1>5, <1>6 DEF o, TypeInv, HostKnown, Attempts
<1> QED
  BY <1>2, <1>9, <1>10 DEF TypeInv, o

\* Every step keeps the types.
LEMMA TypeStep == TypeInv /\ [Next]_vars => TypeInv'
<1> SUFFICES ASSUME TypeInv, [Next]_vars PROVE TypeInv'
  OBVIOUS
<1> DEFINE Quiet == UNCHANGED <<policyMode, agent, escalated, robots, pacing, requests,
                                calls, forbidden, asked>>
<1>0. /\ agent = IF escalated THEN "chrome" ELSE policyMode
      /\ escalated \in BOOLEAN /\ attempt \in 0..(RetryMax + 1) /\ RetryMax \in Nat
      /\ requests \in Nat /\ forbidden \in Nat
      /\ wanted \in [DOMAIN rules -> Nat] /\ DOMAIN wanted = DOMAIN rules
      /\ ~escalated => attempt <= RetryMax
  BY PolicyAssumption DEF TypeInv, TypeOK, Attempts
<1>1. ASSUME Quiet, phase' \in {"discover", "collect"}, refused' \in SUBSET Urls,
             pc' \in {"idle", "robots", "allowed", "send"} \cup Errors,
             url' \in Urls \cup {NoUrl}, pc' \in {"robots", "allowed", "send"} <=> url' # NoUrl,
             attempt' \in {0, attempt}, HostKnown', attempt' # 0 => pc' = "send"
      PROVE  TypeInv'
  <2>1. /\ rules' = rules /\ delay' = delay /\ says' = says /\ unread' = unread
        /\ last' = last /\ since' = since /\ wanted' = wanted /\ rushed' = rushed
        /\ policyMode' = policyMode /\ agent' = agent /\ escalated' = escalated
        /\ requests' = requests /\ calls' = calls /\ forbidden' = forbidden /\ asked' = asked
    BY <1>1 DEF robots, pacing
  <2>2. attempt' \in 0..(RetryMax + 1) /\ Attempts'
    BY <1>0, <1>1, <2>1 DEF Attempts
  <2>3. TypeOK'
    BY <1>1, <2>1, <2>2 DEF TypeInv, TypeOK
  <2> QED
    BY <1>1, <2>2, <2>3 DEF TypeInv
<1>2. CASE UNCHANGED vars
  BY <1>2 DEF TypeInv, TypeOK, HostKnown, Attempts, vars, robots, pacing, Errors
<1>3. CASE EnterCollect
  <2>1. /\ Quiet /\ pc' = pc /\ url' = url /\ attempt' = attempt /\ refused' = refused
        /\ phase' = "collect" /\ rules' = rules
    BY <1>3 DEF EnterCollect, robots
  <2>2. /\ pc \in {"idle", "robots", "allowed", "send"} \cup Errors
        /\ url \in Urls \cup {NoUrl} /\ (pc \in {"robots", "allowed", "send"} <=> url # NoUrl)
        /\ refused \in SUBSET Urls
    BY DEF TypeInv, TypeOK
  <2>3. HostKnown' /\ (attempt # 0 => pc = "send")
    BY <2>1 DEF TypeInv, HostKnown, Attempts
  <2> HIDE DEF Quiet
  <2> QED
    BY <1>1, <2>1, <2>2, <2>3
<1>4. ASSUME NEW u \in Urls, Get(u) PROVE TypeInv'
  <2>1. /\ Quiet /\ phase' = phase /\ attempt' = attempt /\ refused' = refused
        /\ url' = u /\ pc = "idle" /\ rules' = rules
        /\ pc' = IF OriginOf[u] \in DOMAIN rules THEN "allowed" ELSE "robots"
    BY <1>4 DEF Get, robots
  <2>2. HostKnown' /\ attempt = 0
    BY <2>1 DEF TypeInv, HostKnown, Attempts
  <2>3. /\ phase \in {"discover", "collect"} /\ refused \in SUBSET Urls
    BY DEF TypeInv, TypeOK
  <2>4. u # NoUrl
    BY NoUrlAssumption
  <2> HIDE DEF Quiet
  <2> QED
    BY <1>1, <2>1, <2>2, <2>3, <2>4
<1>5. CASE Exhausted
  <2>1. Quiet /\ phase' = phase /\ refused' = refused /\ Raise("BudgetExhausted")
    BY <1>5 DEF Exhausted
  <2>2. pc' \in {"idle"} \cup Errors /\ url' = NoUrl /\ attempt' = 0
    BY <2>1, Raised DEF Errors
  <2>3. phase \in {"discover", "collect"} /\ refused \in SUBSET Urls
    BY DEF TypeInv, TypeOK
  <2>4. HostKnown' /\ pc' \notin {"robots", "allowed", "send"}
    BY <2>2 DEF HostKnown, Errors
  <2> HIDE DEF Quiet
  <2> QED
    BY <1>1, <2>1, <2>2, <2>3, <2>4
<1>6. CASE LoadRobots
  BY <1>6, LoadStep
<1>7. CASE Allowed
  <2>1. Quiet /\ phase' = phase /\ pc = "allowed" /\ rules' = rules
    BY <1>7 DEF Allowed, robots
  <2>2. /\ phase \in {"discover", "collect"} /\ refused \in SUBSET Urls /\ url \in Urls
        /\ attempt = 0 /\ OriginOf[url] \in DOMAIN rules
    BY <2>1, UrlType DEF TypeInv, TypeOK, HostKnown, Attempts
  <2>3. \/ pc' = "send" /\ url' = url /\ attempt' = attempt /\ refused' = refused
        \/ Raise("Disallowed") /\ refused' = refused \cup {url}
    BY <1>7 DEF Allowed
  <2>4. CASE pc' = "send" /\ url' = url /\ attempt' = attempt /\ refused' = refused
    <3>1. HostKnown' /\ url # NoUrl
      BY <2>1, <2>2, <2>4, NoUrlAssumption DEF HostKnown
    <3> HIDE DEF Quiet
    <3> QED
      BY <1>1, <2>1, <2>2, <2>4, <3>1
  <2>5. CASE Raise("Disallowed") /\ refused' = refused \cup {url}
    <3>1. pc' \in {"idle"} \cup Errors /\ url' = NoUrl /\ attempt' = 0
      BY <2>5, Raised DEF Errors
    <3>2. HostKnown' /\ pc' \notin {"robots", "allowed", "send"}
      BY <3>1 DEF HostKnown, Errors
    <3>3. refused' \in SUBSET Urls
      BY <2>2, <2>5
    <3> HIDE DEF Quiet
    <3> QED
      BY <1>1, <2>1, <2>2, <3>1, <3>2, <3>3
  <2> QED
    BY <2>3, <2>4, <2>5
<1> DEFINE Frame == UNCHANGED <<policyMode, robots, phase, refused>>
<1>8. ASSUME NEW sleep \in Nat, NEW t \in Nat, AnsweredThen(sleep), Wants(t),
             forbidden' \in Nat, escalated' \in BOOLEAN,
             agent' = IF escalated' THEN "chrome" ELSE policyMode,
             attempt' \in 0..(RetryMax + 1), ~escalated' => attempt' <= RetryMax,
             GoesOn \/ IsOver
      PROVE  TypeInv'
  <2>1. pc = "send" /\ Frame
    BY <1>8 DEF AnsweredThen
  <2>2. PageTypes /\ requests' \in Nat
    BY <1>0, <1>8, AnsweredTypes
  <2>3. DOMAIN wanted' = DOMAIN rules /\ wanted' \in [DOMAIN rules -> Nat]
    BY <1>8, <2>1, WantsTypes
  <2> QED
    BY <1>8, <2>1, <2>2, <2>3, PageStep
<1>9. CASE Served
  <2>1. IsOver /\ Answered /\ UNCHANGED <<agent, escalated, forbidden>>
    BY <1>9 DEF Served, Return, IsOver
  <2> QED
    BY <1>0, <1>8, <2>1 DEF Answered, IsOver
<1>10. CASE IsChallenge
  <2>1. IsOver /\ Answered /\ UNCHANGED <<agent, escalated, forbidden>>
    BY <1>10, Raised DEF IsChallenge, IsOver, Errors
  <2> QED
    BY <1>0, <1>8, <2>1 DEF Answered, IsOver
<1>11. CASE Escalate
  <2>1. /\ Answered /\ ~escalated /\ agent' = "chrome" /\ escalated' = TRUE
        /\ attempt' = attempt + 1 /\ forbidden' = forbidden + 1 /\ GoesOn
    BY <1>11 DEF Escalate, CanEscalate, GoesOn
  <2>2. attempt' \in 0..(RetryMax + 1) /\ forbidden' \in Nat
    BY <1>0, <2>1
  <2> QED
    BY <1>0, <1>8, <2>1, <2>2 DEF Answered
<1>12. CASE Refused
  <2>1. /\ IsOver /\ Answered /\ UNCHANGED <<agent, escalated>> /\ forbidden' = forbidden + 1
    BY <1>12, Raised DEF Refused, IsOver, Errors
  <2> QED
    BY <1>0, <1>8, <2>1 DEF Answered, IsOver
<1>13. CASE Retry
  <2>1. /\ ~SpentRetries /\ attempt' = attempt + 1 /\ UNCHANGED <<agent, escalated, forbidden>>
        /\ GoesOn
    BY <1>13 DEF Retry, GoesOn
  <2>2. attempt' \in 0..(RetryMax + 1) /\ attempt' <= RetryMax
    BY <1>0, <2>1 DEF SpentRetries
  <2>3. PICK sleep \in Nat, t \in Nat : AnsweredThen(sleep) /\ Wants(t)
    <3>1. CASE AnsweredThen(Backoff) /\ Wants(0)
      BY <2>1, <3>1, BackoffType
    <3>2. ASSUME NEW t \in RetryAfters,
                 AnsweredThen(Min({t, RetryCap})), Wants(t)
          PROVE  \E sleep \in Nat, w \in Nat : AnsweredThen(sleep) /\ Wants(w)
      <4>1. t \in Nat /\ RetryCap \in Nat
        BY TimesAssumption
      <4>2. Min({t, RetryCap}) \in Nat
        BY <4>1, MinOfTwo
      <4> QED
        BY <3>2, <4>1, <4>2
    <3> QED
      BY <1>13, <3>1, <3>2 DEF Retry
  <2> QED
    BY <1>0, <1>8, <2>1, <2>2, <2>3
<1>14. CASE GiveUp
  <2>1. IsOver /\ Answered /\ UNCHANGED <<agent, escalated, forbidden>>
    BY <1>14, Raised DEF GiveUp, IsOver, Errors
  <2> QED
    BY <1>0, <1>8, <2>1 DEF Answered, IsOver
<1>15. CASE TransportFails
  <2>1. /\ pc = "send" /\ IsOver /\ Frame
        /\ UNCHANGED <<agent, escalated, wanted, requests, forbidden>>
    BY <1>15, Raised DEF TransportFails, IsOver, Errors
  <2>2. PageTypes
    BY <1>15, FailedTypes
  <2> QED
    BY <1>0, <2>1, <2>2, PageStep DEF IsOver
<1> QED
  BY <1>2, <1>3, <1>4, <1>5, <1>6, <1>7, <1>9, <1>10, <1>11, <1>12, <1>13, <1>14, <1>15
  DEF Next

\* Types: every variable of the client keeps its type, for any files, pages and
\* limits, whatever order the answers come in.
THEOREM TypeCorrect == Spec => []TypeOK
<1>1. Spec => []TypeInv
  BY TypeInit, TypeStep, PTL DEF Spec
<1>2. TypeInv => TypeOK
  BY DEF TypeInv
<1> QED
  BY <1>1, <1>2, PTL

-----------------------------------------------------------------------------
(***************************************************************************)
(* The kinds of steps                                                      *)
(***************************************************************************)

\* A step that calls nobody.
Silent ==
  /\ UNCHANGED <<policyMode, agent, escalated, robots, pacing, requests, calls, forbidden,
                 asked>>
  /\ \/ pc' = pc /\ url' = url /\ attempt' = attempt /\ refused' = refused
     \/ \E u \in Urls : Get(u)
     \/ pc = "idle" /\ IsOver /\ refused' = refused
     \/ Allowed

\* A page is answered: what the client sleeps then, and what the host wants.
PageAnswered ==
  \E sleep, t \in 0..LongAgo :
    /\ AnsweredThen(sleep)
    /\ Wants(t)
    /\ t <= sleep \/ sleep >= RetryCap
    /\ \/ Escalate
       \/ Refused
       \/ /\ UNCHANGED <<agent, escalated, forbidden>>
          /\ IsOver \/ (GoesOn /\ attempt' = attempt + 1)

LEMMA Shapes ==
  ASSUME TypeInv, [Next]_vars
  PROVE  Silent \/ LoadRobots \/ PageAnswered \/ TransportFails
<1>1. CASE UNCHANGED vars
  BY <1>1 DEF vars, Silent
<1>2. CASE EnterCollect
  BY <1>2 DEF EnterCollect, Silent
<1>3. ASSUME NEW u \in Urls, Get(u) PROVE Silent
  <2>1. UNCHANGED <<policyMode, agent, escalated, robots, pacing, requests, calls, forbidden,
                    asked>>
    BY <1>3 DEF Get
  <2> QED
    BY <1>3, <2>1 DEF Silent
<1>4. CASE Exhausted
  <2>1. Raise("BudgetExhausted") /\ "BudgetExhausted" \in Errors
    BY <1>4 DEF Exhausted, Errors
  <2>2. IsOver
    BY <2>1, Raised DEF IsOver
  <2> QED
    BY <1>4, <2>2 DEF Exhausted, Silent
<1>5. CASE Allowed
  BY <1>5 DEF Allowed, Silent
<1>6. 0 \in 0..LongAgo /\ LongAgo \in Nat /\ RetryCap \in 0..LongAgo
  BY TimesAssumption
<1>7. CASE Served \/ IsChallenge \/ GiveUp
  <2>1. Answered /\ UNCHANGED <<agent, escalated, forbidden>>
    BY <1>7 DEF Served, IsChallenge, GiveUp
  <2>2. Return \/ Raise("Challenged") \/ Raise("FetchFailed")
    BY <1>7 DEF Served, IsChallenge, GiveUp
  <2>3. IsOver
    BY <2>2, Raised DEF Return, IsOver, Errors
  <2> QED
    BY <1>6, <2>1, <2>3 DEF Answered, PageAnswered
<1>8. CASE Escalate \/ Refused
  <2>1. Answered
    BY <1>8 DEF Escalate, Refused
  <2> QED
    BY <1>6, <1>8, <2>1 DEF Answered, PageAnswered
<1>9. CASE Retry
  <2>1. /\ UNCHANGED <<agent, escalated, forbidden>> /\ GoesOn /\ attempt' = attempt + 1
        /\ ~SpentRetries
    BY <1>9 DEF Retry, GoesOn
  <2>2. CASE AnsweredThen(Backoff) /\ Wants(0)
    <3>1. Backoff \in 0..RetryCap
      BY <2>1, BackoffType
    <3> DEFINE sleep == Backoff
    <3>2. sleep \in 0..LongAgo /\ (0 <= sleep \/ sleep >= RetryCap)
      BY <1>6, <3>1
    <3>3. AnsweredThen(sleep) /\ Wants(0)
      BY <2>2
    <3> HIDE DEF sleep
    <3> QED
      BY <1>6, <2>1, <3>2, <3>3 DEF PageAnswered
  <2>3. ASSUME NEW t \in RetryAfters,
               AnsweredThen(Min({t, RetryCap})), Wants(t)
        PROVE  PageAnswered
    <3>1. t \in 0..LongAgo
      BY TimesAssumption
    <3>2. Min({t, RetryCap}) = IF t <= RetryCap THEN t ELSE RetryCap
      BY <1>6, <3>1, MinOfTwo
    <3> DEFINE sleep == Min({t, RetryCap})
    <3>3. sleep \in 0..LongAgo /\ (t <= sleep \/ sleep >= RetryCap)
      BY <1>6, <3>1, <3>2
    <3>4. AnsweredThen(sleep) /\ Wants(t)
      BY <2>3
    <3> HIDE DEF sleep
    <3> QED
      BY <2>1, <3>1, <3>3, <3>4 DEF PageAnswered
  <2> QED
    BY <1>9, <2>2, <2>3 DEF Retry
<1> QED
  BY <1>1, <1>2, <1>3, <1>4, <1>5, <1>7, <1>8, <1>9 DEF Next

\* What they do to the request under way and to the counts.
LEMMA PageCounts ==
  ASSUME TypeInv, PageAnswered
  PROVE  /\ pc = "send" /\ url \in Urls /\ OriginOf[url] \in DOMAIN rules
         /\ UNCHANGED <<policyMode, rules, delay, says, unread, refused>>
         /\ requests' = requests + 1 /\ calls' = calls + 1 /\ asked' = asked \cup {url}
         /\ \/ GoesOn /\ attempt' = attempt + 1
            \/ IsOver
<1>1. PICK sleep \in 0..LongAgo :
        /\ AnsweredThen(sleep)
        /\ \/ Escalate
           \/ Refused
           \/ IsOver \/ (GoesOn /\ attempt' = attempt + 1)
  BY DEF PageAnswered
<1>2. /\ pc = "send" /\ UNCHANGED <<policyMode, rules, delay, says, unread, refused>>
      /\ asked' = asked \cup {url}
  BY <1>1 DEF AnsweredThen, robots
<1>3. sleep \in Nat
  BY TimesAssumption
<1>4. PageTypes /\ requests' = requests + 1
  BY <1>1, <1>3, AnsweredTypes
<1>5. url \in Urls /\ OriginOf[url] \in DOMAIN rules
  BY <1>2, UrlType DEF TypeInv, HostKnown
<1>6. Escalate => GoesOn /\ attempt' = attempt + 1
  BY DEF Escalate, GoesOn
<1>7. Refused => IsOver
  BY Raised DEF Refused, IsOver, Errors
<1> QED
  BY <1>1, <1>2, <1>4, <1>5, <1>6, <1>7 DEF PageTypes

\* A file is read before the page, and only once per host.
LEMMA LoadCounts ==
  ASSUME TypeInv, LoadRobots
  PROVE  /\ pc = "robots" /\ url \in Urls /\ OriginOf[url] \notin DOMAIN rules
         /\ pc' = "allowed"
         /\ UNCHANGED <<policyMode, agent, escalated, url, attempt, forbidden, asked, refused>>
         /\ attempt = 0
BY UrlType DEF LoadRobots, TypeInv, HostKnown, Attempts

\* A transport that raises ends the run.
LEMMA FailCounts ==
  ASSUME TypeInv, TransportFails
  PROVE  /\ pc = "send" /\ url \in Urls /\ OriginOf[url] \in DOMAIN rules
         /\ UNCHANGED <<policyMode, escalated, rules, delay, says, unread, wanted, requests,
                        forbidden, refused>>
         /\ calls' = calls + 1 /\ asked' = asked \cup {url}
         /\ pc' = "FetchFailed" /\ attempt' = 0
<1>1. pc = "send" /\ Raise("FetchFailed")
  BY DEF TransportFails
<1>2. pc' = "FetchFailed" /\ attempt' = 0
  BY <1>1 DEF Raise, Survives
<1>3. url \in Urls /\ OriginOf[url] \in DOMAIN rules
  BY <1>1, UrlType DEF TypeInv, HostKnown
<1>4. PageTypes
  BY FailedTypes
<1> QED
  BY <1>1, <1>2, <1>3, <1>4 DEF TransportFails, PageTypes, robots

-----------------------------------------------------------------------------
(***************************************************************************)
(* The budget                                                              *)
(***************************************************************************)

\* How far past the ceiling each stage of a page may be.
WithinPage ==
  /\ pc = "robots" => requests < MaxRequests
  /\ pc = "allowed" => requests <= MaxRequests
  /\ pc = "send" => requests <= MaxRequests + attempt
  /\ requests <= MaxRequests + RetryMax + 2

\* The calls that are not counted: one per host whose file could not be read,
\* and the one that ended the run.
Uncounted ==
  /\ unread \subseteq DOMAIN rules
  /\ calls <= requests + Cardinality(unread) + (IF pc = "FetchFailed" THEN 1 ELSE 0)

BudgetInv == TypeInv /\ WithinPage /\ Uncounted

LEMMA BudgetInit == Init => BudgetInv
<1> SUFFICES ASSUME Init PROVE BudgetInv
  OBVIOUS
<1>1. TypeInv
  BY TypeInit
<1>2. requests = 0 /\ calls = 0 /\ unread = {} /\ pc = "idle"
  BY DEF Init
<1>3. WithinPage
  BY <1>2, PolicyAssumption DEF WithinPage
<1>4. Uncounted
  BY <1>2, FS_EmptySet DEF Uncounted
<1> QED
  BY <1>1, <1>3, <1>4 DEF BudgetInv

LEMMA WithinStep ==
  ASSUME BudgetInv, [Next]_vars
  PROVE  WithinPage'
<1>1. /\ TypeInv /\ requests \in Nat /\ MaxRequests \in Nat \ {0} /\ RetryMax \in Nat
      /\ attempt \in 0..(RetryMax + 1) /\ (attempt # 0 => pc = "send")
  BY PolicyAssumption DEF BudgetInv, TypeInv, TypeOK, Attempts
<1>2. WithinPage
  BY DEF BudgetInv
<1>3. CASE Silent
  <2>1. requests' = requests
    BY <1>3 DEF Silent
  <2>2. CASE pc' = pc /\ attempt' = attempt
    BY <1>2, <2>1, <2>2 DEF WithinPage
  <2>3. ASSUME NEW u \in Urls, Get(u) PROVE WithinPage'
    <3>1. requests < MaxRequests /\ pc' \in {"allowed", "robots"}
      BY <1>1, <2>3 DEF Get, OverBudget
    <3> QED
      BY <1>1, <2>1, <3>1 DEF WithinPage
  <2>4. CASE IsOver
    BY <1>2, <2>1, <2>4 DEF WithinPage, IsOver, Errors
  <2>5. CASE Allowed
    <3>1. /\ pc = "allowed" /\ attempt = 0
          /\ (pc' = "send" /\ attempt' = attempt) \/ Raise("Disallowed")
      BY <1>1, <2>5 DEF Allowed
    <3>2. Raise("Disallowed") => IsOver
      BY Raised DEF IsOver, Errors
    <3> QED
      BY <1>1, <1>2, <2>1, <2>4, <3>1, <3>2 DEF WithinPage
  <2> QED
    BY <1>3, <2>2, <2>3, <2>4, <2>5 DEF Silent
<1>4. CASE LoadRobots
  <2>1. pc = "robots" /\ pc' = "allowed"
    BY <1>1, <1>4, LoadCounts
  <2>2. requests' \in {requests, requests + 1}
    BY <1>1, <1>4, LoadStep
  <2> QED
    BY <1>1, <1>2, <2>1, <2>2 DEF WithinPage
<1>5. CASE PageAnswered
  <2>1. /\ pc = "send" /\ requests' = requests + 1
        /\ (pc' = pc /\ attempt' = attempt + 1) \/ IsOver
    BY <1>1, <1>5, PageCounts DEF GoesOn
  <2>2. requests' <= MaxRequests + attempt + 1 /\ requests' <= MaxRequests + RetryMax + 2
    BY <1>1, <1>2, <2>1 DEF WithinPage
  <2>3. IsOver => pc' \notin {"robots", "allowed", "send"}
    BY DEF IsOver, Errors
  <2> QED
    BY <1>1, <2>1, <2>2, <2>3 DEF WithinPage
<1>6. CASE TransportFails
  BY <1>1, <1>2, <1>6, FailCounts DEF WithinPage
<1> QED
  BY <1>1, <1>3, <1>4, <1>5, <1>6, Shapes

LEMMA UncountedStep ==
  ASSUME BudgetInv, [Next]_vars
  PROVE  Uncounted'
<1>1. /\ TypeInv /\ requests \in Nat /\ calls \in Nat /\ DOMAIN rules \in SUBSET Origins
      /\ unread \subseteq DOMAIN rules
      /\ calls <= requests + Cardinality(unread) + (IF pc = "FetchFailed" THEN 1 ELSE 0)
  BY DEF BudgetInv, TypeInv, TypeOK, Uncounted
<1>2. IsFiniteSet(unread) /\ Cardinality(unread) \in Nat
  BY <1>1, OriginAssumption, FS_Subset, FS_CardinalityType
<1>3. CASE Silent
  <2>1. requests' = requests /\ calls' = calls /\ unread' = unread /\ rules' = rules
    BY <1>3 DEF Silent, robots
  <2>2. pc = "FetchFailed" => pc' = "FetchFailed"
    BY <1>3 DEF Silent, Get, Allowed
  <2> QED
    BY <1>1, <1>2, <2>1, <2>2 DEF Uncounted
<1>4. CASE LoadRobots
  <2> DEFINE o == OriginOf[url]
  <2>1. pc = "robots" /\ pc' = "allowed" /\ o \notin DOMAIN rules /\ o \in Origins
    BY <1>1, <1>4, LoadCounts, UrlType
  <2>2. PICK answered \in BOOLEAN :
          /\ requests' = IF answered THEN requests + 1 ELSE requests
          /\ \/ answered /\ unread' = unread
             \/ unread' = unread \cup {o}
          /\ DOMAIN rules' = DOMAIN rules \cup {o} /\ calls' = calls + 1
    <3>1. PaceTypes /\ 0 \in Nat
      BY <1>1 DEF TypeInv, TypeOK, PaceTypes
    <3>2. PICK r \in Readings \cup {NoFile}, answered \in BOOLEAN :
            /\ ReadAs(o, r) /\ Call(o, answered, 0)
            /\ requests' = IF answered THEN requests + 1 ELSE requests
            /\ \/ r \in Readings /\ answered /\ unread' = unread
               \/ r = NoFile /\ unread' = unread \cup {o}
      BY <1>1, <1>4, LoadStep
    <3>3. DOMAIN rules' = DOMAIN rules \cup {o}
      BY <1>1, <2>1, <3>2, ReadAsTypes
    <3>4. calls' = calls + 1
      BY <2>1, <3>1, <3>2, CallTypes
    <3> QED
      BY <3>2, <3>3, <3>4
  <2>3. Cardinality(unread \cup {o}) = Cardinality(unread) + 1
    BY <1>1, <1>2, <2>1, FS_AddElement
  <2> HIDE DEF o
  <2>4. CASE answered /\ unread' = unread
    BY <1>1, <1>2, <2>1, <2>2, <2>4 DEF Uncounted
  <2>5. CASE unread' = unread \cup {o}
    <3>a. /\ calls <= requests + Cardinality(unread) /\ calls' = calls + 1
          /\ requests' = requests \/ requests' = requests + 1
      BY <1>1, <1>2, <2>1, <2>2
    <3>b. Cardinality(unread') = Cardinality(unread) + 1
      BY <2>3, <2>5
    <3> DEFINE n == Cardinality(unread)
    <3>c. n \in Nat /\ requests \in Nat /\ calls \in Nat
      BY <1>1, <1>2
    <3> HIDE DEF n
    <3>1. calls' <= requests' + Cardinality(unread')
      BY <3>a, <3>b, <3>c DEF n
    <3>2. unread' \subseteq DOMAIN rules' /\ pc' # "FetchFailed"
      BY <1>1, <2>1, <2>2, <2>5
    <3>3. calls' <= requests' + Cardinality(unread') + 0
      BY <3>1, <3>a, <3>b, <3>c DEF n
    <3> QED
      BY <3>2, <3>3 DEF Uncounted
  <2> QED
    BY <2>2, <2>4, <2>5
<1>5. CASE PageAnswered
  <2>1. /\ pc = "send" /\ requests' = requests + 1 /\ calls' = calls + 1
        /\ unread' = unread /\ rules' = rules
    BY <1>1, <1>5, PageCounts
  <2> QED
    BY <1>1, <1>2, <2>1 DEF Uncounted
<1>6. CASE TransportFails
  <2>1. /\ pc = "send" /\ pc' = "FetchFailed" /\ requests' = requests /\ calls' = calls + 1
        /\ unread' = unread /\ rules' = rules
    BY <1>1, <1>6, FailCounts
  <2> QED
    BY <1>1, <1>2, <2>1 DEF Uncounted
<1> QED
  BY <1>1, <1>3, <1>4, <1>5, <1>6, Shapes

\* Budget: whatever the limits, files, answers and faults are, a run passes its
\* ceiling on requests by no more than one page's worth, and calls the transport
\* at most once per unreadable robots.txt and once more than it counts.
THEOREM BoundedOvershootAlways == Spec => []BoundedOvershoot
<1>1. BudgetInv /\ [Next]_vars => BudgetInv'
  BY TypeStep, WithinStep, UncountedStep DEF BudgetInv
<1>2. BudgetInv => BoundedOvershoot
  <2> SUFFICES ASSUME BudgetInv PROVE BoundedOvershoot
    OBVIOUS
  <2>1. /\ requests \in Nat /\ calls \in Nat /\ unread \in SUBSET Origins
        /\ requests <= MaxRequests + RetryMax + 2
        /\ calls <= requests + Cardinality(unread) + (IF pc = "FetchFailed" THEN 1 ELSE 0)
    BY DEF BudgetInv, TypeInv, TypeOK, WithinPage, Uncounted
  <2>2. Cardinality(unread) \in Nat
    BY <2>1, OriginAssumption, FS_Subset, FS_CardinalityType
  <2> QED
    BY <2>1, <2>2 DEF BoundedOvershoot
<1> QED
  BY BudgetInit, <1>1, <1>2, PTL DEF Spec

-----------------------------------------------------------------------------
(***************************************************************************)
(* Refusals                                                                *)
(***************************************************************************)

\* A live run has been refused only where it corrected itself.
Corrected ==
  /\ escalated => policyMode = "auto"
  /\ pc # "Blocked" => forbidden = IF escalated THEN 1 ELSE 0

RefusalInv == TypeInv /\ Corrected

LEMMA CorrectedStep ==
  ASSUME RefusalInv, [Next]_vars
  PROVE  Corrected'
<1>1. TypeInv /\ Corrected /\ escalated \in BOOLEAN
  BY DEF RefusalInv, TypeInv, TypeOK
<1>2. CASE Silent
  <2>1. policyMode' = policyMode /\ escalated' = escalated /\ forbidden' = forbidden
    BY <1>2 DEF Silent
  <2>2. pc = "Blocked" => pc' = "Blocked"
    BY <1>2 DEF Silent, Get, Allowed
  <2> QED
    BY <1>1, <2>1, <2>2 DEF Corrected
<1>3. CASE LoadRobots
  <2>1. /\ policyMode' = policyMode /\ escalated' = escalated /\ forbidden' = forbidden
        /\ pc = "robots"
    BY <1>1, <1>3, LoadCounts
  <2> QED
    BY <1>1, <2>1 DEF Corrected
<1>4. CASE PageAnswered
  <2>1. pc = "send" /\ policyMode' = policyMode
    BY <1>1, <1>4, PageCounts
  <2>2. CASE Escalate
    BY <1>1, <2>1, <2>2 DEF Escalate, CanEscalate, Corrected
  <2>3. CASE Refused
    <3>1. pc' = "Blocked" /\ escalated' = escalated
      BY <2>3 DEF Refused, Raise, Survives
    <3> QED
      BY <1>1, <2>1, <3>1 DEF Corrected
  <2>4. CASE UNCHANGED <<agent, escalated, forbidden>>
    BY <1>1, <2>1, <2>4 DEF Corrected
  <2> QED
    BY <1>4, <2>2, <2>3, <2>4 DEF PageAnswered
<1>5. CASE TransportFails
  <2>1. /\ policyMode' = policyMode /\ escalated' = escalated /\ forbidden' = forbidden
        /\ pc = "send"
    BY <1>1, <1>5, FailCounts
  <2> QED
    BY <1>1, <2>1 DEF Corrected
<1> QED
  BY <1>1, <1>2, <1>3, <1>4, <1>5, Shapes

\* Refusals: a run corrects its User-Agent at most once, in mode auto only, and
\* the next refusal is its last.
THEOREM RefusalEndsRunAlways == Spec => []RefusalEndsRun
<1>1. Init => RefusalInv
  BY TypeInit DEF Init, RefusalInv, Corrected
<1>2. RefusalInv /\ [Next]_vars => RefusalInv'
  BY TypeStep, CorrectedStep DEF RefusalInv
<1>3. RefusalInv => RefusalEndsRun
  BY DEF RefusalInv, Corrected, TypeInv, TypeOK, RefusalEndsRun
<1> QED
  BY <1>1, <1>2, <1>3, PTL DEF Spec

-----------------------------------------------------------------------------
(***************************************************************************)
(* robots.txt                                                              *)
(***************************************************************************)

\* Pages are asked for or passed over by the rules of their own host.
AskedByTheRules ==
  /\ \A u \in asked : OriginOf[u] \in DOMAIN rules /\ u \in rules[OriginOf[u]]
  /\ \A u \in refused : OriginOf[u] \in DOMAIN rules /\ u \notin rules[OriginOf[u]]
  /\ pc = "send" => url \in rules[OriginOf[url]]

RulesInv == TypeInv /\ ReadsWhatItSays /\ AskedByTheRules

\* A reading takes from a file what it says.
LEMMA ReadingSays ==
  ASSUME NEW r \in Readings \cup {NoFile}
  PROVE  r.allowed = r.says.permits /\ r.delay = r.says.delay
<1>1. CASE r = NoFile
  BY <1>1 DEF NoFile
<1>2. CASE r \in Readings
  <2>1. PICK f \in Files :
          r = [allowed |-> {u \in Urls : MayFetch(Parse(f), PathOf[u])},
               delay |-> GroupFor(Parse(f)).delay,
               says |-> [permits |-> {u \in Urls : Permitted(f, PathOf[u])},
                         delay |-> AskedDelay(f)]]
    BY <1>2 DEF Readings
  <2>2. GroupFor(Parse(f)).delay = AskedDelay(f)
    BY FileIsWritten
  <2>3. {u \in Urls : MayFetch(Parse(f), PathOf[u])} = {u \in Urls : Permitted(f, PathOf[u])}
    BY FileIsWritten
  <2> QED
    BY <2>1, <2>2, <2>3
<1> QED
  BY <1>1, <1>2

\* What reading a file changes: nothing for the hosts known before.
LEMMA ReadAsValues ==
  ASSUME TypeInv, NEW o \in Origins, NEW r \in Readings \cup {NoFile}, ReadAs(o, r)
  PROVE  /\ DOMAIN rules' = DOMAIN rules \cup {o}
         /\ rules'[o] = r.allowed /\ delay'[o] = r.delay
         /\ says'[o] = r.says /\ wanted'[o] = r.says.delay
         /\ \A h \in DOMAIN rules :
              h # o => /\ rules'[h] = rules[h] /\ delay'[h] = delay[h]
                       /\ says'[h] = says[h] /\ wanted'[h] = wanted[h]
<1>1. /\ DOMAIN delay = DOMAIN rules /\ DOMAIN says = DOMAIN rules
      /\ DOMAIN wanted = DOMAIN rules
  BY DEF TypeInv, TypeOK
<1> QED
  BY <1>1 DEF ReadAs, With

LEMMA RulesStep ==
  ASSUME RulesInv, [Next]_vars
  PROVE  ReadsWhatItSays' /\ AskedByTheRules'
<1>1. TypeInv /\ ReadsWhatItSays /\ AskedByTheRules
  BY DEF RulesInv
<1>2. CASE Silent
  <2>1. rules' = rules /\ delay' = delay /\ says' = says /\ asked' = asked
    BY <1>2 DEF Silent, robots
  <2>2. ReadsWhatItSays'
    BY <1>1, <2>1 DEF ReadsWhatItSays
  <2>3. CASE pc' = pc /\ url' = url /\ refused' = refused
    BY <1>1, <2>1, <2>2, <2>3 DEF AskedByTheRules
  <2>4. CASE refused' = refused /\ pc' # "send"
    BY <1>1, <2>1, <2>2, <2>4 DEF AskedByTheRules
  <2>5. CASE Allowed
    <3>1. OriginOf[url] \in DOMAIN rules
      BY <1>1, <2>5 DEF Allowed, TypeInv, HostKnown
    <3>2. CASE CanFetch(url)
      BY <1>1, <2>1, <2>2, <2>5, <3>1, <3>2 DEF Allowed, CanFetch, AskedByTheRules
    <3>3. CASE ~CanFetch(url)
      <4>1. refused' = refused \cup {url} /\ Raise("Disallowed")
        BY <2>5, <3>3 DEF Allowed
      <4>2. pc' # "send"
        BY <4>1 DEF Raise
      <4> QED
        BY <1>1, <2>1, <2>2, <3>1, <3>3, <4>1, <4>2 DEF CanFetch, AskedByTheRules
    <3> QED
      BY <3>2, <3>3
  <2>6. ASSUME NEW u \in Urls, Get(u) PROVE refused' = refused /\ pc' # "send"
    BY <2>6 DEF Get
  <2>7. IsOver => pc' # "send"
    BY DEF IsOver, Errors
  <2> QED
    BY <1>2, <2>3, <2>4, <2>5, <2>6, <2>7 DEF Silent
<1>3. CASE LoadRobots
  <2> DEFINE o == OriginOf[url]
  <2>1. /\ pc' = "allowed" /\ asked' = asked /\ refused' = refused
        /\ o \notin DOMAIN rules /\ o \in Origins
    BY <1>1, <1>3, LoadCounts, UrlType
  <2>2. PICK r \in Readings \cup {NoFile} : ReadAs(o, r)
    BY <1>1, <1>3, LoadStep
  <2>3. /\ DOMAIN rules' = DOMAIN rules \cup {o}
        /\ rules'[o] = says'[o].permits /\ delay'[o] = says'[o].delay
        /\ \A h \in DOMAIN rules :
              h # o => /\ rules'[h] = rules[h] /\ delay'[h] = delay[h]
                       /\ says'[h] = says[h]
    <3> HIDE DEF o
    <3>1. r.allowed = r.says.permits /\ r.delay = r.says.delay
      BY ReadingSays
    <3> QED
      BY <1>1, <2>1, <2>2, <3>1, ReadAsValues
  <2> HIDE DEF o
  <2>4. ReadsWhatItSays'
    BY <1>1, <2>1, <2>3 DEF ReadsWhatItSays
  <2>5. AskedByTheRules'
    BY <1>1, <2>1, <2>3 DEF AskedByTheRules
  <2> QED
    BY <2>4, <2>5
<1>4. CASE PageAnswered \/ TransportFails
  <2>1. /\ pc = "send" /\ url \in Urls /\ OriginOf[url] \in DOMAIN rules
        /\ rules' = rules /\ delay' = delay /\ says' = says /\ refused' = refused
        /\ asked' = asked \cup {url}
        /\ (pc' = "send" /\ url' = url) \/ pc' # "send"
    <3>1. IsOver => pc' # "send"
      BY DEF IsOver, Errors
    <3>2. CASE PageAnswered
      BY <1>1, <3>1, <3>2, PageCounts DEF GoesOn
    <3>3. CASE TransportFails
      BY <1>1, <3>3, FailCounts
    <3> QED
      BY <1>4, <3>2, <3>3
  <2>2. ReadsWhatItSays'
    BY <1>1, <2>1 DEF ReadsWhatItSays
  <2>3. AskedByTheRules'
    BY <1>1, <2>1 DEF AskedByTheRules
  <2> QED
    BY <2>2, <2>3
<1> QED
  BY <1>1, <1>2, <1>3, <1>4, Shapes

LEMMA RulesInvariant == Spec => []RulesInv
<1>1. Init => RulesInv
  <2> SUFFICES ASSUME Init PROVE RulesInv
    OBVIOUS
  <2>1. DOMAIN rules = {} /\ asked = {} /\ refused = {} /\ pc = "idle"
    BY DEF Init
  <2> QED
    BY <2>1, TypeInit DEF RulesInv, ReadsWhatItSays, AskedByTheRules
<1>2. RulesInv /\ [Next]_vars => RulesInv'
  BY TypeStep, RulesStep DEF RulesInv
<1> QED
  BY <1>1, <1>2, PTL DEF Spec

\* robots.txt: whatever lines the files have, and whichever hosts are asked in which
\* order, the client holds of each host the rules and the delay that its lines promise.
THEOREM ReadAsWrittenAlways == Spec => []ReadsWhatItSays
<1>1. RulesInv => ReadsWhatItSays
  BY DEF RulesInv
<1> QED
  BY <1>1, RulesInvariant, PTL

\* robots.txt: whatever its lines, a client asks for no page its host forbids and
\* passes over none it permits, whatever hosts and pages come up in whatever order.
THEOREM RobotsRespectedAlways == Spec => []RobotsRespected
<1>1. RulesInv => RobotsRespected
  BY DEF RulesInv, ReadsWhatItSays, AskedByTheRules, RobotsRespected
<1> QED
  BY <1>1, RulesInvariant, PTL

-----------------------------------------------------------------------------
(***************************************************************************)
(* Pacing                                                                  *)
(***************************************************************************)

\* While a run is live, a host's last answer was its last call, and what it wants
\* it has already had, or will have from the delay the client knows, or has had as
\* much of as the client grants any host; a host that never answered wants nothing.
Paced ==
  /\ \A o \in DOMAIN last : last[o] = since[o]
  /\ \A o \in DOMAIN rules : \/ wanted[o] <= since[o]
                             \/ wanted[o] <= delay[o]
                             \/ RetryCap <= since[o]
  /\ \A o \in DOMAIN rules : o \notin DOMAIN last => wanted[o] = 0

NoneRushed ==
  /\ LeftAlone
  /\ \A o \in DOMAIN rules : wanted[o] <= LongAgo /\ delay[o] <= LongAgo
  /\ pc # "FetchFailed" => Paced

PaceInv == RulesInv /\ NoneRushed

\* What one call to host o, t seconds of waiting and sleeping, leaves behind: nobody
\* was rushed without excuse, o's own ages start again and all the others grow alike.
Aged(o, answered, sleep, t) ==
  /\ LeftAlone'
  /\ since'[o] = sleep
  /\ answered => last'[o] = sleep
  /\ \A h \in DOMAIN rules : h # o =>
       since'[h] = IF since[h] + t <= LongAgo THEN since[h] + t ELSE LongAgo
  /\ \A h \in DOMAIN last : h # o => last'[h] = since'[h]

WantsAreSmall == \A h \in DOMAIN rules : wanted[h] <= LongAgo

\* Nobody is called too soon, and all hosts age alike.
LEMMA CallAges ==
  ASSUME PaceTypes, Paced, LeftAlone, WantsAreSmall,
         \A h \in DOMAIN rules : says[h].delay = delay[h],
         NEW o \in Origins, NEW answered \in BOOLEAN, NEW sleep \in 0..LongAgo,
         Call(o, answered, sleep)
  PROVE  \E t \in Nat : Aged(o, answered, sleep, t)
<1>1. /\ sleep \in Nat /\ LongAgo \in Nat /\ sleep <= LongAgo
      /\ RetryCap \in Nat /\ RetryCap <= LongAgo
  BY TimesAssumption
<1>2. PICK pause \in Nat :
        /\ o \in DOMAIN last => last[o] + pause >= delay[o]
        /\ last' = IF answered THEN With(Older(last, pause + sleep), o, sleep)
                   ELSE Older(last, pause + sleep)
        /\ since' = With(Older(since, pause + sleep), o, sleep)
        /\ rushed' = IF o \in DOMAIN since /\ Older(since, pause)[o] < wanted[o]
                     THEN rushed \cup {[age |-> Older(since, pause)[o],
                                        delay |-> says[o].delay]}
                     ELSE rushed
  BY <1>1, CallValues
<1> DEFINE t == pause + sleep
<1>3. t \in Nat
  BY <1>1, <1>2
<1>4. /\ last \in [DOMAIN last -> Nat] /\ since \in [DOMAIN since -> Nat]
      /\ DOMAIN since = DOMAIN rules /\ DOMAIN last \subseteq DOMAIN rules
      /\ DOMAIN delay = DOMAIN rules /\ DOMAIN wanted = DOMAIN rules
      /\ delay \in [DOMAIN rules -> Nat] /\ wanted \in [DOMAIN rules -> Nat]
  BY DEF PaceTypes
<1> DEFINE ages == Older(since, t)
           was == Older(last, t)
           then == Older(since, pause)
<1>5. /\ DOMAIN ages = DOMAIN rules /\ DOMAIN was = DOMAIN last
      /\ \A h \in DOMAIN rules :
           ages[h] = IF since[h] + t <= LongAgo THEN since[h] + t ELSE LongAgo
      /\ \A h \in DOMAIN last :
           was[h] = IF last[h] + t <= LongAgo THEN last[h] + t ELSE LongAgo
  BY <1>3, <1>4, OlderValues
<1>6. \A h \in DOMAIN rules :
        then[h] = IF since[h] + pause <= LongAgo THEN since[h] + pause ELSE LongAgo
  BY <1>4, OlderValues
<1>7. since' = With(ages, o, sleep) /\ last' = (IF answered THEN With(was, o, sleep) ELSE was)
  BY <1>2
<1>8. rushed' = IF o \in DOMAIN rules /\ then[o] < wanted[o]
                THEN rushed \cup {[age |-> then[o], delay |-> says[o].delay]} ELSE rushed
  BY <1>2, <1>4
<1> HIDE DEF t, ages, was, then
<1>9. o \in DOMAIN rules /\ then[o] < wanted[o] => then[o] >= says[o].delay /\ then[o] >= RetryCap
  <2> SUFFICES ASSUME o \in DOMAIN rules, then[o] < wanted[o]
               PROVE  then[o] >= says[o].delay /\ then[o] >= RetryCap
    OBVIOUS
  <2>1. /\ since[o] \in Nat /\ wanted[o] \in Nat /\ delay[o] \in Nat
        /\ wanted[o] <= LongAgo
        /\ wanted[o] <= since[o] \/ wanted[o] <= delay[o] \/ RetryCap <= since[o]
        /\ then[o] = IF since[o] + pause <= LongAgo THEN since[o] + pause ELSE LongAgo
        /\ says[o].delay = delay[o]
    BY <1>4, <1>6 DEF Paced, WantsAreSmall
  <2>2. CASE o \in DOMAIN last
    BY <1>1, <1>2, <2>1, <2>2 DEF Paced
  <2>3. CASE o \notin DOMAIN last
    BY <1>1, <2>1, <2>3 DEF Paced
  <2> QED
    BY <2>2, <2>3
<1>10. LeftAlone'
  BY <1>8, <1>9 DEF LeftAlone
<1>11. /\ since'[o] = sleep
       /\ \A h \in DOMAIN rules : h # o => since'[h] = ages[h]
  BY <1>5, <1>7 DEF With
<1>12. /\ answered => last'[o] = sleep
       /\ \A h \in DOMAIN last : h # o => last'[h] = was[h]
  BY <1>5, <1>7 DEF With
<1>13. \A h \in DOMAIN last : was[h] = ages[h]
  BY <1>4, <1>5 DEF Paced
<1>14. Aged(o, answered, sleep, t)
  BY <1>4, <1>5, <1>10, <1>11, <1>12, <1>13 DEF Aged
<1> QED
  BY <1>3, <1>14

LEMMA PaceLoad ==
  ASSUME PaceInv, LoadRobots
  PROVE  NoneRushed'
<1> DEFINE o == OriginOf[url]
<1>1. TypeInv /\ PaceTypes /\ \A h \in DOMAIN rules : says[h].delay = delay[h]
  BY DEF PaceInv, RulesInv, TypeInv, TypeOK, PaceTypes, ReadsWhatItSays
<1>2. pc = "robots" /\ pc' = "allowed" /\ o \notin DOMAIN rules /\ o \in Origins
  BY <1>1, LoadCounts, UrlType
<1>3. PICK r \in Readings \cup {NoFile}, answered \in BOOLEAN :
        /\ ReadAs(o, r) /\ Call(o, answered, 0)
        /\ \/ r \in Readings /\ answered
           \/ r = NoFile
  BY <1>1, LoadStep
<1>4. /\ DOMAIN rules' = DOMAIN rules \cup {o}
      /\ delay'[o] = r.delay /\ wanted'[o] = r.says.delay
      /\ \A h \in DOMAIN rules : delay'[h] = delay[h] /\ wanted'[h] = wanted[h]
  BY <1>1, <1>2, <1>3, ReadAsValues
<1>5. r.delay = r.says.delay /\ r.says.delay \in 0..LongAgo /\ (r = NoFile => r.says.delay = 0)
  BY ReadingSays, ReadingTypes DEF NoFile
<1>6. /\ Paced /\ LeftAlone
      /\ \A h \in DOMAIN rules : wanted[h] <= LongAgo /\ delay[h] <= LongAgo
  BY <1>2 DEF PaceInv, NoneRushed
<1>7. /\ 0 \in 0..LongAgo /\ LongAgo \in Nat /\ RetryCap \in Nat /\ RetryCap <= LongAgo
  BY TimesAssumption
<1>8. PICK t \in Nat : Aged(o, answered, 0, t)
  <2>1. o \in Origins /\ answered \in BOOLEAN /\ 0 \in 0..LongAgo /\ Call(o, answered, 0)
    BY <1>2, <1>3, <1>7
  <2>2. PaceTypes /\ Paced /\ LeftAlone /\ WantsAreSmall
          /\ \A h \in DOMAIN rules : says[h].delay = delay[h]
    BY <1>1, <1>6 DEF WantsAreSmall
  <2> HIDE DEF o
  <2> QED
    BY <2>1, <2>2, CallAges, Zenon
<1>9. DOMAIN last' = IF answered THEN DOMAIN last \cup {o} ELSE DOMAIN last
  <2>1. o \in Origins /\ answered \in BOOLEAN /\ 0 \in Nat /\ Call(o, answered, 0)
    BY <1>2, <1>3
  <2> HIDE DEF o
  <2> QED
    BY <1>1, <2>1, CallTypes
<1>10. /\ DOMAIN last \subseteq DOMAIN rules
       /\ \A h \in DOMAIN rules : wanted[h] \in Nat /\ since[h] \in Nat /\ delay[h] \in Nat
                                  /\ since[h] <= LongAgo
  BY <1>1, <1>7 DEF PaceTypes
<1> HIDE DEF o
<1>11. \A h \in DOMAIN last' : last'[h] = since'[h]
  BY <1>2, <1>8, <1>9, <1>10 DEF Aged
<1>12. \A h \in DOMAIN rules' : h \notin DOMAIN last' => wanted'[h] = 0
  BY <1>2, <1>3, <1>4, <1>5, <1>6, <1>9 DEF Paced
<1>13. \A h \in DOMAIN rules' : \/ wanted'[h] <= since'[h] \/ wanted'[h] <= delay'[h]
                               \/ RetryCap <= since'[h]
  <2>1. wanted'[o] <= delay'[o]
    BY <1>4, <1>5, <1>7
  <2>2. ASSUME NEW h \in DOMAIN rules, h # o
        PROVE  \/ wanted'[h] <= since'[h] \/ wanted'[h] <= delay'[h]
               \/ RetryCap <= since'[h]
    BY <1>4, <1>6, <1>7, <1>8, <1>10, <2>2 DEF Paced, Aged
  <2> QED
    BY <1>4, <2>1, <2>2
<1>14. \A h \in DOMAIN rules' : wanted'[h] <= LongAgo /\ delay'[h] <= LongAgo
  BY <1>4, <1>5, <1>6, <1>7
<1> QED
  BY <1>2, <1>8, <1>11, <1>12, <1>13, <1>14 DEF NoneRushed, Paced, Aged

LEMMA PacePage ==
  ASSUME PaceInv, PageAnswered
  PROVE  NoneRushed'
<1> DEFINE o == OriginOf[url]
<1>1. TypeInv /\ PaceTypes /\ ReadsWhatItSays
  BY DEF PaceInv, RulesInv, TypeInv, TypeOK, PaceTypes
<1>2. /\ pc = "send" /\ o \in DOMAIN rules /\ o \in Origins
      /\ rules' = rules /\ delay' = delay /\ says' = says
  BY <1>1, PageCounts, UrlType
<1>3. PICK sleep \in 0..LongAgo, t \in 0..LongAgo :
        /\ Call(o, TRUE, sleep)
        /\ wanted' = [wanted EXCEPT ![o] = Max({says[o].delay, t})]
        /\ t <= sleep \/ sleep >= RetryCap
  BY DEF PageAnswered, AnsweredThen, Wants
<1>4. /\ LongAgo \in Nat /\ sleep \in Nat /\ t \in Nat /\ t <= LongAgo /\ TRUE \in BOOLEAN
      /\ RetryCap \in Nat /\ RetryCap <= LongAgo
  BY TimesAssumption
<1>5. /\ says[o].delay = delay[o] /\ delay[o] \in Nat
      /\ wanted \in [DOMAIN rules -> Nat] /\ DOMAIN last \subseteq DOMAIN rules
      /\ \A h \in DOMAIN rules : wanted[h] \in Nat /\ since[h] \in Nat /\ delay[h] \in Nat
                                  /\ since[h] <= LongAgo
  BY <1>1, <1>2, <1>4 DEF PaceTypes, ReadsWhatItSays
<1>6. Max({delay[o], t}) = IF delay[o] >= t THEN delay[o] ELSE t
  <2> DEFINE d == delay[o]
  <2>1. d \in Int /\ t \in Int
    BY <1>4, <1>5
  <2> HIDE DEF d
  <2>2. Max({d, t}) = IF d >= t THEN d ELSE t
    BY <2>1, MaxOfTwo
  <2> QED
    BY <2>2 DEF d
<1>7. /\ wanted'[o] = IF delay[o] >= t THEN delay[o] ELSE t
      /\ \A h \in DOMAIN rules : h # o => wanted'[h] = wanted[h]
  BY <1>2, <1>3, <1>5, <1>6
<1>8. /\ Paced /\ LeftAlone
      /\ \A h \in DOMAIN rules : wanted[h] <= LongAgo /\ delay[h] <= LongAgo
  BY <1>2 DEF PaceInv, NoneRushed
<1>9. PICK gone \in Nat : Aged(o, TRUE, sleep, gone)
  <2>1. o \in Origins /\ TRUE \in BOOLEAN /\ sleep \in 0..LongAgo /\ Call(o, TRUE, sleep)
    BY <1>2, <1>3
  <2>2. PaceTypes /\ Paced /\ LeftAlone /\ WantsAreSmall
          /\ \A h \in DOMAIN rules : says[h].delay = delay[h]
    BY <1>1, <1>8 DEF WantsAreSmall, ReadsWhatItSays
  <2> HIDE DEF o
  <2> QED
    BY <2>1, <2>2, CallAges, Zenon
<1>10. DOMAIN last' = DOMAIN last \cup {o}
  BY <1>1, <1>2, <1>3, <1>4, CallTypes
<1> HIDE DEF o
<1>11. \A h \in DOMAIN last' : last'[h] = since'[h]
  BY <1>9, <1>10 DEF Aged
<1>12. \A h \in DOMAIN rules : h \notin DOMAIN last' => wanted'[h] = 0
  BY <1>7, <1>8, <1>10 DEF Paced
<1>13. \A h \in DOMAIN rules : \/ wanted'[h] <= since'[h] \/ wanted'[h] <= delay[h]
                              \/ RetryCap <= since'[h]
  <2>1. wanted'[o] <= since'[o] \/ wanted'[o] <= delay[o] \/ RetryCap <= since'[o]
    BY <1>3, <1>4, <1>5, <1>7, <1>9 DEF Aged
  <2>2. ASSUME NEW h \in DOMAIN rules, h # o
        PROVE  \/ wanted'[h] <= since'[h] \/ wanted'[h] <= delay[h]
               \/ RetryCap <= since'[h]
    BY <1>4, <1>5, <1>7, <1>8, <1>9, <2>2 DEF Paced, Aged
  <2> QED
    BY <2>1, <2>2
<1>14. \A h \in DOMAIN rules : wanted'[h] <= LongAgo /\ delay[h] <= LongAgo
  BY <1>2, <1>4, <1>5, <1>7, <1>8
<1> QED
  BY <1>2, <1>9, <1>11, <1>12, <1>13, <1>14 DEF NoneRushed, Paced, Aged

LEMMA PaceFails ==
  ASSUME PaceInv, TransportFails
  PROVE  NoneRushed'
<1> DEFINE o == OriginOf[url]
<1>1. TypeInv /\ PaceTypes /\ \A h \in DOMAIN rules : says[h].delay = delay[h]
  BY DEF PaceInv, RulesInv, TypeInv, TypeOK, PaceTypes, ReadsWhatItSays
<1>2. /\ pc = "send" /\ pc' = "FetchFailed" /\ o \in Origins
      /\ rules' = rules /\ wanted' = wanted /\ delay' = delay
  BY <1>1, FailCounts, UrlType
<1>3. Call(o, FALSE, 0)
  BY DEF TransportFails
<1>a. FALSE \in BOOLEAN /\ 0 \in 0..LongAgo
  BY TimesAssumption
<1>4. /\ Paced /\ LeftAlone
      /\ \A h \in DOMAIN rules : wanted[h] <= LongAgo /\ delay[h] <= LongAgo
  BY <1>2 DEF PaceInv, NoneRushed
<1>5. LeftAlone'
  <2>1. PaceTypes /\ Paced /\ LeftAlone /\ WantsAreSmall
          /\ \A h \in DOMAIN rules : says[h].delay = delay[h]
    BY <1>1, <1>4 DEF WantsAreSmall
  <2> HIDE DEF o
  <2>2. PICK t \in Nat : Aged(o, FALSE, 0, t)
    BY <1>2, <1>3, <1>a, <2>1, CallAges, Zenon
  <2> QED
    BY <2>2 DEF Aged
<1> QED
  BY <1>2, <1>4, <1>5 DEF NoneRushed

LEMMA PaceStep ==
  ASSUME PaceInv, [Next]_vars
  PROVE  NoneRushed'
<1>1. TypeInv /\ NoneRushed
  BY DEF PaceInv, RulesInv
<1>2. CASE Silent
  <2>1. /\ rules' = rules /\ delay' = delay /\ last' = last /\ since' = since
        /\ wanted' = wanted /\ rushed' = rushed
    BY <1>2 DEF Silent, robots, pacing
  <2>2. pc = "FetchFailed" => pc' = "FetchFailed"
    BY <1>2 DEF Silent, Get, Allowed
  <2> QED
    BY <1>1, <2>1, <2>2 DEF NoneRushed, Paced, LeftAlone
<1>3. CASE LoadRobots
  BY <1>3, PaceLoad
<1>4. CASE PageAnswered
  BY <1>4, PacePage
<1>5. CASE TransportFails
  BY <1>5, PaceFails
<1> QED
  BY <1>1, <1>2, <1>3, <1>4, <1>5, Shapes

\* Pacing: no host is called sooner after its last call than the crawl delay its
\* robots.txt names, nor sooner than the retry its last answer asked for or, if that
\* is longer, retry_max_seconds; whatever lines the file has and however the pages of
\* all hosts, their answers and the waits interleave.
THEOREM LeftAloneAlways == Spec => []LeftAlone
<1>1. Init => PaceInv
  <2> SUFFICES ASSUME Init PROVE PaceInv
    OBVIOUS
  <2>1. DOMAIN rules = {} /\ DOMAIN last = {} /\ rushed = {}
    BY DEF Init
  <2>2. DOMAIN rules = {} /\ asked = {} /\ refused = {} /\ pc = "idle"
    BY DEF Init
  <2>3. RulesInv
    BY <2>2, TypeInit DEF RulesInv, ReadsWhatItSays, AskedByTheRules
  <2> QED
    BY <2>1, <2>3 DEF PaceInv, NoneRushed, Paced, LeftAlone
<1>2. PaceInv /\ [Next]_vars => PaceInv'
  <2> SUFFICES ASSUME PaceInv, [Next]_vars PROVE PaceInv'
    OBVIOUS
  <2>1. TypeInv' /\ ReadsWhatItSays' /\ AskedByTheRules'
    BY TypeStep, RulesStep DEF PaceInv, RulesInv
  <2>2. NoneRushed'
    BY PaceStep
  <2> QED
    BY <2>1, <2>2 DEF PaceInv, RulesInv
<1>3. PaceInv => LeftAlone
  BY DEF PaceInv, NoneRushed
<1> QED
  BY <1>1, <1>2, <1>3, PTL DEF Spec
=============================================================================
