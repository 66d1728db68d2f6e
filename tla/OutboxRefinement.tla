-------------------------- MODULE OutboxRefinement --------------------------
(***************************************************************************)
(* Proofs that Outbox implements Membership and Delivery, and of what it   *)
(* promises beyond them when one run delivers at a time, for any number of *)
(* people and listings and any limits.                                     *)
(***************************************************************************)
EXTENDS OutboxProofs

-----------------------------------------------------------------------------
(***************************************************************************)
(* Outbox implements Membership                                            *)
(***************************************************************************)

\* Only people who once pressed START are written to, and whoever a run is about
\* to cut off is blocked by then or has left.
Planned == \A n \in Matchers, p \in Msgs : p \in todo[n] => M!Activated(p[1])
Notified == \A p \in Msgs : status[p] # "none" => M!Activated(p[1])
CuttingOff ==
  \A d \in Drains : dpc[d] = "stop_subs" =>
    users[cur[d][1]] = "blocked" \/ sub[cur[d][1]] = "none"

MemberInv == SafeInv /\ Planned /\ Notified /\ CuttingOff

\* Nobody is un-activated.
LEMMA StaysActivated ==
  ASSUME SafeInv, [Next]_vars, NEW u \in Users, M!Activated(u)
  PROVE  M!Activated(u)'
<1> USE DEF M!Activated
<1>1. TypeOK /\ InHand
  BY DEF SafeInv, TypeInv
<1>2. ASSUME NEW v \in Users, Subscribe(v) \/ Start(v) \/ Stop(v) \/ ToggleBot(v)
      PROVE  M!Activated(u)'
  <2>1. CASE Subscribe(v)
    BY <1>1, <2>1 DEF Subscribe, TypeOK
  <2>2. CASE Start(v)
    BY <1>1, <2>2 DEF Start, TypeOK
  <2>3. CASE Stop(v)
    BY <1>1, <2>3 DEF Stop, TypeOK
  <2>4. CASE ToggleBot(v)
    BY <2>4 DEF ToggleBot, webVars
  <2> QED
    BY <1>2, <2>1, <2>2, <2>3, <2>4
<1>3. ASSUME NEW m \in Matchers, MatchStep(m) \/ MatcherCrash(m)
      PROVE  users' = users
  BY <1>3 DEF MatchStep, FindNew, InsertListing, ReadSubscriptions, ReadTally,
              CapReached, AlreadyNotified, Queue, ForeignKeyFailure, MatchDone,
              MatcherCrash, webVars
<1>4. ASSUME NEW d \in Drains, DrainStep(d) \/ DrainCrash(d)
      PROVE  users' = users \/ users' = [users EXCEPT ![cur[d][1]] = "blocked"]
  BY <1>4 DEF DrainStep, Claim, Fetch, SkipGone, Send, ApplySent, ApplyFailed,
              ApplyRetry, StopUserStatus, StopUserSubscriptions, StopUserQueued,
              ApplyGone, DrainDone, DrainCrash, webVars
<1>5. UNCHANGED vars \/ Midnight => users' = users
  BY DEF vars, webVars, Midnight
<1> QED
  BY <1>1, <1>2, <1>3, <1>4, <1>5 DEF Next, TypeOK

\* A filter that is gone stays gone for whoever was activated.
LEMMA FilterStaysGone ==
  ASSUME SafeInv, [Next]_vars, NEW u \in Users, M!Activated(u), sub[u] = "none"
  PROVE  sub'[u] = "none"
<1>1. TypeOK /\ users[u] # "absent"
  BY DEF SafeInv, TypeInv, M!Activated
<1>2. ASSUME NEW v \in Users, Subscribe(v) \/ Start(v) \/ Stop(v) \/ ToggleBot(v)
      PROVE  sub'[u] = "none"
  BY <1>1, <1>2 DEF Subscribe, Start, Stop, ToggleBot, webVars, TypeOK
<1>3. ASSUME NEW m \in Matchers, MatchStep(m) \/ MatcherCrash(m)
      PROVE  sub' = sub
  BY <1>3 DEF MatchStep, FindNew, InsertListing, ReadSubscriptions, ReadTally,
              CapReached, AlreadyNotified, Queue, ForeignKeyFailure, MatchDone,
              MatcherCrash, webVars
<1>4. ASSUME NEW d \in Drains, DrainStep(d) \/ DrainCrash(d)
      PROVE  sub'[u] = "none"
  <2>1. sub' = sub \/ Deactivate(cur[d][1])
    BY <1>4 DEF DrainStep, Claim, Fetch, SkipGone, Send, ApplySent, ApplyFailed,
              ApplyRetry, StopUserStatus, StopUserSubscriptions, StopUserQueued,
              ApplyGone, DrainDone, DrainCrash, webVars
  <2> QED
    BY <1>1, <2>1 DEF Deactivate, TypeOK
<1>5. UNCHANGED vars \/ Midnight => sub' = sub
  BY DEF vars, webVars, Midnight
<1> QED
  BY <1>2, <1>3, <1>4, <1>5 DEF Next

\* Plans and rows are about people who were activated.
LEMMA PlannedStep ==
  ASSUME MemberInv, [Next]_vars
  PROVE  Planned' /\ Notified'
<1>1. SafeInv /\ Planned /\ Notified
  BY DEF MemberInv
<1>2. \A u \in Users : M!Activated(u) => M!Activated(u)'
  BY <1>1, StaysActivated
<1>3. ASSUME NEW n \in Matchers, NEW p \in Msgs, p \in todo'[n]
      PROVE  M!Activated(p[1])'
  <2>1. M!Activated(p[1])
    BY <1>1, <1>3, PlannedByReading DEF Planned, M!Activated
  <2> QED
    BY <1>2, <2>1 DEF Msgs
<1>4. ASSUME NEW p \in Msgs, status'[p] # "none"
      PROVE  M!Activated(p[1])'
  <2>1. M!Activated(p[1])
    <3>1. CASE status[p] # "none"
      BY <1>1, <3>1 DEF Notified
    <3>2. CASE status[p] = "none"
      <4>1. PICK m \in Matchers : Queue(m, p)
        BY <1>1, <1>4, <3>2, NewRow
      <4> QED
        BY <1>1, <4>1 DEF Queue, Planned
    <3> QED
      BY <3>1, <3>2
  <2> QED
    BY <1>2, <2>1 DEF Msgs
<1> QED
  BY <1>3, <1>4 DEF Planned, Notified, M!Activated

\* Whoever is being cut off stays blocked, unless they leave meanwhile.
LEMMA CuttingOffStep ==
  ASSUME MemberInv, [Next]_vars
  PROVE  CuttingOff'
<1> SUFFICES ASSUME NEW d \in Drains, dpc'[d] = "stop_subs"
             PROVE  users'[cur'[d][1]] = "blocked" \/ sub'[cur'[d][1]] = "none"
  BY DEF CuttingOff
<1>1. TypeOK /\ InHand /\ HeldInv /\ SafeInv /\ Notified /\ CuttingOff
  BY DEF MemberInv, SafeInv, TypeInv
<1>2. CASE StopUserStatus(d)
  <2>1. cur[d] \in Msgs
    BY <1>1, <1>2 DEF StopUserStatus, InHand
  <2>2. users'[cur[d][1]] = "blocked" /\ cur' = cur
    BY <1>1, <1>2, <2>1 DEF StopUserStatus, TypeOK, Msgs
  <2> QED
    BY <2>2
<1>3. CASE ~StopUserStatus(d)
  <2>1. dpc[d] = "stop_subs" /\ cur'[d] = cur[d]
    <3>1. ASSUME NEW e \in Drains, DrainStep(e) \/ DrainCrash(e)
          PROVE  dpc[d] = "stop_subs" /\ cur'[d] = cur[d]
      <4>1. CASE e = d
        <5>1. CASE \E p \in Msgs : SkipGone(d, p)
          BY <1>1, <5>1 DEF SkipGone, TypeOK
        <5>2. CASE \E p \in Msgs : Send(d, p)
          BY <1>1, <5>2 DEF Send, TypeOK
        <5>3. CASE Claim(d) \/ Fetch(d)
          BY <1>1, <5>3 DEF Claim, Fetch, TypeOK
        <5>4. CASE ApplySent(d) \/ ApplyFailed(d) \/ ApplyRetry(d) \/ ApplyGone(d)
          BY <1>1, <5>4 DEF ApplySent, ApplyFailed, ApplyRetry, ApplyGone, NextRow, TypeOK
        <5>5. CASE StopUserSubscriptions(d) \/ StopUserQueued(d)
          BY <1>1, <5>5 DEF StopUserSubscriptions, StopUserQueued, TypeOK
        <5>6. CASE DrainDone(d) \/ DrainCrash(d)
          BY <1>1, <5>6 DEF DrainDone, DrainCrash, Forget, TypeOK
        <5> QED
          BY <1>3, <3>1, <4>1, <5>1, <5>2, <5>3, <5>4, <5>5, <5>6 DEF DrainStep
      <4>2. CASE e # d
        BY <1>1, <3>1, <4>2
           DEF DrainStep, Claim, Fetch, SkipGone, Send, ApplySent, ApplyFailed, ApplyRetry,
               NextRow, StopUserStatus, StopUserSubscriptions, StopUserQueued, ApplyGone,
               DrainDone, DrainCrash, Forget, TypeOK
      <4> QED
        BY <4>1, <4>2
    <3>2. ASSUME NEW u \in Users, Subscribe(u) \/ Start(u) \/ Stop(u) \/ ToggleBot(u)
          PROVE  UNCHANGED <<dpc, cur>>
      BY <3>2 DEF Subscribe, Start, Stop, ToggleBot, drainVars
    <3>3. ASSUME NEW m \in Matchers, MatchStep(m) \/ MatcherCrash(m)
          PROVE  UNCHANGED <<dpc, cur>>
      BY <3>3 DEF MatchStep, FindNew, InsertListing, ReadSubscriptions, ReadTally,
                  CapReached, AlreadyNotified, Queue, ForeignKeyFailure, MatchDone,
                  MatcherCrash, drainVars
    <3>4. UNCHANGED vars \/ Midnight => UNCHANGED <<dpc, cur>>
      BY DEF vars, Midnight, drainVars
    <3> QED
      BY <3>1, <3>2, <3>3, <3>4 DEF Next
  <2> DEFINE u == cur[d][1]
  <2>2. u \in Users /\ M!Activated(u)
    BY <1>1, <2>1 DEF InHand, HeldInv, Notified, Msgs
  <2>3. users[u] = "blocked" \/ sub[u] = "none"
    BY <1>1, <2>1 DEF CuttingOff
  <2> HIDE DEF u
  <2>4. CASE sub[u] = "none"
    BY <1>1, <2>1, <2>2, <2>4, FilterStaysGone DEF u
  <2>5. CASE users[u] = "blocked"
    <3>1. ASSUME NEW v \in Users, Subscribe(v) \/ Start(v) \/ Stop(v) \/ ToggleBot(v)
          PROVE  users'[u] = "blocked" \/ sub'[u] = "none"
      <4>1. CASE Subscribe(v)
        BY <1>1, <2>2, <2>5, <4>1 DEF Subscribe, TypeOK
      <4>2. CASE Start(v)
        BY <1>1, <2>2, <2>5, <4>2 DEF Start, TypeOK
      <4>3. CASE Stop(v)
        BY <1>1, <2>2, <2>5, <4>3 DEF Stop, TypeOK
      <4>4. CASE ToggleBot(v)
        BY <2>5, <4>4 DEF ToggleBot, webVars
      <4> QED
        BY <3>1, <4>1, <4>2, <4>3, <4>4
    <3>2. ASSUME NEW m \in Matchers, MatchStep(m) \/ MatcherCrash(m)
          PROVE  users' = users
      BY <3>2 DEF MatchStep, FindNew, InsertListing, ReadSubscriptions, ReadTally,
                  CapReached, AlreadyNotified, Queue, ForeignKeyFailure, MatchDone,
                  MatcherCrash, webVars
    <3>3. ASSUME NEW e \in Drains, DrainStep(e) \/ DrainCrash(e)
          PROVE  users' = users \/ users' = [users EXCEPT ![cur[e][1]] = "blocked"]
      BY <3>3 DEF DrainStep, Claim, Fetch, SkipGone, Send, ApplySent, ApplyFailed,
                  ApplyRetry, StopUserStatus, StopUserSubscriptions, StopUserQueued,
                  ApplyGone, DrainDone, DrainCrash, webVars
    <3>4. UNCHANGED vars \/ Midnight => users' = users
      BY DEF vars, webVars, Midnight
    <3> QED
      BY <1>1, <2>1, <2>2, <2>5, <3>1, <3>2, <3>3, <3>4 DEF u, Next, TypeOK
  <2> QED
    BY <2>3, <2>4, <2>5
<1> QED
  BY <1>2, <1>3

LEMMA MemberAlways == Spec => []MemberInv
<1>1. Init => MemberInv
  <2>1. Init => Planned /\ Notified /\ CuttingOff
    BY DEF Init, Planned, Notified, CuttingOff
  <2> QED
    BY <2>1, SafeInit DEF MemberInv
<1>2. MemberInv /\ [Next]_vars => MemberInv'
  BY SafeStep, PlannedStep, CuttingOffStep DEF MemberInv
<1> QED
  BY <1>1, <1>2, PTL DEF Spec

\* Each step is a step of Membership or leaves people and filters alone.
LEMMA MembershipStep == MemberInv /\ [Next]_vars => [M!MNext]_(M!mvars)
<1> SUFFICES ASSUME MemberInv, [Next]_vars PROVE [M!MNext]_(M!mvars)
  OBVIOUS
<1> USE DEF M!mvars
<1>1. TypeOK /\ RowsInv /\ InHand /\ HeldInv /\ Notified /\ CuttingOff
  BY DEF MemberInv, SafeInv, TypeInv
<1>2. ASSUME NEW u \in Users, Subscribe(u) PROVE M!Join(u)
  BY <1>2 DEF Subscribe, M!Join
<1>3. ASSUME NEW u \in Users, Start(u) PROVE M!Activate(u)
  BY <1>3 DEF Start, M!Activate
<1>4. ASSUME NEW u \in Users, Stop(u) PROVE M!Leave(u)
  BY <1>4 DEF Stop, M!Leave, M!Activated
<1>5. ASSUME NEW d \in Drains,
             StopUserStatus(d) \/ StopUserSubscriptions(d)
      PROVE  cur[d][1] \in Users /\ M!Activated(cur[d][1])
  BY <1>1, <1>5 DEF StopUserStatus, StopUserSubscriptions, InHand, HeldInv, Notified, Msgs
<1>6. ASSUME NEW d \in Drains, StopUserStatus(d) PROVE M!CutOff(cur[d][1])
  BY <1>5, <1>6 DEF StopUserStatus, M!CutOff
<1>7. ASSUME NEW d \in Drains, StopUserSubscriptions(d)
      PROVE  M!Deactivate(cur[d][1]) \/ UNCHANGED <<users, sub>>
  <2>1. /\ dpc[d] = "stop_subs" /\ users' = users /\ cur[d][1] \in Users
        /\ sub' = [sub EXCEPT ![cur[d][1]] = IF @ = "none" THEN @ ELSE "inactive"]
    BY <1>5, <1>7 DEF StopUserSubscriptions, Deactivate
  <2>2. CASE sub[cur[d][1]] = "active"
    BY <1>1, <2>1, <2>2 DEF CuttingOff, M!Deactivate
  <2>3. CASE sub[cur[d][1]] \in {"none", "inactive"}
    BY <1>1, <2>1, <2>3 DEF TypeOK
  <2> QED
    BY <1>1, <2>1, <2>2, <2>3 DEF TypeOK, SubStatus
<1>8. ASSUME NEW d \in Drains, DrainStep(d) \/ DrainCrash(d),
             ~StopUserStatus(d), ~StopUserSubscriptions(d)
      PROVE  UNCHANGED <<users, sub>>
  BY <1>8 DEF DrainStep, Claim, Fetch, SkipGone, Send, ApplySent, ApplyFailed,
              ApplyRetry, StopUserQueued, ApplyGone, DrainDone, DrainCrash, webVars
<1>9. ASSUME NEW m \in Matchers, MatchStep(m) \/ MatcherCrash(m)
      PROVE  UNCHANGED <<users, sub>>
  BY <1>9 DEF MatchStep, FindNew, InsertListing, ReadSubscriptions, ReadTally,
              CapReached, AlreadyNotified, Queue, ForeignKeyFailure, MatchDone,
              MatcherCrash, webVars
<1>10. ASSUME NEW u \in Users, ToggleBot(u) PROVE UNCHANGED <<users, sub>>
  BY <1>10 DEF ToggleBot, webVars
<1>11. UNCHANGED vars \/ Midnight => UNCHANGED <<users, sub>>
  BY DEF vars, webVars, Midnight
<1>12. ASSUME NEW d \in Drains, DrainStep(d) \/ DrainCrash(d)
       PROVE  M!MNext \/ UNCHANGED <<users, sub>>
  BY <1>5, <1>6, <1>7, <1>8, <1>12 DEF M!MNext
<1>13. ASSUME NEW u \in Users, Subscribe(u) \/ Start(u) \/ Stop(u) \/ ToggleBot(u)
       PROVE  M!MNext \/ UNCHANGED <<users, sub>>
  BY <1>2, <1>3, <1>4, <1>10, <1>13 DEF M!MNext
<1> QED
  BY <1>9, <1>11, <1>12, <1>13 DEF Next

\* However the runs that find recipients gone overlap and die, people are only
\* ever let go by them: every behaviour, seen through users and subscriptions, is
\* one of Membership.
THEOREM MembershipImplemented == Spec => ImplementsMembership
<1>1. Init => M!MInit
  BY DEF Init, M!MInit
<1> QED
  BY <1>1, MemberAlways, MembershipStep, PTL DEF Spec, ImplementsMembership, M!MSpec

-----------------------------------------------------------------------------
(***************************************************************************)
(* Outbox implements Delivery                                              *)
(***************************************************************************)

\* A run that was told "ok" and has not recorded it yet holds a message of which a
\* copy reached the chat.
OkInv == \A d \in Drains : dpc[d] = "result" /\ result[d] = "ok" => arrived[cur[d]] > 0

DeliveryInv == SafeInv /\ OkInv /\ (Cardinality(Drains) = 1 => SerialInv)

\* Copies are never taken back, and the answer in hand is the one of the call.
LEMMA OkStep ==
  ASSUME SafeInv, OkInv, [Next]_vars
  PROVE  OkInv'
<1>1. /\ TypeOK
      /\ \A d \in Drains : dpc[d] \notin {"idle", "claimed", "loop"} => cur[d] \in Msgs
  BY DEF SafeInv, TypeInv, InHand
<1>2. CASE Outside
  BY <1>2 DEF Outside, OkInv
<1>3. ASSUME NEW d \in Drains, DrainStep(d) \/ DrainCrash(d)
      PROVE  OkInv'
  <2>1. ASSUME NEW p \in Msgs, Send(d, p)
        PROVE  OkInv'
    <3>1. PICK r \in Results, copy \in {0, 1} :
            /\ Answer(p[1], r, copy)
            /\ result' = [result EXCEPT ![d] = r]
            /\ arrived' = [arrived EXCEPT ![p] = @ + copy]
      BY <2>1 DEF Send
    <3>2. r = "ok" => copy = 1
      BY <3>1 DEF Answer
    <3>3. \A q \in Msgs : arrived[q] \in Nat /\ arrived'[q] = IF q = p THEN arrived[q] + copy
                                                             ELSE arrived[q]
      BY <1>1, <3>1 DEF TypeOK
    <3>4. dpc' = [dpc EXCEPT ![d] = "result"] /\ cur' = [cur EXCEPT ![d] = p]
      BY <2>1 DEF Send
    <3>5. ASSUME NEW e \in Drains, dpc'[e] = "result", result'[e] = "ok"
          PROVE  arrived'[cur'[e]] > 0
      <4>1. CASE e = d
        BY <1>1, <3>1, <3>2, <3>3, <3>4, <3>5, <4>1 DEF TypeOK
      <4>2. CASE e # d
        <5>1. /\ dpc[e] = "result" /\ result[e] = "ok" /\ cur'[e] = cur[e]
              /\ cur[e] \in Msgs /\ arrived[cur[e]] > 0
          BY <1>1, <3>1, <3>4, <3>5, <4>2 DEF OkInv, TypeOK
        <5> QED
          BY <3>3, <5>1
      <4> QED
        BY <4>1, <4>2
    <3> QED
      BY <3>5 DEF OkInv
  <2>2. CASE Claim(d) \/ Fetch(d) \/ \E p \in Msgs : SkipGone(d, p)
    BY <1>1, <2>2 DEF Claim, Fetch, SkipGone, history, OkInv, TypeOK
  <2>3. CASE ApplySent(d) \/ ApplyFailed(d) \/ ApplyRetry(d) \/ ApplyGone(d)
    BY <1>1, <2>3 DEF ApplySent, ApplyFailed, ApplyRetry, ApplyGone, NextRow, history,
                      OkInv, TypeOK
  <2>4. CASE StopUserStatus(d) \/ StopUserSubscriptions(d) \/ StopUserQueued(d)
    BY <1>1, <2>4 DEF StopUserStatus, StopUserSubscriptions, StopUserQueued, history,
                      OkInv, TypeOK
  <2>5. CASE DrainDone(d) \/ DrainCrash(d)
    BY <1>1, <2>5 DEF DrainDone, DrainCrash, Forget, history, OkInv, TypeOK
  <2> QED
    BY <1>3, <2>1, <2>2, <2>3, <2>4, <2>5 DEF DrainStep
<1> QED
  BY <1>2, <1>3, Outsiders

LEMMA DeliveryAlways == Spec => []DeliveryInv
<1>1. Init => DeliveryInv
  BY SafeInit, SerialInit DEF Init, DeliveryInv, OkInv
<1>2. DeliveryInv /\ [Next]_vars => DeliveryInv'
  <2> SUFFICES ASSUME DeliveryInv, [Next]_vars PROVE DeliveryInv'
    OBVIOUS
  <2>1. SafeInv /\ OkInv
    BY DEF DeliveryInv
  <2>2. SafeInv' /\ OkInv'
    BY <2>1, SafeStep, OkStep
  <2>3. Cardinality(Drains) = 1 => SerialInv'
    BY <2>1, SingleDrain, SerialStep DEF DeliveryInv
  <2> QED
    BY <2>2, <2>3 DEF DeliveryInv
<1> QED
  BY <1>1, <1>2, PTL DEF Spec

\* What Delivery sees of a row.
LEMMA PhaseOf ==
  /\ \A s \in {"none", "queued", "sent"} : Phase(s) = s
  /\ \A s \in {"failed", "skipped"} : Phase(s) = "abandoned"
  /\ Phase("deleted") = "withdrawn"
<1>1. \A s \in {"failed", "skipped"} : Phase(s) = "abandoned"
  BY DEF Phase
<1>2. ASSUME NEW s, s \notin {"failed", "skipped", "deleted"} PROVE Phase(s) = s
  BY <1>2 DEF Phase
<1>3. Phase("deleted") = "withdrawn"
  BY DEF Phase
<1> QED
  BY <1>1, <1>2, <1>3

\* Rows whose phase stays and calls that are not made are no step of Delivery.
SamePhase(p) == Phase(status'[p]) = Phase(status[p])

LEMMA Stutters ==
  ASSUME \A p \in Msgs : SamePhase(p), UNCHANGED <<sends, arrived>>
  PROVE  UNCHANGED D!dvars
BY DEF SamePhase, D!dvars

\* Rows that are given up together.
LEMMA GivesUp ==
  ASSUME NEW S \in SUBSET Msgs,
         \A p \in S : Phase(status[p]) \in D!Settleable /\ Phase(status'[p]) = "abandoned",
         \A p \in Msgs \ S : SamePhase(p),
         UNCHANGED <<sends, arrived>>
  PROVE  D!DNext
<1>1. D!Abandon(S)
  BY DEF SamePhase, D!Abandon
<1> QED
  BY <1>1 DEF D!DNext

\* A row in a run's hand may be settled, unless /stop deleted it or the run itself
\* has given it up already.
LEMMA MaySettle ==
  ASSUME DeliveryInv, NEW p \in Msgs, status[p] # "none",
         Cardinality(Drains) = 1 => status[p] \in {"queued", "deleted", "skipped"}
  PROVE  \/ status[p] = "deleted"
         \/ Phase(status[p]) \in D!Settleable
         \/ Cardinality(Drains) = 1 /\ status[p] = "skipped"
<1>1. status[p] \in RowStatus
  BY DEF DeliveryInv, SafeInv, TypeInv, TypeOK
<1> QED
  BY <1>1, PhaseOf DEF D!Settleable, RowStatus

LEMMA MarkGivesUp ==
  ASSUME DeliveryInv, NEW p \in Msgs, status[p] # "none",
         Cardinality(Drains) = 1 => status[p] \in {"queued", "deleted", "skipped"},
         NEW s \in {"failed", "skipped"}, Mark(p, s), UNCHANGED <<sends, arrived>>
  PROVE  D!DNext \/ UNCHANGED D!dvars
<1>1. /\ \A q \in Msgs \ {p} : SamePhase(q)
      /\ status'[p] = IF status[p] = "deleted" THEN "deleted" ELSE s
  BY DEF DeliveryInv, SafeInv, TypeInv, TypeOK, Mark, SamePhase
<1>2. CASE status[p] = "deleted" \/ (Cardinality(Drains) = 1 /\ status[p] = "skipped")
  <2>1. Phase(status'[p]) = Phase(status[p])
    BY <1>1, <1>2, PhaseOf
  <2> QED
    BY <1>1, <2>1, Stutters DEF SamePhase
<1>3. CASE status[p] # "deleted" /\ Phase(status[p]) \in D!Settleable
  <2>1. Phase(status'[p]) = "abandoned"
    BY <1>1, <1>3, PhaseOf
  <2>2. {p} \in SUBSET Msgs
    OBVIOUS
  <2> QED
    BY <1>1, <1>3, <2>1, <2>2, GivesUp
<1> QED
  BY <1>2, <1>3, MaySettle

\* A call is one of the calls the attempts allow, for a message that may be offered.
LEMMA SendOffers ==
  ASSUME DeliveryInv, NEW d \in Drains, NEW p \in Msgs, Send(d, p)
  PROVE  D!DNext
<1>1. /\ TypeOK /\ HeldInv /\ CountInv
      /\ p \in held[d] /\ p[1] \notin gone[d] /\ status' = status
      /\ sends' = [sends EXCEPT ![p] = @ + 1]
  BY DEF DeliveryInv, SafeInv, TypeInv, Send, rowVars
<1>2. sends[p] < MaxAttempts
  <2>1. d \in Holders(p) /\ IsFiniteSet(Holders(p)) /\ Cardinality(Holders(p)) \in Nat
    BY <1>1, HoldersFinite DEF Holders
  <2>2. Cardinality(Holders(p)) # 0
    BY <2>1, FS_EmptySet
  <2>3. /\ sends[p] \in Nat /\ attempts[p] \in 0..MaxAttempts
        /\ sends[p] + Cardinality(Holders(p)) <= attempts[p]
    BY <1>1 DEF TypeOK, CountInv
  <2> QED
    BY <2>1, <2>2, <2>3, AttemptsAssumption
<1>3. Phase(status[p]) \in D!Offerable
  <2>1. status[p] \in RowStatus \ {"none"}
    BY <1>1 DEF TypeOK, HeldInv
  <2>2. Cardinality(Drains) = 1 => status[p] \in {"queued", "deleted"}
    BY <1>1 DEF DeliveryInv, SerialInv, HeldFresh
  <2> QED
    BY <2>1, <2>2, PhaseOf DEF D!Offerable, RowStatus
<1>4. \E copy \in {0, 1} : arrived' = [arrived EXCEPT ![p] = @ + copy]
  BY DEF Send
<1>5. D!Offer(p)
  BY <1>1, <1>2, <1>3, <1>4 DEF D!Offer
<1> QED
  BY <1>5 DEF D!DNext

\* "sent" is recorded for a message of which a copy reached the chat.
LEMMA SentSettles ==
  ASSUME DeliveryInv, NEW d \in Drains, ApplySent(d)
  PROVE  D!DNext \/ UNCHANGED D!dvars
<1> DEFINE p == cur[d]
<1>1. /\ TypeOK /\ p \in Msgs /\ status[p] # "none" /\ arrived[p] > 0
      /\ Cardinality(Drains) = 1 => status[p] \in {"queued", "deleted"}
      /\ UNCHANGED <<sends, arrived>>
      /\ status' = [status EXCEPT ![p] = IF @ = "deleted" THEN @ ELSE "sent"]
  BY DEF DeliveryInv, SafeInv, TypeInv, InHand, HeldInv, OkInv, SerialInv, HandFresh,
         ApplySent, Mark, history
<1> HIDE DEF p
<1>2. CASE status[p] = "deleted"
  <2>1. \A q \in Msgs : SamePhase(q)
    BY <1>1, <1>2 DEF SamePhase, TypeOK
  <2> QED
    BY <1>1, <2>1, Stutters
<1>3. CASE status[p] # "deleted"
  <2>1. Phase(status[p]) \in D!Settleable
    BY <1>1, <1>3, MaySettle
  <2>2. \A q \in Msgs : Phase(status'[q]) = IF q = p THEN "sent" ELSE Phase(status[q])
    BY <1>1, <1>3, PhaseOf DEF TypeOK
  <2>3. D!SettleSent(p)
    BY <1>1, <2>1, <2>2 DEF D!SettleSent
  <2> QED
    BY <1>1, <2>3 DEF D!DNext
<1> QED
  BY <1>2, <1>3

\* Each step of a delivering run.
LEMMA DrainDelivers ==
  ASSUME DeliveryInv, NEW d \in Drains, DrainStep(d) \/ DrainCrash(d)
  PROVE  D!DNext \/ UNCHANGED D!dvars
<1>1. /\ TypeOK /\ HeldInv
      /\ dpc[d] \notin {"idle", "claimed", "loop"} => cur[d] \in Msgs /\ status[cur[d]] # "none"
      /\ Cardinality(Drains) = 1 => HeldFresh(d) /\ HandFresh(d)
  BY DEF DeliveryInv, SafeInv, TypeInv, InHand, HeldInv, SerialInv
<1>2. ASSUME NEW p \in Msgs, SkipGone(d, p) PROVE D!DNext \/ UNCHANGED D!dvars
  <2>1. /\ p \in held[d] /\ Mark(p, "skipped") /\ UNCHANGED <<sends, arrived>>
    BY <1>2 DEF SkipGone, history
  <2>2. /\ status[p] # "none"
        /\ Cardinality(Drains) = 1 => status[p] \in {"queued", "deleted", "skipped"}
    BY <1>1, <2>1 DEF HeldInv, HeldFresh
  <2> QED
    BY <2>1, <2>2, MarkGivesUp
<1>3. CASE ApplyFailed(d) \/ ApplyGone(d)
  <2>1. /\ dpc[d] \in {"result", "stop_mark"}
        /\ Mark(cur[d], "failed") /\ UNCHANGED <<sends, arrived>>
    BY <1>3 DEF ApplyFailed, ApplyGone, history
  <2>2. /\ cur[d] \in Msgs /\ status[cur[d]] # "none"
        /\ Cardinality(Drains) = 1 => status[cur[d]] \in {"queued", "deleted", "skipped"}
    BY <1>1, <2>1 DEF HandFresh
  <2> QED
    BY <2>1, <2>2, MarkGivesUp
<1>4. CASE StopUserQueued(d)
  <2> DEFINE S == {p \in Msgs : p[1] = cur[d][1] /\ status[p] = "queued"}
  <2>1. /\ UNCHANGED <<sends, arrived>>
        /\ \A p \in Msgs : status'[p] = IF p \in S THEN "skipped" ELSE status[p]
    BY <1>4 DEF StopUserQueued, SkipQueued, history
  <2>2. S \in SUBSET Msgs /\ \A p \in S : status[p] = "queued"
    OBVIOUS
  <2> HIDE DEF S
  <2>3. \A p \in S : Phase(status[p]) \in D!Settleable /\ Phase(status'[p]) = "abandoned"
    BY <2>1, <2>2, PhaseOf DEF D!Settleable
  <2>4. \A p \in Msgs \ S : SamePhase(p)
    BY <2>1 DEF SamePhase
  <2> QED
    BY <2>1, <2>2, <2>3, <2>4, GivesUp
<1>5. CASE \/ Claim(d) \/ Fetch(d) \/ ApplyRetry(d) \/ StopUserStatus(d)
           \/ StopUserSubscriptions(d) \/ DrainDone(d) \/ DrainCrash(d)
  <2>1. UNCHANGED <<status, sends, arrived>>
    BY <1>5 DEF Claim, Fetch, ApplyRetry, LeaveQueued, StopUserStatus,
                StopUserSubscriptions, DrainDone, DrainCrash, rowVars, history
  <2> QED
    BY <2>1, Stutters DEF SamePhase
<1> QED
  BY <1>2, <1>3, <1>4, <1>5, SendOffers, SentSettles DEF DrainStep

\* Matching, /stop and everything else insert and withdraw rows.
LEMMA DeliveryStep == DeliveryInv /\ [Next]_vars => [D!DNext]_(D!dvars)
<1> SUFFICES ASSUME DeliveryInv, [Next]_vars PROVE D!DNext \/ UNCHANGED D!dvars
  OBVIOUS
<1>1. SafeInv /\ TypeOK
  BY DEF DeliveryInv, SafeInv, TypeInv
<1>2. ASSUME NEW m \in Matchers, NEW p \in Msgs, Queue(m, p) PROVE D!DNext
  <2>1. /\ status[p] = "none" /\ status' = [status EXCEPT ![p] = "queued"]
        /\ UNCHANGED <<sends, arrived>>
    BY <1>1, <1>2, QueueIsFirst DEF Queue, history
  <2>2. /\ Phase(status[p]) = "none"
        /\ \A q \in Msgs : Phase(status'[q]) = IF q = p THEN "queued" ELSE Phase(status[q])
    BY <1>1, <2>1, PhaseOf DEF TypeOK
  <2>3. D!Enqueue(p)
    BY <2>1, <2>2 DEF D!Enqueue
  <2> QED
    BY <2>3 DEF D!DNext
<1>3. ASSUME NEW m \in Matchers, MatchStep(m) \/ MatcherCrash(m),
             ~ \E p \in Msgs : Queue(m, p)
      PROVE  UNCHANGED D!dvars
  <2>1. UNCHANGED <<status, sends, arrived>>
    BY <1>3 DEF MatchStep, FindNew, InsertListing, ReadSubscriptions, ReadTally,
                CapReached, AlreadyNotified, ForeignKeyFailure, MatchDone,
                MatcherCrash, rowVars, history
  <2> QED
    BY <2>1, Stutters DEF SamePhase
<1>4. ASSUME NEW u \in Users, Stop(u) PROVE D!DNext
  <2> DEFINE S == {p \in Msgs : p[1] = u /\ status[p] = "queued"}
  <2>1. /\ UNCHANGED <<sends, arrived>>
        /\ \A p \in Msgs : status'[p] = IF p \in S THEN "deleted" ELSE status[p]
    BY <1>4 DEF Stop, history
  <2>2. S \in SUBSET Msgs /\ \A p \in S : status[p] = "queued"
    OBVIOUS
  <2> HIDE DEF S
  <2>3. /\ \A p \in S : Phase(status[p]) = "queued"
        /\ \A p \in Msgs : Phase(status'[p]) = IF p \in S THEN "withdrawn" ELSE Phase(status[p])
    BY <2>1, <2>2, PhaseOf
  <2>4. D!Withdraw(S)
    BY <2>1, <2>2, <2>3 DEF D!Withdraw
  <2> QED
    BY <2>2, <2>4 DEF D!DNext
<1>5. ASSUME NEW u \in Users, Subscribe(u) \/ Start(u) \/ ToggleBot(u)
      PROVE  UNCHANGED D!dvars
  <2>1. UNCHANGED <<status, sends, arrived>>
    BY <1>5 DEF Subscribe, Start, ToggleBot, rowVars, history
  <2> QED
    BY <2>1, Stutters DEF SamePhase
<1>6. CASE UNCHANGED vars \/ Midnight
  <2>1. UNCHANGED <<status, sends, arrived>>
    BY <1>6 DEF vars, Midnight, rowVars, history
  <2> QED
    BY <2>1, Stutters DEF SamePhase
<1> QED
  BY <1>2, <1>3, <1>4, <1>5, <1>6, DrainDelivers DEF Next

\* The outbox implements Delivery: whatever number of runs claim the same rows and
\* wherever they die, no message is offered beyond the limit, recorded as sent
\* without a copy in the chat, or put back once it is settled or withdrawn; and
\* where one run delivers, what is settled is final and not offered again.
THEOREM DeliveryImplemented == Spec => ImplementsDelivery
<1>1. Init => D!DInit
  BY PhaseOf DEF Init, D!DInit
<1> QED
  BY <1>1, DeliveryAlways, DeliveryStep, PTL DEF Spec, ImplementsDelivery, D!DSpec
=============================================================================
