---------------------------- MODULE OutboxProofs ----------------------------
(***************************************************************************)
(* Proofs about Outbox, for any number of people, listings and runs, any   *)
(* attempt limit, batch and cap, and any number of process deaths; and, in *)
(* the second half, of what holds only when one run delivers at a time.    *)
(***************************************************************************)
EXTENDS Outbox, TLAPS, FiniteSetTheorems

-----------------------------------------------------------------------------
(***************************************************************************)
(* Types                                                                   *)
(***************************************************************************)

\* A drain that waits for an answer, or deals with one, has a row in hand.
InHand ==
  \A d \in Drains : dpc[d] \notin {"idle", "claimed", "loop"} => cur[d] \in Msgs

TypeInv == TypeOK /\ InHand

\* The day's tally is a number: only finitely many rows exist.
LEMMA TallyType ==
  ASSUME TypeOK, NEW u \in Users
  PROVE  SentToday(u) \in Nat
<1> DEFINE S == {p \in today : p[1] = u /\ status[p] \in {"queued", "sent"}}
<1>1. IsFiniteSet(Msgs)
  BY FiniteAssumption, FS_Product DEF Msgs
<1>2. S \in SUBSET Msgs
  BY DEF TypeOK
<1>3. IsFiniteSet(S)
  BY <1>1, <1>2, FS_Subset
<1> QED
  BY <1>3, FS_CardinalityType DEF SentToday

\* The types hold at the start.
LEMMA TypeInit == Init => TypeInv
<1> USE AttemptsAssumption, BoundsAssumption
<1> SUFFICES ASSUME Init PROVE TypeInv
  OBVIOUS
<1>1. TypeOK
  BY DEF Init, TypeOK, UserStatus, SubStatus, RowStatus, MatchPc, DrainPc, Results
<1>2. InHand
  BY DEF Init, InHand
<1> QED
  BY <1>1, <1>2 DEF TypeInv

\* Midnight keeps the types.
LEMMA TypeMidnight == TypeInv /\ Midnight => TypeInv'
BY BoundsAssumption
   DEF TypeInv, InHand, TypeOK, Midnight, webVars, matchVars, drainVars, history

\* Each step of the web app and of the person keeps the types.
LEMMA TypeWeb ==
  ASSUME TypeInv, NEW u \in Users,
         Subscribe(u) \/ Start(u) \/ Stop(u) \/ ToggleBot(u)
  PROVE  TypeInv'
<1> USE DEF TypeInv
<1>1. InHand'
  BY DEF InHand, Subscribe, Start, Stop, ToggleBot, drainVars
<1>2. CASE Subscribe(u)
  BY <1>1, <1>2 DEF Subscribe, TypeOK, UserStatus, SubStatus,
                    rowVars, matchVars, drainVars, worldVars, history
<1>3. CASE Start(u)
  BY <1>1, <1>3 DEF Start, TypeOK, UserStatus,
                    rowVars, matchVars, drainVars, worldVars, history
<1>4. CASE Stop(u)
  BY <1>1, <1>4 DEF Stop, TypeOK, UserStatus, SubStatus, RowStatus,
                    matchVars, drainVars, worldVars, history
<1>5. CASE ToggleBot(u)
  BY <1>1, <1>5 DEF ToggleBot, TypeOK,
                    webVars, rowVars, matchVars, drainVars, history
<1> QED
  BY <1>2, <1>3, <1>4, <1>5

\* So does each step of a matching run.
LEMMA TypeMatch ==
  ASSUME TypeInv, NEW m \in Matchers, MatchStep(m) \/ MatcherCrash(m)
  PROVE  TypeInv'
<1> USE DEF TypeInv
<1>1. InHand'
  BY DEF InHand, MatchStep, FindNew, InsertListing, ReadSubscriptions, ReadTally,
         CapReached, AlreadyNotified, Queue, ForeignKeyFailure, MatchDone,
         MatcherCrash, drainVars
<1>2. ASSUME NEW l \in Listings, FindNew(m, l) PROVE TypeInv'
  BY <1>1, <1>2 DEF FindNew, MatchPc, webVars, rowVars, drainVars, worldVars, history, TypeOK
<1>3. CASE InsertListing(m)
  BY <1>1, <1>3 DEF InsertListing, MatchPc, webVars, rowVars, drainVars, worldVars, history, TypeOK
<1>4. CASE ReadSubscriptions(m)
  BY <1>1, <1>4, WantsAssumption DEF ReadSubscriptions, MatchPc, webVars, rowVars, drainVars, worldVars, history, Msgs, TypeOK
<1>5. CASE ReadTally(m)
  BY <1>1, <1>5, TallyType DEF ReadTally, MatchPc, webVars, rowVars, drainVars, worldVars, history, TypeOK
<1>6. ASSUME NEW p \in Msgs, CapReached(m, p) PROVE TypeInv'
  BY <1>1, <1>6 DEF CapReached, webVars, rowVars, drainVars, worldVars, history, Msgs, TypeOK
<1>7. ASSUME NEW p \in Msgs, AlreadyNotified(m, p) PROVE TypeInv'
  BY <1>1, <1>7 DEF AlreadyNotified, webVars, rowVars, drainVars, worldVars, history, TypeOK
<1>8. ASSUME NEW p \in Msgs, Queue(m, p) PROVE TypeInv'
  BY <1>1, <1>8, AttemptsAssumption DEF Queue, RowStatus, webVars, drainVars, worldVars, history, Msgs, TypeOK
<1>9. ASSUME NEW p \in Msgs, ForeignKeyFailure(m, p) PROVE TypeInv'
  BY <1>1, <1>9 DEF ForeignKeyFailure, MatchPc, webVars, rowVars, drainVars, worldVars, history, TypeOK
<1>10. CASE MatchDone(m)
  BY <1>1, <1>10 DEF MatchDone, MatchPc, webVars, rowVars, drainVars, worldVars, history, TypeOK
<1>11. CASE MatcherCrash(m)
  BY <1>1, <1>11, BoundsAssumption DEF MatcherCrash, MatchPc, webVars, rowVars, drainVars, history, TypeOK
<1> QED
  BY <1>2, <1>3, <1>4, <1>5, <1>6, <1>7, <1>8, <1>9, <1>10, <1>11
     DEF MatchStep

\* And each step of a delivering run.
LEMMA TypeDrain ==
  ASSUME TypeInv, NEW d \in Drains, DrainStep(d) \/ DrainCrash(d)
  PROVE  TypeInv'
<1> USE DEF TypeInv
<1>1. InHand'
  <2> SUFFICES ASSUME NEW e \in Drains,
                      dpc'[e] \notin {"idle", "claimed", "loop"}
               PROVE  cur'[e] \in Msgs
    BY DEF InHand
  <2>1. CASE \E p \in Msgs : Send(d, p) \/ SkipGone(d, p)
    BY <2>1 DEF InHand, TypeOK, Send, SkipGone
  <2>2. CASE StopUserStatus(d) \/ StopUserSubscriptions(d) \/ StopUserQueued(d)
    BY <2>2 DEF InHand, TypeOK, StopUserStatus, StopUserSubscriptions, Deactivate, StopUserQueued
  <2>3. CASE Claim(d) \/ Fetch(d)
    BY <2>3 DEF InHand, TypeOK, Claim, Fetch
  <2>4. CASE ApplySent(d) \/ ApplyFailed(d) \/ ApplyRetry(d) \/ ApplyGone(d)
    BY <2>4 DEF InHand, TypeOK, ApplySent, ApplyFailed, ApplyRetry, ApplyGone, NextRow
  <2>5. CASE DrainDone(d) \/ DrainCrash(d)
    BY <2>5 DEF InHand, TypeOK, DrainDone, DrainCrash, Forget
  <2> QED
    BY <2>1, <2>2, <2>3, <2>4, <2>5 DEF DrainStep
<1>2. CASE Claim(d)
  BY <1>1, <1>2, AttemptsAssumption DEF Claim, Due, CountAttempts, DrainPc, webVars, matchVars, worldVars, history, TypeOK
<1>3. CASE Fetch(d)
  BY <1>1, <1>3, AttemptsAssumption DEF Fetch, DrainPc, webVars, rowVars, matchVars, worldVars, history, TypeOK
<1>4. ASSUME NEW p \in Msgs, SkipGone(d, p) PROVE TypeInv'
  BY <1>1, <1>4 DEF SkipGone, Mark, RowStatus, webVars, matchVars, worldVars, history, TypeOK
<1>5. ASSUME NEW p \in Msgs, Send(d, p) PROVE TypeInv'
  <2>1. p[1] \in Users
    BY DEF Msgs
  <2>2. /\ result' \in [Drains -> Results]
        /\ arrived' \in [Msgs -> Nat]
    <3>1. PICK r \in Results, copy \in {0, 1} :
            /\ result' = [result EXCEPT ![d] = r]
            /\ arrived' = [arrived EXCEPT ![p] = @ + copy]
      BY <1>5 DEF Send
    <3>2. copy \in Nat
      OBVIOUS
    <3> QED
      BY <2>1, <3>1, <3>2 DEF TypeOK
  <2>3. /\ sends' \in [Msgs -> Nat]
        /\ cur' \in [Drains -> Msgs \cup {NoMsg}]
        /\ held' \in [Drains -> SUBSET Msgs]
        /\ dpc' \in [Drains -> DrainPc]
    BY <1>5 DEF Send, TypeOK, DrainPc
  <2> QED
    BY <1>1, <1>5, <2>2, <2>3
       DEF Send, TypeOK, webVars, rowVars, matchVars, worldVars
<1>6. CASE ApplySent(d)
  BY <1>1, <1>6 DEF ApplySent, Mark, NextRow, DrainPc, Results, RowStatus, webVars, matchVars, worldVars, history, TypeOK
<1>7. CASE ApplyFailed(d)
  BY <1>1, <1>7 DEF ApplyFailed, Mark, NextRow, DrainPc, Results, RowStatus, webVars, matchVars, worldVars, history, TypeOK
<1>8. CASE ApplyRetry(d)
  BY <1>1, <1>8 DEF ApplyRetry, LeaveQueued, NextRow, DrainPc, Results, webVars, matchVars, worldVars, history, TypeOK
<1>9. CASE StopUserStatus(d)
  BY <1>1, <1>9 DEF StopUserStatus, InHand, Msgs, UserStatus, DrainPc, rowVars, matchVars, worldVars, history, TypeOK
<1>10. CASE StopUserSubscriptions(d)
  BY <1>1, <1>10 DEF StopUserSubscriptions, Deactivate, SubStatus, DrainPc, rowVars, matchVars, worldVars, history, TypeOK
<1>11. CASE StopUserQueued(d)
  BY <1>1, <1>11 DEF StopUserQueued, SkipQueued, RowStatus, DrainPc, webVars, matchVars, worldVars, history, TypeOK
<1>12. CASE ApplyGone(d)
  BY <1>1, <1>12 DEF ApplyGone, Mark, NextRow, DrainPc, Results, RowStatus, webVars, matchVars, worldVars, history, TypeOK
<1>13. CASE DrainDone(d)
  BY <1>1, <1>13, AttemptsAssumption DEF DrainDone, Forget, DrainPc, Results, webVars, rowVars, matchVars, worldVars, history, TypeOK
<1>14. CASE DrainCrash(d)
  BY <1>1, <1>14, BoundsAssumption, AttemptsAssumption DEF DrainCrash, Forget, DrainPc, Results, webVars, rowVars, matchVars, history, TypeOK
<1> QED
  BY <1>2, <1>3, <1>4, <1>5, <1>6, <1>7, <1>8, <1>9, <1>10, <1>11, <1>12, <1>13, <1>14
     DEF DrainStep

\* Together: every step keeps the types, and a step of no actor changes nothing.
LEMMA TypeStep == TypeInv /\ [Next]_vars => TypeInv'
<1> SUFFICES ASSUME TypeInv, [Next]_vars PROVE TypeInv'
  OBVIOUS
<1>1. CASE UNCHANGED vars
  BY <1>1 DEF TypeInv, InHand, TypeOK, vars, webVars, rowVars, matchVars,
              drainVars, worldVars, history
<1>2. CASE Midnight
  BY <1>2, TypeMidnight
<1>3. ASSUME NEW u \in Users,
             Subscribe(u) \/ Start(u) \/ Stop(u) \/ ToggleBot(u)
      PROVE  TypeInv'
  BY <1>3, TypeWeb
<1>4. ASSUME NEW m \in Matchers, MatchStep(m) \/ MatcherCrash(m)
      PROVE  TypeInv'
  BY <1>4, TypeMatch DEF MatchStep
<1>5. ASSUME NEW d \in Drains, DrainStep(d) \/ DrainCrash(d)
      PROVE  TypeInv'
  BY <1>5, TypeDrain DEF DrainStep
<1> QED
  BY <1>1, <1>2, <1>3, <1>4, <1>5 DEF Next

\* Every variable keeps its type: the attempt count in particular never passes
\* MAX_ATTEMPTS, however many runs claim the same rows.
THEOREM TypeCorrect == Spec => []TypeOK
<1>1. TypeInv => TypeOK
  BY DEF TypeInv
<1> QED
  BY TypeInit, TypeStep, <1>1, PTL DEF Spec

-----------------------------------------------------------------------------
(***************************************************************************)
(* The inductive invariant behind the safety properties                    *)
(***************************************************************************)

\* What a row says about the people and the subscriptions around it.
RowInv(p) ==
  /\ status[p] = "none" => attempts[p] = 0
  /\ status[p] # "none" => users[p[1]] # "absent" /\ p[2] \notin backlog[p[1]]
  /\ status[p] = "deleted" => sub[p[1]] = "none"
  /\ users[p[1]] = "absent" => sub[p[1]] = "none"
  /\ sub[p[1]] = "none" => status[p] # "queued"

\* The rows a run has in memory were inserted once; what it means to insert is
\* news to its subscriber.
HeldInv == \A d \in Drains, p \in Msgs : p \in held[d] \/ cur[d] = p => status[p] # "none"
TodoInv == \A m \in Matchers, p \in Msgs :
             p \in todo[m] => users[p[1]] # "absent" /\ p[2] \notin backlog[p[1]]

\* Every claim is spent on at most one call to the provider: the rows still held
\* and the calls already made stay within the attempts counted.
Holders(p) == {d \in Drains : p \in held[d]}
CountInv == \A p \in Msgs : sends[p] + Cardinality(Holders(p)) <= attempts[p]

RowsInv == \A p \in Msgs : RowInv(p)
SafeInv == TypeInv /\ RowsInv /\ HeldInv /\ TodoInv /\ CountInv

\* Most steps leave the rows and the people alone.
Tables == <<users, sub, backlog, status, attempts>>

\* A step that leaves the tables alone keeps what the rows say.
LEMMA RowsFrame == SafeInv /\ UNCHANGED Tables => RowsInv'
BY DEF SafeInv, RowsInv, RowInv, Tables

\* So do the web app's steps: the form starts from nothing, /stop takes the
\* subscription and the queued rows together.
LEMMA RowsWeb ==
  ASSUME SafeInv, NEW u \in Users,
         Subscribe(u) \/ Start(u) \/ Stop(u) \/ ToggleBot(u)
  PROVE  RowsInv'
<1> SUFFICES ASSUME NEW q \in Msgs PROVE RowInv(q)'
  BY DEF RowsInv
<1>1. q[1] \in Users /\ RowInv(q) /\ TypeOK
  BY DEF Msgs, SafeInv, TypeInv, RowsInv
<1>2. CASE Subscribe(u)
  BY <1>1, <1>2 DEF RowInv, Subscribe, TypeOK, rowVars
<1>3. CASE Start(u)
  BY <1>1, <1>3 DEF RowInv, Start, TypeOK, rowVars
<1>4. CASE Stop(u)
  BY <1>1, <1>4 DEF RowInv, Stop, TypeOK
<1>5. CASE ToggleBot(u)
  BY <1>1, <1>5 DEF RowInv, ToggleBot, webVars, rowVars
<1> QED
  BY <1>2, <1>3, <1>4, <1>5

\* The foreign key and the unique key: a row is inserted only for a subscription
\* that still exists, and then it was never there before.
LEMMA QueueIsFirst ==
  ASSUME SafeInv, NEW m \in Matchers, NEW p \in Msgs, Queue(m, p)
  PROVE  /\ status[p] = "none"
         /\ sub[p[1]] # "none"
         /\ users[p[1]] # "absent"
         /\ p[2] \notin backlog[p[1]]
  BY DEF SafeInv, TypeInv, TypeOK, RowsInv, RowInv, TodoInv, Queue, Present,
         SubscriptionExists

\* A row that is queued finds its subscription in place and is news to it.
LEMMA RowsQueue ==
  ASSUME SafeInv, NEW m \in Matchers, NEW p \in Msgs, Queue(m, p)
  PROVE  RowsInv'
<1> SUFFICES ASSUME NEW q \in Msgs PROVE RowInv(q)'
  BY DEF RowsInv
<1>1. RowInv(q) /\ TypeOK
  BY DEF SafeInv, TypeInv, RowsInv
<1>2. /\ status' = [status EXCEPT ![p] = "queued"]
      /\ attempts' = [attempts EXCEPT ![p] = 0]
      /\ UNCHANGED <<users, sub, backlog>>
  BY DEF Queue, webVars
<1> QED
  BY <1>1, <1>2, QueueIsFirst DEF RowInv, TypeOK

\* Settling a row that exists disturbs nothing.
LEMMA RowsMark ==
  ASSUME SafeInv, NEW p \in Msgs, status[p] # "none",
         NEW s \in {"sent", "failed", "skipped"}, Mark(p, s),
         UNCHANGED <<users, sub, backlog, attempts>>
  PROVE  RowsInv'
<1> SUFFICES ASSUME NEW q \in Msgs PROVE RowInv(q)'
  BY DEF RowsInv
<1>1. RowInv(q) /\ TypeOK
  BY DEF SafeInv, TypeInv, RowsInv
<1> QED
  BY <1>1 DEF RowInv, TypeOK, Mark

\* A matching run writes rows only by queueing them.
LEMMA RowsMatch ==
  ASSUME SafeInv, NEW m \in Matchers, MatchStep(m) \/ MatcherCrash(m)
  PROVE  RowsInv'
<1>1. CASE \E p \in Msgs : Queue(m, p)
  BY <1>1, RowsQueue
<1>2. CASE ~ \E p \in Msgs : Queue(m, p)
  <2>1. UNCHANGED Tables
    BY <1>2 DEF MatchStep, FindNew, InsertListing, ReadSubscriptions, ReadTally,
                CapReached, AlreadyNotified, ForeignKeyFailure, MatchDone,
                MatcherCrash, Tables, webVars, rowVars
  <2> QED
    BY <2>1, RowsFrame
<1> QED
  BY <1>1, <1>2

\* A delivering run settles rows that exist and deactivates subscriptions that do.
LEMMA RowsDrain ==
  ASSUME SafeInv, NEW d \in Drains, DrainStep(d) \/ DrainCrash(d)
  PROVE  RowsInv'
<1>1. TypeOK /\ InHand /\ HeldInv
  BY DEF SafeInv, TypeInv
<1>2. CASE Claim(d)
  <2> SUFFICES ASSUME NEW q \in Msgs PROVE RowInv(q)'
    BY DEF RowsInv
  <2>1. RowInv(q)
    BY DEF SafeInv, RowsInv
  <2>2. /\ UNCHANGED <<users, sub, backlog, status>>
        /\ status[q] = "none" => attempts'[q] = attempts[q]
    BY <1>1, <1>2 DEF Claim, CountAttempts, Due, webVars, TypeOK
  <2> QED
    BY <2>1, <2>2 DEF RowInv
<1>3. CASE \E p \in Msgs : SkipGone(d, p)
  BY <1>1, <1>3, RowsMark DEF SkipGone, HeldInv, webVars
<1>4. CASE ApplySent(d) \/ ApplyFailed(d) \/ ApplyGone(d)
  <2>1. cur[d] \in Msgs /\ status[cur[d]] # "none"
    BY <1>1, <1>4 DEF InHand, HeldInv, ApplySent, ApplyFailed, ApplyGone
  <2>2. \E s \in {"sent", "failed", "skipped"} :
          Mark(cur[d], s) /\ UNCHANGED <<users, sub, backlog, attempts>>
    BY <1>4 DEF ApplySent, ApplyFailed, ApplyGone, webVars
  <2> QED
    BY <2>1, <2>2, RowsMark
<1>5. CASE StopUserStatus(d) \/ StopUserSubscriptions(d) \/ StopUserQueued(d)
  <2> SUFFICES ASSUME NEW q \in Msgs PROVE RowInv(q)'
    BY DEF RowsInv
  <2>1. /\ cur[d] \in Msgs /\ status[cur[d]] # "none"
        /\ cur[d][1] \in Users /\ q[1] \in Users
    BY <1>1, <1>5 DEF InHand, HeldInv, Msgs, StopUserStatus,
                      StopUserSubscriptions, StopUserQueued
  <2>2. RowInv(q) /\ RowInv(cur[d])
    BY <2>1 DEF SafeInv, RowsInv
  <2>3. CASE StopUserStatus(d)
    BY <1>1, <2>1, <2>2, <2>3 DEF StopUserStatus, RowInv, TypeOK, rowVars
  <2>4. CASE StopUserSubscriptions(d)
    BY <1>1, <2>1, <2>2, <2>4 DEF StopUserSubscriptions, Deactivate, RowInv, TypeOK, rowVars
  <2>5. CASE StopUserQueued(d)
    BY <1>1, <2>1, <2>2, <2>5 DEF StopUserQueued, SkipQueued, RowInv, TypeOK, webVars
  <2> QED
    BY <1>5, <2>3, <2>4, <2>5
<1>6. CASE \/ Fetch(d) \/ ApplyRetry(d) \/ DrainDone(d) \/ DrainCrash(d)
          \/ \E p \in Msgs : Send(d, p)
  <2>1. UNCHANGED Tables
    BY <1>6 DEF Fetch, ApplyRetry, LeaveQueued, DrainDone, DrainCrash, Send,
                Tables, webVars, rowVars
  <2> QED
    BY <2>1, RowsFrame
<1> QED
  BY <1>2, <1>3, <1>4, <1>5, <1>6 DEF DrainStep

\* Together: every step keeps what the rows say.
LEMMA RowsStep == SafeInv /\ [Next]_vars => RowsInv'
<1> SUFFICES ASSUME SafeInv, [Next]_vars PROVE RowsInv'
  OBVIOUS
<1>1. CASE UNCHANGED vars \/ Midnight
  <2>1. UNCHANGED Tables
    BY <1>1 DEF vars, webVars, rowVars, Midnight, Tables
  <2> QED
    BY <2>1, RowsFrame
<1>2. CASE \E u \in Users : Subscribe(u) \/ Start(u) \/ Stop(u) \/ ToggleBot(u)
  BY <1>2, RowsWeb
<1>3. CASE \E m \in Matchers : MatchStep(m) \/ MatcherCrash(m)
  BY <1>3, RowsMatch
<1>4. CASE \E d \in Drains : DrainStep(d) \/ DrainCrash(d)
  BY <1>4, RowsDrain
<1> QED
  BY <1>1, <1>2, <1>3, <1>4 DEF Next

\* What a run holds was inserted, and stays so.
LEMMA StaysInserted ==
  ASSUME SafeInv, [Next]_vars, NEW p \in Msgs, status[p] # "none"
  PROVE  status'[p] # "none"
<1>1. TypeOK /\ InHand
  BY DEF SafeInv, TypeInv
<1>2. ASSUME NEW u \in Users, Subscribe(u) \/ Start(u) \/ Stop(u) \/ ToggleBot(u)
      PROVE  status'[p] # "none"
  BY <1>1, <1>2 DEF TypeOK, Subscribe, Start, Stop, ToggleBot, rowVars
<1>3. ASSUME NEW m \in Matchers, MatchStep(m) \/ MatcherCrash(m)
      PROVE  status'[p] # "none"
  BY <1>1, <1>3
     DEF TypeOK, MatchStep, FindNew, InsertListing, ReadSubscriptions, ReadTally,
         CapReached, AlreadyNotified, Queue, ForeignKeyFailure, MatchDone,
         MatcherCrash, rowVars
<1>4. ASSUME NEW d \in Drains, DrainStep(d) \/ DrainCrash(d)
      PROVE  status'[p] # "none"
  BY <1>1, <1>4
     DEF TypeOK, DrainStep, Claim, Fetch, SkipGone, Send, ApplySent, ApplyFailed,
         ApplyRetry, LeaveQueued, StopUserStatus, StopUserSubscriptions,
         StopUserQueued, SkipQueued, ApplyGone, DrainDone, DrainCrash, Mark, rowVars
<1> QED
  BY <1>2, <1>3, <1>4 DEF Next, Midnight, vars, rowVars

\* A row appears only when a matching run queues it.
LEMMA NewRow ==
  ASSUME SafeInv, [Next]_vars, NEW p \in Msgs, status[p] = "none", status'[p] # "none"
  PROVE  \E m \in Matchers : Queue(m, p)
<1>1. TypeOK /\ InHand /\ HeldInv
  BY DEF SafeInv, TypeInv
<1>2. ASSUME NEW u \in Users, Subscribe(u) \/ Start(u) \/ Stop(u) \/ ToggleBot(u)
      PROVE  FALSE
  BY <1>1, <1>2 DEF Subscribe, Start, Stop, ToggleBot, rowVars, TypeOK
<1>3. ASSUME NEW m \in Matchers, MatchStep(m) \/ MatcherCrash(m)
      PROVE  Queue(m, p)
  <2>1. PICK q \in Msgs : Queue(m, q)
    BY <1>3 DEF MatchStep, FindNew, InsertListing, ReadSubscriptions, ReadTally,
                CapReached, AlreadyNotified, ForeignKeyFailure, MatchDone,
                MatcherCrash, rowVars
  <2>2. q = p
    BY <1>1, <2>1 DEF Queue, TypeOK
  <2> QED
    BY <2>1, <2>2
<1>4. ASSUME NEW d \in Drains, DrainStep(d) \/ DrainCrash(d)
      PROVE  FALSE
  <2>1. CASE \E q \in Msgs : SkipGone(d, q)
    BY <1>1, <2>1 DEF SkipGone, Mark, HeldInv, TypeOK
  <2>2. CASE ApplySent(d) \/ ApplyFailed(d) \/ ApplyGone(d)
    <3>1. cur[d] \in Msgs /\ status[cur[d]] # "none"
      BY <1>1, <2>2 DEF ApplySent, ApplyFailed, ApplyGone, InHand, HeldInv
    <3> QED
      BY <1>1, <2>2, <3>1 DEF ApplySent, ApplyFailed, ApplyGone, Mark, TypeOK
  <2>3. CASE StopUserQueued(d)
    BY <1>1, <2>3 DEF StopUserQueued, SkipQueued, TypeOK
  <2> QED
    BY <1>4, <2>1, <2>2, <2>3
       DEF DrainStep, Claim, Fetch, Send, ApplyRetry, LeaveQueued, StopUserStatus,
           StopUserSubscriptions, DrainDone, DrainCrash, rowVars
<1> QED
  BY <1>2, <1>3, <1>4 DEF Next, Midnight, vars, rowVars

\* A run holds only rows that were queued when it claimed them.
LEMMA HeldStep == SafeInv /\ [Next]_vars => HeldInv'
<1> SUFFICES ASSUME SafeInv, [Next]_vars, NEW e \in Drains, NEW q \in Msgs,
                    q \in held'[e] \/ cur'[e] = q
             PROVE  status'[q] # "none"
  BY DEF HeldInv
<1>1. TypeOK /\ HeldInv /\ q # NoMsg
  BY NoMsgAssumption DEF SafeInv, TypeInv, Msgs
<1>2. (q \in held[e] \/ cur[e] = q) \/ status[q] = "queued"
  <2>1. CASE \/ UNCHANGED vars
             \/ Midnight
             \/ \E u \in Users : Subscribe(u) \/ Start(u) \/ Stop(u) \/ ToggleBot(u)
             \/ \E m \in Matchers : MatchStep(m) \/ MatcherCrash(m)
    <3>1. UNCHANGED <<held, cur>>
      BY <2>1 DEF vars, drainVars, Midnight, Subscribe, Start, Stop, ToggleBot,
                  MatchStep, FindNew, InsertListing, ReadSubscriptions,
                  ReadTally, CapReached, AlreadyNotified, Queue,
                  ForeignKeyFailure, MatchDone, MatcherCrash
    <3> QED
      BY <3>1
  <2>2. ASSUME NEW d \in Drains, DrainStep(d) \/ DrainCrash(d)
        PROVE  (q \in held[e] \/ cur[e] = q) \/ status[q] = "queued"
    <3>1. CASE Claim(d)
      BY <1>1, <3>1 DEF Claim, Due, TypeOK
    <3>2. CASE Fetch(d)
      BY <1>1, <3>2 DEF Fetch, TypeOK
    <3>3. ASSUME NEW p \in Msgs, SkipGone(d, p) \/ Send(d, p)
          PROVE  q \in held[e] \/ cur[e] = q
      <4>1. CASE SkipGone(d, p)
        BY <1>1, <4>1 DEF SkipGone, TypeOK
      <4>2. CASE Send(d, p)
        <5>1. /\ p \in held[d]
              /\ cur' = [cur EXCEPT ![d] = p]
              /\ held' = [held EXCEPT ![d] = @ \ {p}]
          BY <4>2 DEF Send
        <5> QED
          BY <1>1, <5>1 DEF TypeOK
      <4> QED
        BY <3>3, <4>1, <4>2
    <3>4. CASE ApplySent(d) \/ ApplyFailed(d) \/ ApplyRetry(d) \/ ApplyGone(d)
      BY <1>1, <3>4 DEF ApplySent, ApplyFailed, ApplyRetry, ApplyGone, NextRow, TypeOK
    <3>5. CASE StopUserStatus(d) \/ StopUserSubscriptions(d) \/ StopUserQueued(d)
      BY <1>1, <3>5 DEF StopUserStatus, StopUserSubscriptions, Deactivate, StopUserQueued, TypeOK
    <3>6. CASE DrainDone(d) \/ DrainCrash(d)
      BY <1>1, <3>6 DEF DrainDone, DrainCrash, Forget, TypeOK
    <3> QED
      BY <2>2, <3>1, <3>2, <3>3, <3>4, <3>5, <3>6 DEF DrainStep
  <2> QED
    BY <2>1, <2>2 DEF Next
<1>3. status[q] # "none"
  BY <1>1, <1>2 DEF HeldInv
<1> QED
  BY <1>3, StaysInserted

\* Only reading the subscriptions adds to what a run plans to insert, and it finds
\* subscribers that are active and rows that are news to them.
LEMMA PlannedByReading ==
  ASSUME SafeInv, [Next]_vars, NEW n \in Matchers, NEW q \in Msgs,
         q \in todo'[n], q \notin todo[n]
  PROVE  users[q[1]] = "active" /\ q[2] \notin backlog[q[1]]
<1>1. TypeOK
  BY DEF SafeInv, TypeInv
<1>2. q \in todo'[n] /\ q \notin todo[n]
  OBVIOUS
<1>3. PICK m \in Matchers : MatchStep(m) \/ MatcherCrash(m)
  <2>1. todo' # todo
    BY <1>2
  <2>2. ASSUME NEW d \in Drains, DrainStep(d) \/ DrainCrash(d) PROVE todo' = todo
    BY <2>2 DEF DrainStep, Claim, Fetch, SkipGone, Send, ApplySent,
                ApplyFailed, ApplyRetry, StopUserStatus,
                StopUserSubscriptions, StopUserQueued, ApplyGone, DrainDone,
                DrainCrash, matchVars
  <2>3. ASSUME NEW u \in Users, Subscribe(u) \/ Start(u) \/ Stop(u) \/ ToggleBot(u)
        PROVE  todo' = todo
    BY <2>3 DEF Subscribe, Start, Stop, ToggleBot, matchVars
  <2>4. UNCHANGED vars \/ Midnight => todo' = todo
    BY DEF vars, Midnight, matchVars
  <2> QED
    BY <2>1, <2>2, <2>3, <2>4 DEF Next
<1>4. ReadSubscriptions(m)
  <2>1. CASE \/ \E l \in Listings : FindNew(m, l)
             \/ InsertListing(m) \/ ReadTally(m) \/ MatchDone(m)
    BY <1>2, <2>1 DEF FindNew, InsertListing, ReadTally, MatchDone
  <2>2. ASSUME NEW p \in Msgs, CapReached(m, p) PROVE FALSE
    BY <1>1, <1>2, <2>2 DEF CapReached, TypeOK
  <2>3. ASSUME NEW p \in Msgs, AlreadyNotified(m, p) \/ Queue(m, p) PROVE FALSE
    <3>1. todo' = [todo EXCEPT ![m] = @ \ {p}]
      BY <2>3 DEF AlreadyNotified, Queue
    <3> QED
      BY <1>1, <1>2, <3>1 DEF TypeOK
  <2>4. ASSUME MatcherCrash(m) \/ \E p \in Msgs : ForeignKeyFailure(m, p) PROVE FALSE
    <3>1. todo' = [todo EXCEPT ![m] = {}]
      BY <2>4 DEF MatcherCrash, ForeignKeyFailure
    <3> QED
      BY <1>1, <1>2, <3>1 DEF TypeOK
  <2> QED
    BY <1>3, <2>1, <2>2, <2>3, <2>4 DEF MatchStep
<1> QED
  BY <1>1, <1>2, <1>4 DEF ReadSubscriptions, Eligible, TypeOK

\* A run plans to insert only what was news when it read the subscriptions, and
\* the backlog of a subscription does not grow.
LEMMA TodoStep == SafeInv /\ [Next]_vars => TodoInv'
<1> SUFFICES ASSUME SafeInv, [Next]_vars, NEW n \in Matchers, NEW q \in Msgs,
                    q \in todo'[n]
             PROVE  users'[q[1]] # "absent" /\ q[2] \notin backlog'[q[1]]
  BY DEF TodoInv
<1>1. TypeOK /\ InHand /\ q[1] \in Users
  BY DEF SafeInv, TypeInv, Msgs
<1>2. users[q[1]] # "absent" /\ q[2] \notin backlog[q[1]]
  <2>1. CASE q \in todo[n]
    BY <2>1 DEF SafeInv, TodoInv
  <2>2. CASE q \notin todo[n]
    BY <2>2, PlannedByReading
  <2> QED
    BY <2>1, <2>2
<1>3. CASE \E u \in Users : Subscribe(u) \/ Start(u) \/ Stop(u) \/ ToggleBot(u)
  <2>1. PICK u \in Users : Subscribe(u) \/ Start(u) \/ Stop(u) \/ ToggleBot(u)
    BY <1>3
  <2>2. CASE Subscribe(u)
    <3>1. /\ users[u] = "absent"
          /\ users' = [users EXCEPT ![u] = "pending"]
          /\ backlog' = [backlog EXCEPT ![u] = stored]
      BY <2>2 DEF Subscribe
    <3> QED
      BY <1>1, <1>2, <3>1 DEF TypeOK
  <2>3. CASE Start(u)
    BY <1>1, <1>2, <2>3 DEF Start, TypeOK
  <2>4. CASE Stop(u)
    BY <1>1, <1>2, <2>4 DEF Stop, TypeOK
  <2>5. CASE ToggleBot(u)
    BY <1>2, <2>5 DEF ToggleBot, webVars
  <2> QED
    BY <2>1, <2>2, <2>3, <2>4, <2>5
<1>4. CASE \E d \in Drains : StopUserStatus(d)
  BY <1>1, <1>2, <1>4 DEF StopUserStatus, InHand, Msgs, TypeOK
<1>5. CASE \/ UNCHANGED vars
           \/ Midnight
           \/ \E m \in Matchers : MatchStep(m) \/ MatcherCrash(m)
           \/ \E d \in Drains : /\ DrainStep(d) \/ DrainCrash(d)
                                /\ ~StopUserStatus(d)
  <2>1. UNCHANGED <<users, backlog>>
    BY <1>5 DEF vars, webVars, Midnight, MatchStep, FindNew, InsertListing,
                ReadSubscriptions, ReadTally, CapReached, AlreadyNotified, Queue,
                ForeignKeyFailure, MatchDone, MatcherCrash, DrainStep, Claim,
                Fetch, SkipGone, Send, ApplySent, ApplyFailed, ApplyRetry,
                StopUserSubscriptions, StopUserQueued, ApplyGone, DrainDone,
                DrainCrash
  <2> QED
    BY <1>2, <2>1
<1> QED
  BY <1>3, <1>4, <1>5 DEF Next

\* Finitely many runs hold a row.
LEMMA HoldersFinite ==
  ASSUME NEW p
  PROVE  IsFiniteSet(Holders(p)) /\ Cardinality(Holders(p)) \in Nat
<1>1. Holders(p) \in SUBSET Drains
  BY DEF Holders
<1> QED
  BY <1>1, FiniteAssumption, FS_Subset, FS_CardinalityType

\* Letting go of rows costs nothing.
LEMMA CountShrinks ==
  ASSUME SafeInv, TypeInv', UNCHANGED <<sends, attempts>>,
         \A e \in Drains : held'[e] \subseteq held[e]
  PROVE  CountInv'
<1> SUFFICES ASSUME NEW q \in Msgs
             PROVE  sends[q] + Cardinality(Holders(q)') <= attempts[q]
  BY DEF CountInv
<1>1. Holders(q)' \in SUBSET Holders(q)
  BY DEF Holders
<1>2. /\ Cardinality(Holders(q)') <= Cardinality(Holders(q))
      /\ Cardinality(Holders(q)') \in Nat
      /\ Cardinality(Holders(q)) \in Nat
  BY <1>1, HoldersFinite, FS_Subset, FS_CardinalityType
<1>3. /\ sends[q] \in Nat /\ attempts[q] \in Nat
      /\ sends[q] + Cardinality(Holders(q)) <= attempts[q]
  BY DEF SafeInv, TypeInv, TypeOK, CountInv
<1> QED
  BY <1>2, <1>3

\* One statement counts the attempt and hands out the row.
LEMMA CountClaim ==
  ASSUME SafeInv, NEW d \in Drains, Claim(d)
  PROVE  CountInv'
<1> SUFFICES ASSUME NEW q \in Msgs
             PROVE  sends'[q] + Cardinality(Holders(q)') <= attempts'[q]
  BY DEF CountInv
<1>1. PICK S \in SUBSET Msgs : /\ held' = [held EXCEPT ![d] = S]
                               /\ CountAttempts(S)
  BY DEF Claim, Due
<1>2. TypeOK /\ sends' = sends
  BY DEF SafeInv, TypeInv, Claim, history
<1>3. /\ sends[q] \in Nat /\ attempts[q] \in Nat
      /\ sends[q] + Cardinality(Holders(q)) <= attempts[q]
  BY DEF SafeInv, TypeInv, TypeOK, CountInv
<1>4. IsFiniteSet(Holders(q)) /\ Cardinality(Holders(q)) \in Nat
  BY HoldersFinite
<1>5. CASE q \in S
  <2>1. Holders(q)' = Holders(q) \cup {d}
    BY <1>1, <1>2, <1>5 DEF Holders, TypeOK
  <2>2. Cardinality(Holders(q)') <= Cardinality(Holders(q)) + 1
        /\ Cardinality(Holders(q)') \in Nat
    <3> DEFINE before == Holders(q)
    <3>1. IsFiniteSet(before) /\ Cardinality(before) \in Nat
      BY <1>4
    <3> HIDE DEF before
    <3> DEFINE old == Cardinality(before)
               new == Cardinality(before \cup {d})
    <3>2. new = IF d \in before THEN old ELSE old + 1
      BY <3>1, FS_AddElement, Zenon
    <3>3. old \in Nat
      BY <3>1
    <3> HIDE DEF old, new
    <3>4. new <= old + 1 /\ new \in Nat
      BY <3>2, <3>3
    <3> QED
      BY <2>1, <3>4 DEF before, old, new
  <2>3. attempts'[q] = attempts[q] + 1
    BY <1>1, <1>5 DEF CountAttempts
  <2>4. sends'[q] = sends[q]
    BY <1>2
  <2> HIDE DEF Holders
  <2> QED
    BY <1>3, <1>4, <2>2, <2>3, <2>4
<1>6. CASE q \notin S
  <2>1. Holders(q)' = Holders(q) \ {d}
    BY <1>1, <1>2, <1>6 DEF Holders, TypeOK
  <2>2. Cardinality(Holders(q)') <= Cardinality(Holders(q))
        /\ Cardinality(Holders(q)') \in Nat
    BY <1>4, <2>1, FS_Subset, FS_CardinalityType
  <2>3. attempts'[q] = attempts[q]
    BY <1>1, <1>6 DEF CountAttempts
  <2> QED
    BY <1>2, <1>3, <1>4, <2>2, <2>3
<1> QED
  BY <1>5, <1>6

\* A call to the provider uses up the claim of the run that makes it.
LEMMA CountSend ==
  ASSUME SafeInv, NEW d \in Drains, NEW p \in Msgs, Send(d, p)
  PROVE  CountInv'
<1> SUFFICES ASSUME NEW q \in Msgs
             PROVE  sends'[q] + Cardinality(Holders(q)') <= attempts'[q]
  BY DEF CountInv
<1>1. /\ p \in held[d]
      /\ held' = [held EXCEPT ![d] = @ \ {p}]
      /\ sends' = [sends EXCEPT ![p] = @ + 1]
      /\ attempts' = attempts
      /\ TypeOK
  BY DEF Send, rowVars, SafeInv, TypeInv
<1>2. /\ sends[q] \in Nat /\ attempts[q] \in Nat
      /\ sends[q] + Cardinality(Holders(q)) <= attempts[q]
  BY DEF SafeInv, TypeInv, TypeOK, CountInv
<1>3. IsFiniteSet(Holders(q)) /\ Cardinality(Holders(q)) \in Nat
  BY HoldersFinite
<1>4. CASE q = p
  <2>1. d \in Holders(q) /\ Holders(q)' = Holders(q) \ {d}
    BY <1>1, <1>4 DEF Holders, TypeOK
  <2>2. Cardinality(Holders(q)') = Cardinality(Holders(q)) - 1
    BY <1>3, <2>1, FS_RemoveElement
  <2>3. sends'[q] = sends[q] + 1
    BY <1>1, <1>4 DEF TypeOK
  <2> QED
    BY <1>1, <1>2, <1>3, <2>2, <2>3
<1>5. CASE q # p
  <2>1. Holders(q)' = Holders(q) /\ sends'[q] = sends[q]
    BY <1>1, <1>5 DEF Holders, TypeOK
  <2> QED
    BY <1>1, <1>2, <2>1
<1> QED
  BY <1>4, <1>5

\* A row that is queued has seen no claim and no call: resetting its attempts
\* forgets nothing.
LEMMA CountQueue ==
  ASSUME SafeInv, NEW m \in Matchers, NEW p \in Msgs, Queue(m, p)
  PROVE  CountInv'
<1> SUFFICES ASSUME NEW q \in Msgs
             PROVE  sends'[q] + Cardinality(Holders(q)') <= attempts'[q]
  BY DEF CountInv
<1>1. attempts[p] = 0 /\ TypeOK
  BY QueueIsFirst DEF SafeInv, TypeInv, RowsInv, RowInv
<1>2. attempts' = attempts
  BY <1>1 DEF Queue, TypeOK
<1>3. sends' = sends /\ held' = held
  BY DEF Queue, history, drainVars
<1>4. Holders(q)' = Holders(q)
  BY <1>3 DEF Holders
<1> QED
  BY <1>2, <1>3, <1>4 DEF SafeInv, CountInv

\* Together: the claims and calls of a row stay within its attempts.
LEMMA CountStep == SafeInv /\ [Next]_vars => CountInv'
<1> SUFFICES ASSUME SafeInv, [Next]_vars PROVE CountInv'
  OBVIOUS
<1>1. TypeOK /\ TypeInv'
  BY TypeStep DEF SafeInv, TypeInv
<1>2. CASE \E m \in Matchers, p \in Msgs : Queue(m, p)
  BY <1>2, CountQueue
<1>3. CASE \E d \in Drains : Claim(d) \/ \E p \in Msgs : Send(d, p)
  BY <1>3, CountClaim, CountSend
<1>4. ASSUME NEW d \in Drains,
             \/ Fetch(d) \/ DrainDone(d) \/ DrainCrash(d)
             \/ \E p \in Msgs : SkipGone(d, p)
      PROVE  CountInv'
  <2>1. UNCHANGED <<sends, attempts>>
    BY <1>4 DEF Fetch, DrainDone, DrainCrash, SkipGone, rowVars, history
  <2>2. \A e \in Drains : held'[e] \subseteq held[e]
    BY <1>1, <1>4 DEF Fetch, DrainDone, DrainCrash, SkipGone, Forget, TypeOK
  <2> QED
    BY <1>1, <2>1, <2>2, CountShrinks
<1>5. CASE UNCHANGED <<sends, attempts, held>>
  BY <1>1, <1>5, CountShrinks
<1>6. ASSUME NEW d \in Drains,
             \/ ApplySent(d) \/ ApplyFailed(d) \/ ApplyRetry(d) \/ ApplyGone(d)
             \/ StopUserStatus(d) \/ StopUserSubscriptions(d) \/ StopUserQueued(d)
      PROVE  UNCHANGED <<sends, attempts, held>>
  BY <1>6 DEF ApplySent, ApplyFailed, ApplyRetry, ApplyGone, StopUserStatus,
              StopUserSubscriptions, StopUserQueued, rowVars, history
<1>7. ASSUME NEW m \in Matchers, MatchStep(m) \/ MatcherCrash(m),
             ~ \E p \in Msgs : Queue(m, p)
      PROVE  UNCHANGED <<sends, attempts, held>>
  BY <1>7 DEF MatchStep, FindNew, InsertListing, ReadSubscriptions, ReadTally,
              CapReached, AlreadyNotified, ForeignKeyFailure, MatchDone,
              MatcherCrash, rowVars, history, drainVars
<1>8. ASSUME NEW u \in Users, Subscribe(u) \/ Start(u) \/ Stop(u) \/ ToggleBot(u)
      PROVE  UNCHANGED <<sends, attempts, held>>
  BY <1>8 DEF Subscribe, Start, Stop, ToggleBot, rowVars, history, drainVars
<1>9. UNCHANGED vars \/ Midnight => UNCHANGED <<sends, attempts, held>>
  BY DEF vars, Midnight, rowVars, history, drainVars
<1> QED
  BY <1>2, <1>3, <1>4, <1>5, <1>6, <1>7, <1>8, <1>9 DEF Next, DrainStep

\* The inductive invariant holds at the start.
LEMMA SafeInit == Init => SafeInv
<1> SUFFICES ASSUME Init PROVE SafeInv
  OBVIOUS
<1>1. TypeInv
  BY TypeInit
<1>2. RowsInv
  <2> SUFFICES ASSUME NEW p \in Msgs PROVE RowInv(p)
    BY DEF RowsInv
  <2>1. p[1] \in Users
    BY DEF Msgs
  <2> QED
    BY <2>1 DEF Init, RowInv
<1>3. HeldInv
  BY NoMsgAssumption DEF Init, HeldInv, Msgs
<1>4. TodoInv
  BY DEF Init, TodoInv
<1>5. CountInv
  <2> SUFFICES ASSUME NEW p \in Msgs
               PROVE  sends[p] + Cardinality(Holders(p)) <= attempts[p]
    BY DEF CountInv
  <2>1. Holders(p) = {}
    BY DEF Init, Holders
  <2>2. Cardinality(Holders(p)) = 0
    BY <2>1, FS_EmptySet
  <2> QED
    BY <2>2 DEF Init
<1> QED
  BY <1>1, <1>2, <1>3, <1>4, <1>5 DEF SafeInv

\* Every step keeps the inductive invariant.
LEMMA SafeStep == SafeInv /\ [Next]_vars => SafeInv'
BY TypeStep, RowsStep, HeldStep, TodoStep, CountStep DEF SafeInv

\* The inductive invariant holds throughout.
THEOREM Safe == Spec => []SafeInv
BY SafeInit, SafeStep, PTL DEF Spec

-----------------------------------------------------------------------------
(***************************************************************************)
(* What follows                                                            *)
(***************************************************************************)

\* The provider is called at most MAX_ATTEMPTS times for a notification, with any
\* number of overlapping delivering runs and any number of process deaths.
THEOREM SendsBoundedAlways == Spec => []SendsBounded
<1>1. SafeInv => SendsBounded
  <2> SUFFICES ASSUME SafeInv, NEW p \in Msgs
               PROVE  sends[p] <= attempts[p] /\ attempts[p] <= MaxAttempts
    BY DEF SendsBounded
  <2>1. /\ sends[p] \in Nat /\ attempts[p] \in 0..MaxAttempts
        /\ sends[p] + Cardinality(Holders(p)) <= attempts[p]
    BY DEF SafeInv, TypeInv, TypeOK, CountInv
  <2>2. Cardinality(Holders(p)) \in Nat
    BY HoldersFinite
  <2> QED
    BY <2>1, <2>2, AttemptsAssumption
<1> QED
  BY Safe, <1>1, PTL

\* After /stop nothing is queued for the person, with any number of matching runs
\* that read the subscription before it was deleted.
THEOREM StopEmptiesQueueAlways == Spec => []StopEmptiesQueue
<1>1. SafeInv => StopEmptiesQueue
  BY DEF SafeInv, RowsInv, RowInv, StopEmptiesQueue
<1> QED
  BY Safe, <1>1, PTL

\* Nobody is notified of what was stored before they subscribed.
THEOREM NoBacklogReplayAlways == Spec => []NoBacklogReplay
<1>1. SafeInv => NoBacklogReplay
  BY DEF SafeInv, RowsInv, RowInv, NoBacklogReplay
<1> QED
  BY Safe, <1>1, PTL

\* A row enters the queue once: whoever settles it, no later match and no late
\* retryable answer brings it back.
THEOREM NeverRequeuedAlways == Spec => NeverRequeued
<1> DEFINE Once == \A p \in Msgs : status'[p] = "queued" => status[p] \in {"none", "queued"}
<1>1. SafeInv /\ [Next]_vars => [Once]_status
  <2> SUFFICES ASSUME SafeInv, [Next]_vars, status' # status, NEW p \in Msgs,
                      status'[p] = "queued", status[p] # "queued"
               PROVE  status[p] = "none"
    BY Zenon
  <2>1. TypeOK
    BY DEF SafeInv, TypeInv
  <2>2. ASSUME NEW m \in Matchers, MatchStep(m) \/ MatcherCrash(m)
        PROVE  \E q \in Msgs : Queue(m, q)
    BY <2>2 DEF MatchStep, FindNew, InsertListing, ReadSubscriptions, ReadTally,
                CapReached, AlreadyNotified, ForeignKeyFailure, MatchDone,
                MatcherCrash, rowVars
  <2>3. ASSUME NEW m \in Matchers, NEW q \in Msgs, Queue(m, q)
        PROVE  status[p] = "none"
    <3>1. q = p
      BY <2>1, <2>3 DEF Queue, TypeOK
    <3> QED
      BY <2>3, <3>1, QueueIsFirst
  <2>4. ASSUME NEW d \in Drains, DrainStep(d) \/ DrainCrash(d)
        PROVE  FALSE
    <3>1. CASE \E q \in Msgs : SkipGone(d, q)
      BY <2>1, <3>1 DEF SkipGone, Mark, TypeOK
    <3>2. CASE ApplySent(d) \/ ApplyFailed(d) \/ ApplyGone(d)
      BY <2>1, <3>2 DEF ApplySent, ApplyFailed, ApplyGone, Mark, TypeOK
    <3>3. CASE StopUserQueued(d)
      BY <2>1, <3>3 DEF StopUserQueued, SkipQueued, TypeOK
    <3> QED
      BY <2>4, <3>1, <3>2, <3>3
         DEF DrainStep, Claim, Fetch, Send, ApplyRetry, LeaveQueued,
             StopUserStatus, StopUserSubscriptions, DrainDone, DrainCrash, rowVars
  <2>5. ASSUME NEW u \in Users, Subscribe(u) \/ Start(u) \/ Stop(u) \/ ToggleBot(u)
        PROVE  FALSE
    BY <2>1, <2>5 DEF Subscribe, Start, Stop, ToggleBot, TypeOK, rowVars
  <2> QED
    BY <2>2, <2>3, <2>4, <2>5 DEF Next, Midnight, vars, rowVars
<1> QED
  BY Safe, <1>1, PTL DEF Spec, NeverRequeued

-----------------------------------------------------------------------------
(***************************************************************************)
(* One delivering run at a time, as it is where the job's lock and the     *)
(* workflow's concurrency group hold                                       *)
(***************************************************************************)

OneDrain == \A d, e \in Drains : d = e
OneMatcher == \A m, n \in Matchers : m = n

\* If the delivering runs number one, there is no second.
LEMMA SingleDrain ==
  ASSUME Cardinality(Drains) = 1
  PROVE  OneDrain
<1>1. IsFiniteSet(Drains)
  BY FiniteAssumption
<1>2. PICK x : x \in Drains
  BY <1>1, FS_EmptySet
<1>3. Cardinality(Drains \ {x}) = 0 /\ IsFiniteSet(Drains \ {x})
  BY <1>1, <1>2, FS_RemoveElement
<1>4. Drains \ {x} = {}
  BY <1>3, FS_EmptySet
<1> QED
  BY <1>4 DEF OneDrain

-----------------------------------------------------------------------------
(***************************************************************************)
(* Steps of everybody but the delivering run                               *)
(***************************************************************************)

\* They leave the run alone, and do no more to rows than insert and withdraw them.
Outside ==
  /\ UNCHANGED <<dpc, held, gone, cur, result, sends, arrived>>
  /\ \A p \in Msgs : \/ status'[p] = status[p]
                     \/ status[p] = "none" /\ status'[p] = "queued"
                     \/ status[p] = "queued" /\ status'[p] = "deleted"

LEMMA Outsiders ==
  ASSUME SafeInv, [Next]_vars
  PROVE  Outside \/ \E d \in Drains : DrainStep(d) \/ DrainCrash(d)
<1>1. TypeOK
  BY DEF SafeInv, TypeInv
<1>2. UNCHANGED vars \/ Midnight => Outside
  BY DEF vars, Midnight, rowVars, drainVars, history, Outside
<1>3. ASSUME NEW u \in Users, Subscribe(u) \/ Start(u) \/ Stop(u) \/ ToggleBot(u)
      PROVE  Outside
  <2>1. UNCHANGED <<dpc, held, gone, cur, result, sends, arrived>>
    BY <1>3 DEF Subscribe, Start, Stop, ToggleBot, drainVars, history
  <2>2. CASE Stop(u)
    BY <1>1, <2>1, <2>2 DEF Stop, TypeOK, Outside
  <2>3. CASE Subscribe(u) \/ Start(u) \/ ToggleBot(u)
    BY <2>1, <2>3 DEF Subscribe, Start, ToggleBot, rowVars, Outside
  <2> QED
    BY <1>3, <2>2, <2>3
<1>4. ASSUME NEW m \in Matchers, MatchStep(m) \/ MatcherCrash(m)
      PROVE  Outside
  <2>1. UNCHANGED <<dpc, held, gone, cur, result, sends, arrived>>
    BY <1>4 DEF MatchStep, FindNew, InsertListing, ReadSubscriptions, ReadTally,
                CapReached, AlreadyNotified, Queue, ForeignKeyFailure, MatchDone,
                MatcherCrash, drainVars, history
  <2>2. ASSUME NEW p \in Msgs, Queue(m, p) PROVE Outside
    <3>1. status[p] = "none" /\ status' = [status EXCEPT ![p] = "queued"]
      BY <2>2, QueueIsFirst DEF Queue
    <3> QED
      BY <1>1, <2>1, <3>1 DEF TypeOK, Outside
  <2>3. CASE ~ \E p \in Msgs : Queue(m, p)
    <3>1. status' = status
      BY <1>4, <2>3 DEF MatchStep, FindNew, InsertListing, ReadSubscriptions, ReadTally,
                        CapReached, AlreadyNotified, ForeignKeyFailure, MatchDone,
                        MatcherCrash, rowVars
    <3> QED
      BY <2>1, <3>1 DEF Outside
  <2> QED
    BY <2>2, <2>3
<1> QED
  BY <1>2, <1>3, <1>4 DEF Next

-----------------------------------------------------------------------------
(***************************************************************************)
(* The rows of the one delivering run                                      *)
(***************************************************************************)

\* Until the run deals with a row nobody but /stop does, unless the run itself has
\* skipped all rows of a person it found gone; the row in hand is no longer held.
HeldFresh(d) ==
  \A p \in held[d] : \/ status[p] \in {"queued", "deleted"}
                     \/ status[p] = "skipped" /\ p[1] \in gone[d]
HandFresh(d) ==
  /\ dpc[d] \in {"result", "stop_subs", "stop_rows"} => status[cur[d]] \in {"queued", "deleted"}
  /\ dpc[d] = "stop_mark" => status[cur[d]] \in {"skipped", "deleted"}
  /\ dpc[d] \in {"stop_subs", "stop_rows", "stop_mark"} => cur[d][1] \in gone[d]
  /\ dpc[d] \notin {"idle", "claimed", "loop"} => cur[d] \notin held[d]

SerialInv == \A d \in Drains : HeldFresh(d) /\ HandFresh(d)

\* What one drain step does to the rows and to the run.
LEMMA SerialDrain ==
  ASSUME SafeInv, NEW d \in Drains, HeldFresh(d), HandFresh(d), DrainStep(d) \/ DrainCrash(d)
  PROVE  HeldFresh(d)' /\ HandFresh(d)'
<1>1. /\ TypeOK
      /\ dpc[d] \notin {"idle", "claimed", "loop"} =>
           /\ cur[d] \in Msgs /\ status[cur[d]] # "none"
           /\ cur[d] \notin held[d]
      /\ held[d] \subseteq Msgs
  BY DEF SafeInv, TypeInv, InHand, HeldInv, TypeOK, HandFresh
<1>2. CASE Claim(d)
  <2>1. /\ dpc'[d] = "claimed" /\ status' = status
        /\ \A p \in held'[d] : status[p] = "queued"
    BY <1>1, <1>2 DEF Claim, Due, TypeOK
  <2> QED
    BY <2>1 DEF HeldFresh, HandFresh
<1>3. CASE Fetch(d)
  <2>1. dpc'[d] = "loop" /\ status' = status /\ gone' = gone /\ held'[d] \subseteq held[d]
    BY <1>1, <1>3 DEF Fetch, rowVars, TypeOK
  <2> QED
    BY <2>1 DEF HeldFresh, HandFresh
<1>4. ASSUME NEW p \in Msgs, SkipGone(d, p) PROVE HeldFresh(d)' /\ HandFresh(d)'
  <2>1. /\ dpc[d] = "loop" /\ dpc' = dpc /\ gone' = gone
        /\ held'[d] = held[d] \ {p}
        /\ \A q \in Msgs : q # p => status'[q] = status[q]
    BY <1>1, <1>4 DEF SkipGone, Mark, TypeOK
  <2> QED
    BY <1>1, <2>1 DEF HeldFresh, HandFresh
<1>5. ASSUME NEW p \in Msgs, Send(d, p) PROVE HeldFresh(d)' /\ HandFresh(d)'
  <2>1. /\ p \in held[d] /\ p[1] \notin gone[d]
        /\ dpc'[d] = "result" /\ cur'[d] = p /\ held'[d] = held[d] \ {p}
        /\ status' = status /\ gone' = gone
    BY <1>1, <1>5 DEF Send, rowVars, TypeOK
  <2> QED
    BY <2>1 DEF HeldFresh, HandFresh
<1>6. CASE ApplySent(d) \/ ApplyFailed(d) \/ ApplyRetry(d) \/ ApplyGone(d)
  <2>1. dpc[d] \in {"result", "stop_mark"}
    BY <1>6 DEF ApplySent, ApplyFailed, ApplyRetry, ApplyGone
  <2>2. /\ dpc'[d] = "loop" /\ held' = held /\ gone' = gone
        /\ \A q \in Msgs : q # cur[d] => status'[q] = status[q]
    BY <1>1, <1>6 DEF ApplySent, ApplyFailed, ApplyRetry, ApplyGone, NextRow, Mark,
                      LeaveQueued, TypeOK
  <2> QED
    BY <1>1, <2>1, <2>2 DEF HeldFresh, HandFresh
<1>7. CASE StopUserStatus(d)
  <2>1. /\ dpc[d] = "result" /\ dpc'[d] = "stop_subs" /\ held' = held /\ cur' = cur
        /\ gone'[d] = gone[d] \cup {cur[d][1]} /\ status' = status
    BY <1>1, <1>7 DEF StopUserStatus, rowVars, TypeOK
  <2> QED
    BY <1>1, <2>1 DEF HeldFresh, HandFresh
<1>8. CASE StopUserSubscriptions(d)
  <2>1. /\ dpc[d] = "stop_subs" /\ dpc'[d] = "stop_rows" /\ held' = held /\ cur' = cur
        /\ gone' = gone /\ status' = status
    BY <1>1, <1>8 DEF StopUserSubscriptions, rowVars, TypeOK
  <2> QED
    BY <1>1, <2>1 DEF HeldFresh, HandFresh
<1>9. CASE StopUserQueued(d)
  <2>1. /\ dpc[d] = "stop_rows" /\ dpc'[d] = "stop_mark" /\ held' = held /\ cur' = cur
        /\ gone' = gone
        /\ \A q \in Msgs : status'[q] = IF q[1] = cur[d][1] /\ status[q] = "queued"
                                        THEN "skipped" ELSE status[q]
    BY <1>1, <1>9 DEF StopUserQueued, SkipQueued, TypeOK
  <2>2. cur[d] \in Msgs /\ cur[d] \notin held[d] /\ cur[d][1] \in gone[d]
        /\ status[cur[d]] \in {"queued", "deleted"}
    BY <1>1, <2>1 DEF HandFresh
  <2>3. HandFresh(d)'
    BY <2>1, <2>2 DEF HandFresh
  <2>4. HeldFresh(d)'
    BY <1>1, <2>1, <2>2 DEF HeldFresh
  <2> QED
    BY <2>3, <2>4
<1>10. CASE DrainDone(d) \/ DrainCrash(d)
  <2>1. dpc'[d] = "idle" /\ held'[d] = {}
    BY <1>1, <1>10 DEF DrainDone, DrainCrash, Forget, TypeOK
  <2> QED
    BY <2>1 DEF HeldFresh, HandFresh
<1> QED
  BY <1>2, <1>3, <1>4, <1>5, <1>6, <1>7, <1>8, <1>9, <1>10 DEF DrainStep

\* With no other run to disturb it, its rows stay its own.
LEMMA SerialStep ==
  ASSUME OneDrain, SafeInv, SerialInv, [Next]_vars
  PROVE  SerialInv'
<1> SUFFICES ASSUME NEW d \in Drains PROVE HeldFresh(d)' /\ HandFresh(d)'
  BY DEF SerialInv
<1>1. HeldFresh(d) /\ HandFresh(d)
  BY DEF SerialInv
<1>2. CASE Outside
  <2>1. /\ held[d] \subseteq Msgs
        /\ dpc[d] \notin {"idle", "claimed", "loop"} => cur[d] \in Msgs
    BY DEF SafeInv, TypeInv, TypeOK, InHand
  <2>2. /\ dpc' = dpc /\ held' = held /\ gone' = gone /\ cur' = cur
        /\ \A p \in Msgs : \/ status'[p] = status[p]
                           \/ status[p] = "none"
                           \/ status[p] = "queued" /\ status'[p] = "deleted"
    BY <1>2 DEF Outside
  <2>3. HeldFresh(d)'
    BY <1>1, <2>1, <2>2 DEF HeldFresh
  <2>4. HandFresh(d)'
    BY <1>1, <2>1, <2>2 DEF HandFresh
  <2> QED
    BY <2>3, <2>4
<1>3. ASSUME NEW e \in Drains, DrainStep(e) \/ DrainCrash(e)
      PROVE  HeldFresh(d)' /\ HandFresh(d)'
  <2>1. e = d
    BY DEF OneDrain
  <2> QED
    BY <1>1, <1>3, <2>1, SerialDrain
<1> QED
  BY <1>2, <1>3, Outsiders

LEMMA SerialInit == Init => SerialInv
BY DEF Init, SerialInv, HeldFresh, HandFresh

LEMMA SerialAlways ==
  ASSUME OneDrain
  PROVE  Spec => [](SafeInv /\ SerialInv)
<1>1. Init => SafeInv /\ SerialInv
  BY SafeInit, SerialInit
<1>2. SafeInv /\ SerialInv /\ [Next]_vars => (SafeInv /\ SerialInv)'
  BY SafeStep, SerialStep
<1> QED
  BY <1>1, <1>2, PTL DEF Spec

\* What the run does to a row: it settles those that wait, and only those.
LEMMA SettlesWaiting ==
  ASSUME SafeInv, NEW d \in Drains, HeldFresh(d), HandFresh(d), DrainStep(d) \/ DrainCrash(d),
         NEW p \in Msgs
  PROVE  \/ status'[p] = status[p]
         \/ status[p] = "queued" /\ status'[p] \in {"sent", "failed", "skipped"}
         \/ status[p] = "skipped" /\ status'[p] = "failed"
<1>1. /\ TypeOK
      /\ dpc[d] \notin {"idle", "claimed", "loop"} => cur[d] \in Msgs
  BY DEF SafeInv, TypeInv, InHand
<1>2. CASE \E q \in Msgs : SkipGone(d, q)
  BY <1>1, <1>2 DEF SkipGone, Mark, HeldFresh, TypeOK
<1>3. CASE ApplySent(d) \/ ApplyFailed(d) \/ ApplyGone(d)
  <2>1. /\ dpc[d] \in {"result", "stop_mark"} /\ cur[d] \in Msgs
        /\ \/ dpc[d] = "result" /\ status[cur[d]] \in {"queued", "deleted"}
           \/ ApplyGone(d) /\ status[cur[d]] \in {"skipped", "deleted"}
    BY <1>1, <1>3 DEF ApplySent, ApplyFailed, ApplyGone, HandFresh
  <2>2. \E s \in {"sent", "failed"} : Mark(cur[d], s) /\ (ApplyGone(d) => s = "failed")
    <3>1. ApplySent(d) => ~ApplyGone(d)
      BY DEF ApplySent, ApplyGone
    <3> QED
      BY <1>3, <3>1 DEF ApplySent, ApplyFailed, ApplyGone
  <2> QED
    BY <1>1, <2>1, <2>2 DEF Mark, TypeOK
<1>4. CASE StopUserQueued(d)
  BY <1>1, <1>4 DEF StopUserQueued, SkipQueued, TypeOK
<1>5. CASE \/ Claim(d) \/ Fetch(d) \/ (\E q \in Msgs : Send(d, q)) \/ ApplyRetry(d)
          \/ StopUserStatus(d) \/ StopUserSubscriptions(d) \/ DrainDone(d) \/ DrainCrash(d)
  <2>1. status' = status
    BY <1>5 DEF Claim, Fetch, Send, ApplyRetry, LeaveQueued, StopUserStatus,
                StopUserSubscriptions, DrainDone, DrainCrash, rowVars
  <2> QED
    BY <2>1
<1> QED
  BY <1>2, <1>3, <1>4, <1>5 DEF DrainStep

\* One delivering run at a time: what is recorded as sent stays recorded, whatever
\* the matchers, the people and process deaths do.
THEOREM SentIsFinalAlways ==
  ASSUME OneDrain
  PROVE  Spec => SentIsFinal
<1> DEFINE Final == \A p \in Msgs : status[p] = "sent" => status'[p] = "sent"
<1>1. SafeInv /\ SerialInv /\ [Next]_vars => [Final]_status
  <2> SUFFICES ASSUME SafeInv, SerialInv, [Next]_vars, NEW p \in Msgs, status[p] = "sent"
               PROVE  status'[p] = "sent"
    BY Zenon
  <2>1. CASE Outside
    BY <2>1 DEF Outside
  <2>2. ASSUME NEW d \in Drains, DrainStep(d) \/ DrainCrash(d)
        PROVE  status'[p] = "sent"
    BY <2>2, SettlesWaiting DEF SerialInv
  <2> QED
    BY <2>1, <2>2, Outsiders
<1> QED
  BY SerialAlways, <1>1, PTL DEF Spec, SentIsFinal

-----------------------------------------------------------------------------
(***************************************************************************)
(* At most once                                                            *)
(***************************************************************************)

\* A listing that reached its recipient is recorded as sent, or about to be, or
\* was withdrawn meanwhile; the run does not hold it any more.
InHandOk(d, p) == dpc[d] = "result" /\ result[d] = "ok" /\ cur[d] = p
OnceInv ==
  \A p \in Msgs :
    /\ arrived[p] <= 1
    /\ arrived[p] # 0 => \/ status[p] \in {"sent", "deleted"}
                         \/ status[p] = "queued" /\ \E d \in Drains : InHandOk(d, p)
    /\ \A d \in Drains : p \in held[d] => arrived[p] = 0

LEMMA OnceDrain ==
  ASSUME LostAnswers = FALSE, MaxCrashes = 0, OneDrain, SafeInv, SerialInv, OnceInv,
         NEW d \in Drains, DrainStep(d) \/ DrainCrash(d)
  PROVE  OnceInv'
<1>1. /\ TypeOK /\ HeldFresh(d) /\ HandFresh(d)
      /\ dpc[d] \notin {"idle", "claimed", "loop"} => cur[d] \in Msgs
      /\ \A e \in Drains : e = d
      /\ \A q \in Msgs : arrived[q] \in Nat
      /\ held[d] \subseteq Msgs
  BY DEF SafeInv, TypeInv, InHand, SerialInv, OneDrain, TypeOK
<1>2. ~DrainCrash(d)
  BY <1>1 DEF DrainCrash, TypeOK
<1> SUFFICES ASSUME NEW p \in Msgs
             PROVE  /\ arrived'[p] <= 1
                    /\ arrived'[p] # 0 => \/ status'[p] \in {"sent", "deleted"}
                                          \/ status'[p] = "queued" /\ InHandOk(d, p)'
                    /\ p \in held'[d] => arrived'[p] = 0
  BY <1>1 DEF OnceInv
<1>3. /\ arrived[p] <= 1
      /\ arrived[p] # 0 => \/ status[p] \in {"sent", "deleted"}
                           \/ status[p] = "queued" /\ InHandOk(d, p)
      /\ p \in held[d] => arrived[p] = 0
  BY <1>1 DEF OnceInv
<1>4. \/ status'[p] = status[p]
      \/ status[p] = "queued" /\ status'[p] \in {"sent", "failed", "skipped"}
      \/ status[p] = "skipped" /\ status'[p] = "failed"
  BY <1>1, SettlesWaiting
<1>5. CASE Claim(d)
  <2>1. /\ dpc[d] = "idle" /\ arrived' = arrived /\ status' = status
        /\ p \in held'[d] => status[p] = "queued"
    BY <1>1, <1>5 DEF Claim, Due, history, TypeOK
  <2> QED
    BY <1>3, <2>1 DEF InHandOk
<1>6. CASE Fetch(d) \/ DrainDone(d)
  <2>1. /\ dpc[d] \in {"claimed", "loop"} /\ arrived' = arrived /\ status' = status
        /\ p \in held'[d] => p \in held[d]
    BY <1>1, <1>6 DEF Fetch, DrainDone, Forget, history, rowVars, TypeOK
  <2> QED
    BY <1>3, <2>1 DEF InHandOk
<1>7. ASSUME NEW q \in Msgs, SkipGone(d, q)
      PROVE  /\ arrived'[p] <= 1
             /\ arrived'[p] # 0 => status'[p] \in {"sent", "deleted"}
             /\ p \in held'[d] => arrived'[p] = 0
  <2>1. /\ dpc[d] = "loop" /\ arrived' = arrived
        /\ p \in held'[d] => p \in held[d]
    BY <1>1, <1>7 DEF SkipGone, history, TypeOK
  <2> QED
    BY <1>3, <1>4, <2>1 DEF InHandOk
<1>8. ASSUME NEW q \in Msgs, Send(d, q)
      PROVE  /\ arrived'[p] <= 1
             /\ arrived'[p] # 0 => \/ status'[p] \in {"sent", "deleted"}
                                   \/ status'[p] = "queued" /\ InHandOk(d, p)'
             /\ p \in held'[d] => arrived'[p] = 0
  <2>1. /\ q \in held[d] /\ q[1] \notin gone[d] /\ dpc[d] = "loop"
        /\ dpc'[d] = "result" /\ cur'[d] = q /\ held'[d] = held[d] \ {q}
        /\ status' = status
    BY <1>1, <1>8 DEF Send, rowVars, TypeOK
  <2>2. PICK r \in Results, copy \in {0, 1} :
          /\ Answer(q[1], r, copy)
          /\ result' = [result EXCEPT ![d] = r]
          /\ arrived' = [arrived EXCEPT ![q] = @ + copy]
    BY <1>8 DEF Send
  <2>3. copy = 1 => result'[d] = "ok"
    BY <1>1, <2>2 DEF Answer, TypeOK
  <2>4. status[q] \in {"queued", "deleted"}
    BY <2>1, <1>1 DEF HeldFresh
  <2>5. arrived[q] = 0
    BY <1>1, <2>1 DEF OnceInv
  <2>6. CASE p = q
    <3>1. arrived'[p] = copy
      BY <1>1, <2>2, <2>5, <2>6 DEF TypeOK
    <3> QED
      BY <2>1, <2>3, <2>4, <2>6, <3>1 DEF InHandOk
  <2>7. CASE p # q
    <3>1. arrived'[p] = arrived[p]
      BY <1>1, <2>2, <2>7 DEF TypeOK
    <3> QED
      BY <1>3, <2>1, <2>7, <3>1 DEF InHandOk
  <2> QED
    BY <2>6, <2>7
<1>9. CASE ApplySent(d)
  <2>1. /\ dpc[d] = "result" /\ result[d] = "ok" /\ arrived' = arrived /\ held' = held
        /\ status' = [status EXCEPT ![cur[d]] = IF @ = "deleted" THEN @ ELSE "sent"]
    BY <1>9 DEF ApplySent, Mark, history
  <2>2. cur[d] \in Msgs
    BY <1>1, <2>1
  <2> QED
    BY <1>1, <1>3, <2>1, <2>2 DEF InHandOk, TypeOK
<1>10. CASE \/ ApplyFailed(d) \/ ApplyRetry(d) \/ ApplyGone(d)
            \/ StopUserStatus(d) \/ StopUserSubscriptions(d) \/ StopUserQueued(d)
  <2>1. /\ ~(dpc[d] = "result" /\ result[d] = "ok") /\ arrived' = arrived /\ held' = held
    BY <1>10 DEF ApplyFailed, ApplyRetry, ApplyGone, StopUserStatus,
                 StopUserSubscriptions, StopUserQueued, history
  <2> QED
    BY <1>3, <1>4, <2>1 DEF InHandOk
<1> QED
  BY <1>2, <1>5, <1>6, <1>7, <1>8, <1>9, <1>10 DEF DrainStep

\* One delivering run at a time that never dies, and no answer that is lost: nobody
\* gets the same listing twice, however the batches, /stop and the matchers fall.
THEOREM AtMostOnceAlways ==
  ASSUME OneDrain, LostAnswers = FALSE, MaxCrashes = 0
  PROVE  Spec => []AtMostOnce
<1>1. Init => OnceInv
  BY DEF Init, OnceInv
<1>2. SafeInv /\ SerialInv /\ OnceInv /\ [Next]_vars => OnceInv'
  <2> SUFFICES ASSUME SafeInv, SerialInv, OnceInv, [Next]_vars PROVE OnceInv'
    OBVIOUS
  <2>1. CASE Outside
    <3>1. \A p \in Msgs, d \in Drains : p \in held[d] => status[p] # "none"
      BY DEF SafeInv, HeldInv
    <3> QED
      BY <2>1, <3>1 DEF Outside, OnceInv, InHandOk
  <2>2. ASSUME NEW d \in Drains, DrainStep(d) \/ DrainCrash(d) PROVE OnceInv'
    BY <2>2, OnceDrain
  <2> QED
    BY <2>1, <2>2, Outsiders
<1>3. OnceInv => AtMostOnce
  BY DEF OnceInv, AtMostOnce
<1> QED
  BY SerialAlways, <1>1, <1>2, <1>3, PTL DEF Spec

-----------------------------------------------------------------------------
(***************************************************************************)
(* The daily cap                                                           *)
(***************************************************************************)

\* What sent_today counts.
Counted(u) == {p \in today : p[1] = u /\ status[p] \in {"queued", "sent"}}

\* Between the tally and the last insert nobody else adds to the day.
CapInv ==
  \A u \in Users :
    /\ SentToday(u) <= Cap
    /\ \A m \in Matchers : mpc[m] = "queue" => SentToday(u) <= tally[m][u]

LEMMA CountedFinite ==
  ASSUME TypeOK, NEW u
  PROVE  IsFiniteSet(Counted(u)) /\ SentToday(u) = Cardinality(Counted(u)) /\ SentToday(u) \in Nat
<1>1. IsFiniteSet(Msgs)
  BY FiniteAssumption, FS_Product DEF Msgs
<1>2. Counted(u) \in SUBSET Msgs
  BY DEF TypeOK, Counted
<1> QED
  BY <1>1, <1>2, FS_Subset, FS_CardinalityType DEF SentToday, Counted

\* Only queueing adds to a day.
LEMMA CountedShrinks ==
  ASSUME OneDrain, SafeInv, SerialInv, [Next]_vars,
         ~ \E m \in Matchers, p \in Msgs : Queue(m, p), NEW u
  PROVE  SentToday(u)' <= SentToday(u)
<1>1. TypeOK /\ TypeOK'
  BY SafeStep DEF SafeInv, TypeInv
<1>2. today' \subseteq today
  BY DEF Next, vars, rowVars, Midnight, Subscribe, Start, Stop, ToggleBot, MatchStep, FindNew,
         InsertListing, ReadSubscriptions, ReadTally, CapReached, AlreadyNotified,
         ForeignKeyFailure, MatchDone, MatcherCrash, DrainStep, Claim, Fetch, SkipGone,
         Send, ApplySent, ApplyFailed, ApplyRetry, StopUserStatus, StopUserSubscriptions,
         StopUserQueued, ApplyGone, DrainDone, DrainCrash
<1>3. ASSUME NEW p \in Msgs, status'[p] \in {"queued", "sent"}
      PROVE  status[p] \in {"queued", "sent"}
  <2>1. CASE Outside
    <3>1. CASE status[p] = "none"
      <4>1. status'[p] # "none"
        BY <1>3
      <4>2. \E m \in Matchers : Queue(m, p)
        BY <3>1, <4>1, NewRow
      <4> QED
        BY <4>2
    <3>2. CASE status[p] # "none"
      BY <1>3, <2>1, <3>2 DEF Outside
    <3> QED
      BY <3>1, <3>2
  <2>2. ASSUME NEW d \in Drains, DrainStep(d) \/ DrainCrash(d)
        PROVE  status[p] \in {"queued", "sent"}
    BY <1>3, <2>2, SettlesWaiting DEF SerialInv
  <2> QED
    BY <2>1, <2>2, Outsiders
<1>4. Counted(u)' \subseteq Counted(u)
  BY <1>1, <1>2, <1>3 DEF Counted, TypeOK
<1>5. IsFiniteSet(Counted(u)) /\ SentToday(u) = Cardinality(Counted(u))
  BY <1>1, CountedFinite
<1>6. SentToday(u)' = Cardinality(Counted(u)')
  BY DEF SentToday, Counted
<1> QED
  BY <1>4, <1>5, <1>6, FS_Subset

\* Queueing adds one row, to its own person.
LEMMA CountedGrows ==
  ASSUME SafeInv, NEW m \in Matchers, NEW p \in Msgs, Queue(m, p), NEW u
  PROVE  SentToday(u)' <= IF u = p[1] THEN SentToday(u) + 1 ELSE SentToday(u)
<1>1. /\ TypeOK /\ status' = [status EXCEPT ![p] = "queued"] /\ today' = today \cup {p}
  BY DEF SafeInv, TypeInv, Queue
<1>2. /\ IsFiniteSet(Counted(u)) /\ SentToday(u) = Cardinality(Counted(u)) /\ SentToday(u) \in Nat
  BY <1>1, CountedFinite
<1>3. SentToday(u)' = Cardinality(Counted(u)')
  BY DEF SentToday, Counted
<1>4. CASE u = p[1]
  <2>1. Counted(u)' \subseteq Counted(u) \cup {p}
    BY <1>1 DEF Counted, TypeOK
  <2>2. /\ IsFiniteSet(Counted(u) \cup {p})
        /\ Cardinality(Counted(u) \cup {p}) \in {Cardinality(Counted(u)), Cardinality(Counted(u)) + 1}
    BY <1>2, FS_AddElement
  <2>3. Cardinality(Counted(u)') <= Cardinality(Counted(u) \cup {p}) /\ IsFiniteSet(Counted(u)')
    BY <2>1, <2>2, FS_Subset
  <2>4. Cardinality(Counted(u)') \in Nat
    BY <2>3, FS_CardinalityType
  <2> QED
    BY <1>2, <1>3, <1>4, <2>2, <2>3, <2>4
<1>5. CASE u # p[1]
  <2>1. Counted(u)' \subseteq Counted(u)
    BY <1>1, <1>5 DEF Counted, TypeOK
  <2> QED
    BY <1>2, <1>3, <1>5, <2>1, FS_Subset
<1> QED
  BY <1>4, <1>5

LEMMA CapStep ==
  ASSUME OneDrain, OneMatcher, SafeInv, SerialInv, CapInv, [Next]_vars
  PROVE  CapInv'
<1>1. /\ TypeOK /\ TypeOK' /\ Cap \in Nat
  BY SafeStep, CapAssumption DEF SafeInv, TypeInv
<1> SUFFICES ASSUME NEW u \in Users
             PROVE  /\ SentToday(u)' <= Cap
                    /\ \A m \in Matchers : mpc'[m] = "queue" => SentToday(u)' <= tally'[m][u]
  BY DEF CapInv
<1>2. /\ SentToday(u) \in Nat /\ SentToday(u) <= Cap
      /\ \A m \in Matchers : mpc[m] = "queue" => SentToday(u) <= tally[m][u]
      /\ \A m \in Matchers : tally[m][u] \in Nat /\ tally'[m][u] \in Nat
  BY <1>1, CountedFinite DEF CapInv, TypeOK
<1>3. SentToday(u)' \in Nat
  <2>1. SentToday(u)' = Cardinality(Counted(u)')
    BY DEF SentToday, Counted
  <2>2. IsFiniteSet(Msgs) /\ Counted(u)' \in SUBSET Msgs
    BY <1>1, FiniteAssumption, FS_Product DEF Msgs, Counted, TypeOK
  <2> QED
    BY <2>1, <2>2, FS_Subset, FS_CardinalityType
<1>4. ASSUME NEW m \in Matchers, NEW p \in Msgs, Queue(m, p)
      PROVE  /\ SentToday(u)' <= Cap
             /\ \A n \in Matchers : mpc'[n] = "queue" => SentToday(u)' <= tally'[n][u]
  <2>1. /\ mpc[m] = "queue" /\ ~(tally[m][p[1]] >= Cap)
        /\ tally' = [tally EXCEPT ![m][p[1]] = @ + 1] /\ mpc' = mpc
        /\ \A n \in Matchers : n = m
    BY <1>4 DEF Queue, AtCap, OneMatcher
  <2>2. SentToday(u)' <= IF u = p[1] THEN SentToday(u) + 1 ELSE SentToday(u)
    BY <1>4, CountedGrows
  <2>3. tally'[m][u] = IF u = p[1] THEN tally[m][u] + 1 ELSE tally[m][u]
    BY <1>1, <2>1 DEF TypeOK
  <2>4. SentToday(u)' <= tally'[m][u]
    BY <1>2, <1>3, <2>1, <2>2, <2>3
  <2>5. SentToday(u)' <= Cap
    BY <1>1, <1>2, <1>3, <2>1, <2>2
  <2> QED
    BY <2>1, <2>4, <2>5
<1>5. CASE ~ \E m \in Matchers, p \in Msgs : Queue(m, p)
  <2>1. SentToday(u)' <= SentToday(u)
    BY <1>5, CountedShrinks
  <2>2. ASSUME NEW m \in Matchers, mpc'[m] = "queue"
        PROVE  SentToday(u) <= tally'[m][u]
    <3>1. CASE mpc[m] = "queue" /\ tally'[m] = tally[m]
      BY <1>2, <3>1
    <3>2. CASE ReadTally(m)
      <4>1. tally' = [tally EXCEPT ![m] = [v \in Users |-> SentToday(v)]]
        BY <3>2 DEF ReadTally
      <4>2. tally'[m][u] = SentToday(u)
        BY <1>1, <4>1 DEF TypeOK
      <4> QED
        BY <1>2, <4>2
    <3>3. \/ mpc[m] = "queue" /\ tally'[m] = tally[m]
          \/ ReadTally(m)
      <4>1. CASE MatchStep(m) \/ MatcherCrash(m)
        <5>1. CASE \/ \E l \in Listings : FindNew(m, l)
                   \/ InsertListing(m) \/ ReadSubscriptions(m) \/ MatchDone(m)
                   \/ MatcherCrash(m) \/ \E p \in Msgs : ForeignKeyFailure(m, p)
          BY <1>1, <2>2, <5>1 DEF FindNew, InsertListing, ReadSubscriptions, MatchDone,
                                  MatcherCrash, ForeignKeyFailure, TypeOK
        <5>2. CASE \E p \in Msgs : CapReached(m, p) \/ AlreadyNotified(m, p)
          BY <5>2 DEF CapReached, AlreadyNotified
        <5> QED
          BY <1>5, <4>1, <5>1, <5>2 DEF MatchStep
      <4>2. CASE mpc' = mpc /\ tally' = tally
        BY <2>2, <4>2
      <4>3. ASSUME NEW d \in Drains, DrainStep(d) \/ DrainCrash(d)
            PROVE  mpc' = mpc /\ tally' = tally
        BY <4>3 DEF DrainStep, Claim, Fetch, SkipGone, Send, ApplySent, ApplyFailed,
                    ApplyRetry, StopUserStatus, StopUserSubscriptions, StopUserQueued,
                    ApplyGone, DrainDone, DrainCrash, matchVars
      <4>4. ASSUME NEW v \in Users, Subscribe(v) \/ Start(v) \/ Stop(v) \/ ToggleBot(v)
            PROVE  mpc' = mpc /\ tally' = tally
        BY <4>4 DEF Subscribe, Start, Stop, ToggleBot, matchVars
      <4>5. UNCHANGED vars \/ Midnight => mpc' = mpc /\ tally' = tally
        BY DEF vars, Midnight, matchVars
      <4>6. ASSUME NEW n \in Matchers, MatchStep(n) \/ MatcherCrash(n)
            PROVE  MatchStep(m) \/ MatcherCrash(m)
        BY <4>6 DEF OneMatcher
      <4> QED
        BY <4>1, <4>2, <4>3, <4>4, <4>5, <4>6 DEF Next
    <3> QED
      BY <3>1, <3>2, <3>3
  <2> QED
    BY <1>1, <1>2, <1>3, <2>1, <2>2
<1> QED
  BY <1>4, <1>5

\* One matching and one delivering run at a time: a person's queued and sent rows
\* of a day stay within the cap, over any number of days, deaths and returns.
THEOREM DailyCapAlways ==
  ASSUME OneDrain, OneMatcher
  PROVE  Spec => []DailyCap
<1>1. Init => CapInv
  <2> SUFFICES ASSUME Init PROVE CapInv
    OBVIOUS
  <2>1. \A u \in Users : SentToday(u) = 0
    <3> SUFFICES ASSUME NEW u \in Users PROVE SentToday(u) = 0
      OBVIOUS
    <3>1. {p \in today : p[1] = u /\ status[p] \in {"queued", "sent"}} = {}
      BY DEF Init
    <3> QED
      BY <3>1, FS_EmptySet DEF SentToday
  <2> QED
    BY <2>1, CapAssumption DEF Init, CapInv
<1>2. SafeInv /\ SerialInv /\ CapInv /\ [Next]_vars => CapInv'
  BY CapStep
<1>3. CapInv => DailyCap
  BY DEF CapInv, DailyCap
<1> QED
  BY SerialAlways, <1>1, <1>2, <1>3, PTL DEF Spec
=============================================================================
