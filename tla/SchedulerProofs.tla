-------------------------- MODULE SchedulerProofs --------------------------
(***************************************************************************)
(* Proofs about Scheduler, for any jobs, schedules and windows, any number *)
(* of ticks and runs by hand, and any number of process deaths.            *)
(***************************************************************************)
EXTENDS Scheduler, TLAPS, FiniteSetTheorems, SequenceTheorems

\* The part of the types that the locks rest on.
LockTypes ==
  /\ lock \in [Jobs -> Procs \cup {NoOne}]
  /\ pc \in [Procs -> {"idle", "next", "quiet", "lock"} \cup Running]
  /\ DOMAIN cur = Procs

\* Whoever runs a job has its lock.
Owns == \A p \in Procs, j \in Jobs : Runs(p, j) => lock[j] = p

LockInv == LockTypes /\ Owns

\* Nobody runs anything at the start.
LEMMA LockInit == Init => LockInv
BY DEF Init, LockInv, LockTypes, Owns, Runs, Running

\* A step that starts no run and touches no lock keeps the invariant.
LEMMA OwnsFrame ==
  ASSUME Owns, UNCHANGED lock,
         \A p \in Procs : pc'[p] \in Running => pc[p] \in Running /\ cur'[p] = cur[p]
  PROVE  Owns'
BY DEF Owns, Runs

\* When p lets go of its locks it is running nothing, and nobody else is disturbed.
LEMMA OwnsUnlocked ==
  ASSUME LockInv, NEW p \in Procs,
         lock' = Unlocked(p),
         pc'[p] \notin Running,
         \A q \in Procs \ {p} : pc'[q] = pc[q] /\ cur'[q] = cur[q]
  PROVE  Owns'
<1> SUFFICES ASSUME NEW q \in Procs, NEW j \in Jobs, Runs(q, j)'
             PROVE  lock'[j] = q
  BY DEF Owns
<1>1. q # p /\ Runs(q, j)
  BY DEF Runs
<1>2. lock[j] = q
  BY <1>1 DEF LockInv, Owns
<1> QED
  BY <1>1, <1>2 DEF Unlocked

\* The lock is taken only when nobody has it: whoever else runs has another one.
LEMMA OwnsTaken ==
  ASSUME LockInv, NEW p \in Procs, TakeLock(p)
  PROVE  Owns'
<1> SUFFICES ASSUME NEW q \in Procs, NEW j \in Jobs, Runs(q, j)'
             PROVE  lock'[j] = q
  BY DEF Owns
<1>1. /\ lock' = [lock EXCEPT ![cur[p]] = p]
      /\ pc' = [pc EXCEPT ![p] = "run"]
      /\ cur' = cur
      /\ lock[cur[p]] = NoOne
  BY DEF TakeLock, LockFree
<1>2. CASE q = p
  BY <1>1, <1>2 DEF Runs, LockInv, LockTypes
<1>3. CASE q # p
  <2>1. Runs(q, j)
    BY <1>1, <1>3 DEF Runs, LockInv, LockTypes
  <2>2. lock[j] = q
    BY <2>1 DEF LockInv, Owns
  <2>3. j # cur[p]
    BY <1>1, <2>2, NobodyAssumption DEF Procs
  <2> QED
    BY <1>1, <2>2, <2>3 DEF LockInv, LockTypes
<1> QED
  BY <1>2, <1>3

\* Every step keeps the types of the locks.
LEMMA LockTypesStep == LockInv /\ [Next]_vars => LockTypes'
<1> SUFFICES ASSUME LockTypes, [Next]_vars PROVE LockTypes'
  BY DEF LockInv
<1> USE DEF LockTypes, Running
<1>1. CASE UNCHANGED vars \/ ComesDue \/ ClockTurns
  BY <1>1 DEF vars, procVars, ComesDue, ClockTurns
<1>2. ASSUME NEW p \in Tickers, Tick(p) PROVE LockTypes'
  BY <1>2 DEF Tick, Procs
<1>3. ASSUME NEW p \in Hands, NEW j \in Jobs, RunOne(p, j) PROVE LockTypes'
  BY <1>3 DEF RunOne, Procs
<1>4. ASSUME NEW p \in Procs, Claim(p) \/ ClaimedByAnother(p) PROVE LockTypes'
  BY <1>4 DEF Claim, ClaimedByAnother
<1>5. ASSUME NEW p \in Procs, QuietPause(p) \/ QuietRead(p) \/ SkipLocked(p) \/ RunJob(p)
      PROVE  LockTypes'
  BY <1>5 DEF QuietPause, QuietRead, SkipLocked, RunJob, PutDown
<1>6. ASSUME NEW p \in Procs, TakeLock(p) PROVE LockTypes'
  BY <1>6 DEF TakeLock
<1>7. ASSUME NEW p \in Procs, NothingLeft(p) \/ Raises(p) \/ Crash(p) PROVE LockTypes'
  BY <1>7 DEF NothingLeft, Raises, Crash, Exit, Unlocked
<1>8. ASSUME NEW p \in Procs, Release(p) PROVE LockTypes'
  BY <1>8 DEF Release, PutDown, Unlocked
<1> QED
  BY <1>1, <1>2, <1>3, <1>4, <1>5, <1>6, <1>7, <1>8 DEF Next, Step

\* Every step keeps the lock of a run with the run.
LEMMA OwnsStep == LockInv /\ [Next]_vars => Owns'
<1> SUFFICES ASSUME LockInv, [Next]_vars PROVE Owns'
  OBVIOUS
<1>1. LockTypes /\ Owns
  BY DEF LockInv
<1>2. CASE UNCHANGED vars \/ ComesDue \/ ClockTurns
  BY <1>1, <1>2, OwnsFrame DEF vars, procVars, ComesDue, ClockTurns
<1>3. ASSUME NEW p \in Tickers, Tick(p) PROVE Owns'
  BY <1>1, <1>3, OwnsFrame DEF Tick, LockTypes, Running
<1>4. ASSUME NEW p \in Hands, NEW j \in Jobs, RunOne(p, j) PROVE Owns'
  <2>1. \A q \in Procs : pc'[q] \in Running => pc[q] \in Running /\ cur'[q] = cur[q]
    BY <1>1, <1>4 DEF RunOne, LockTypes, Running
  <2> QED
    BY <1>1, <1>4, <2>1, OwnsFrame DEF RunOne
<1>5. ASSUME NEW p \in Procs,
             \/ Claim(p) \/ ClaimedByAnother(p) \/ NothingLeft(p)
             \/ QuietPause(p) \/ QuietRead(p) \/ SkipLocked(p) \/ RunJob(p)
      PROVE  Owns'
  <2>1. \A q \in Procs : pc'[q] \in Running => pc[q] \in Running /\ cur'[q] = cur[q]
    BY <1>1, <1>5 DEF Claim, ClaimedByAnother, NothingLeft, QuietPause, QuietRead,
                      SkipLocked, RunJob, PutDown, Exit, LockTypes, Running
  <2>2. UNCHANGED lock
    BY <1>5 DEF Claim, ClaimedByAnother, NothingLeft, QuietPause, QuietRead,
                SkipLocked, RunJob
  <2> QED
    BY <1>1, <2>1, <2>2, OwnsFrame
<1>6. ASSUME NEW p \in Procs, TakeLock(p) PROVE Owns'
  BY <1>6, OwnsTaken
<1>7. ASSUME NEW p \in Procs, Raises(p) \/ Release(p) \/ Crash(p) PROVE Owns'
  <2>1. lock' = Unlocked(p)
    BY <1>7 DEF Raises, Release, Crash
  <2>2. /\ pc'[p] \notin Running
        /\ \A q \in Procs \ {p} : pc'[q] = pc[q] /\ cur'[q] = cur[q]
    BY <1>1, <1>7 DEF Raises, Release, Crash, PutDown, Exit, LockTypes, Running
  <2> QED
    BY <2>1, <2>2, OwnsUnlocked
<1> QED
  BY <1>2, <1>3, <1>4, <1>5, <1>6, <1>7 DEF Next, Step

\* A job never runs twice at once, with any number of overlapping ticks and runs
\* by hand: a run has its job's lock from the first step to the last.
THEOREM OneRunPerJobAlways == Spec => []OneRunPerJob
<1>1. LockInv => OneRunPerJob
  BY DEF LockInv, Owns, OneRunPerJob
<1>2. LockInv /\ [Next]_vars => LockInv'
  BY LockTypesStep, OwnsStep DEF LockInv
<1> QED
  BY LockInit, <1>1, <1>2, PTL DEF Spec

-----------------------------------------------------------------------------
(***************************************************************************)
(* The agenda                                                              *)
(***************************************************************************)

\* Taking an entry out and putting it back elsewhere.
Entry(a, i, k, e, m) ==
  IF m = k THEN e
  ELSE IF m < k
  THEN IF m < i THEN a[m] ELSE a[m + 1]
  ELSE IF m - 1 < i THEN a[m - 1] ELSE a[m]

LEMMA Moved ==
  ASSUME NEW S, NEW a \in Seq(S), NEW i \in 1..Len(a), NEW k \in 1..Len(a), NEW e \in S
  PROVE  /\ InsertAt(RemoveAt(a, i), k, e) \in Seq(S)
         /\ Len(InsertAt(RemoveAt(a, i), k, e)) = Len(a)
         /\ \A m \in 1..Len(a) : InsertAt(RemoveAt(a, i), k, e)[m] = Entry(a, i, k, e, m)
<1> DEFINE n == Len(a)
           r == RemoveAt(a, i)
           b == InsertAt(r, k, e)
<1>1. n \in Nat /\ n # 0 /\ i \in 1..n /\ k \in 1..n /\ \A m \in 1..n : a[m] \in S
  BY LenProperties, ElementOfSeq
<1>2. /\ r \in Seq(S) /\ Len(r) = n - 1
      /\ \A m \in 1..(n - 1) : r[m] = IF m < i THEN a[m] ELSE a[m + 1]
  <2> DEFINE before == SubSeq(a, 1, i - 1)
             after  == SubSeq(a, i + 1, n)
  <2>1. /\ before \in Seq(S) /\ Len(before) = i - 1
        /\ \A m \in 1..(i - 1) : before[m] = a[m]
    BY <1>1, SubSeqProperties
  <2>2. /\ after \in Seq(S) /\ Len(after) = n - i
        /\ \A m \in 1..(n - i) : after[m] = a[m + i]
    BY <1>1, SubSeqProperties
  <2>3. r = before \o after
    BY DEF RemoveAt
  <2> HIDE DEF r, before, after
  <2>4. /\ r \in Seq(S) /\ Len(r) = Len(before) + Len(after)
        /\ \A m \in 1..(Len(before) + Len(after)) :
             r[m] = IF m <= Len(before) THEN before[m] ELSE after[m - Len(before)]
    BY <2>1, <2>2, <2>3, ConcatProperties
  <2> HIDE DEF n
  <2>5. Len(r) = n - 1
    BY <1>1, <2>1, <2>2, <2>4
  <2>6. ASSUME NEW m \in 1..(n - 1)
        PROVE  r[m] = IF m < i THEN a[m] ELSE a[m + 1]
    <3>1. m \in 1..(Len(before) + Len(after)) /\ m \in Int /\ i \in Int
      BY <1>1, <2>1, <2>2
    <3>2. CASE m < i
      <4>1. m \in 1..(i - 1)
        BY <3>1, <3>2
      <4> QED
        BY <2>1, <2>4, <3>1, <3>2, <4>1
    <3>3. CASE ~(m < i)
      <4>1. m - Len(before) = m - i + 1 /\ m - i + 1 \in 1..(n - i) /\ m - i + 1 + i = m + 1
        BY <1>1, <2>1, <3>1, <3>3
      <4>2. r[m] = after[m - i + 1]
        BY <1>1, <2>1, <2>4, <3>1, <3>3, <4>1
      <4>3. after[m - i + 1] = a[m - i + 1 + i]
        BY <2>2, <4>1
      <4> QED
        BY <3>3, <4>1, <4>2, <4>3
    <3> QED
      BY <3>2, <3>3
  <2> QED
    BY <2>4, <2>5, <2>6
<1> HIDE DEF r
<1>3. /\ b \in Seq(S) /\ Len(b) = n
      /\ \A m \in 1..n : b[m] = IF m = k THEN e ELSE IF m < k THEN r[m] ELSE r[m - 1]
  <2> DEFINE before == SubSeq(r, 1, k - 1)
             after  == SubSeq(r, k, n - 1)
             one    == <<e>>
             front  == before \o one
  <2>1. /\ before \in Seq(S) /\ Len(before) = k - 1
        /\ \A m \in 1..(k - 1) : before[m] = r[m]
    BY <1>1, <1>2, ElementOfSeq, SubSeqProperties
  <2>2. /\ after \in Seq(S) /\ Len(after) = n - k
        /\ \A m \in 1..(n - k) : after[m] = r[m + k - 1]
    BY <1>1, <1>2, ElementOfSeq, SubSeqProperties
  <2>3. one \in Seq(S) /\ Len(one) = 1 /\ one[1] = e
    OBVIOUS
  <2>4. b = front \o after
    BY <1>2 DEF InsertAt, r
  <2> HIDE DEF b, before, after, one
  <2>5. /\ front \in Seq(S) /\ Len(front) = Len(before) + Len(one)
        /\ \A m \in 1..(Len(before) + Len(one)) :
             front[m] = IF m <= Len(before) THEN before[m] ELSE one[m - Len(before)]
    BY <2>1, <2>3, ConcatProperties
  <2> HIDE DEF front
  <2>6. /\ b \in Seq(S) /\ Len(b) = Len(front) + Len(after)
        /\ \A m \in 1..(Len(front) + Len(after)) :
             b[m] = IF m <= Len(front) THEN front[m] ELSE after[m - Len(front)]
    <3>1. front \in Seq(S) /\ after \in Seq(S)
      BY <2>2, <2>5
    <3> QED
      BY <2>4, <3>1, ConcatProperties, Zenon
  <2> HIDE DEF n
  <2>7. Len(front) = k /\ Len(b) = n /\ k \in Int /\ n \in Int
    <3>1. /\ Len(front) = Len(before) + Len(one) /\ Len(b) = Len(front) + Len(after)
          /\ Len(before) = k - 1 /\ Len(one) = 1 /\ Len(after) = n - k
      BY <2>1, <2>2, <2>3, <2>5, <2>6, Zenon
    <3>2. k \in Int /\ n \in Int
      BY <1>1
    <3> QED
      BY <3>1, <3>2
  <2>8. ASSUME NEW m \in 1..n
        PROVE  b[m] = IF m = k THEN e ELSE IF m < k THEN r[m] ELSE r[m - 1]
    <3>1. m \in 1..(Len(front) + Len(after)) /\ m \in Int
      BY <1>1, <2>2, <2>7
    <3>2. b[m] = IF m <= k THEN front[m] ELSE after[m - k]
      BY <2>6, <2>7, <3>1
    <3>3. CASE m = k
      <4>1. k \in 1..(Len(before) + Len(one)) /\ ~(k <= Len(before)) /\ k - Len(before) = 1
        BY <1>1, <2>1, <2>3, <2>7
      <4> QED
        BY <2>3, <2>5, <2>7, <3>2, <3>3, <4>1
    <3>4. CASE m < k
      <4>1. /\ m \in 1..(Len(before) + Len(one)) /\ m <= Len(before) /\ m \in 1..(k - 1)
            /\ m <= k /\ m # k
        BY <1>1, <2>1, <2>3, <2>7, <3>1, <3>4
      <4> QED
        BY <2>1, <2>5, <3>2, <3>4, <4>1
    <3>5. CASE m > k
      <4>1. m - k \in 1..(n - k) /\ m - k + k - 1 = m - 1 /\ ~(m <= k) /\ m # k /\ ~(m < k)
        BY <1>1, <2>7, <3>1, <3>5
      <4>2. after[m - k] = r[m - k + k - 1]
        BY <2>2, <4>1
      <4> QED
        BY <3>2, <4>1, <4>2
    <3> QED
      BY <2>7, <3>1, <3>3, <3>4, <3>5
  <2> QED
    BY <2>6, <2>7, <2>8
<1> HIDE DEF n, b
<1>4. ASSUME NEW m \in 1..n PROVE b[m] = Entry(a, i, k, e, m)
  <2>1. CASE m = k
    BY <1>3, <2>1 DEF Entry
  <2>2. CASE m < k
    <3>1. m \in 1..(n - 1) /\ m # k
      BY <1>1, <2>2
    <3> QED
      BY <1>2, <1>3, <2>2, <3>1 DEF Entry
  <2>3. CASE m > k
    <3>1. m - 1 \in 1..(n - 1) /\ m # k /\ ~(m < k) /\ m - 1 + 1 = m
      BY <1>1, <2>3
    <3> QED
      BY <1>2, <1>3, <3>1 DEF Entry
  <2> QED
    BY <1>1, <2>1, <2>2, <2>3
<1> QED
  BY <1>3, <1>4 DEF n, b, r

\* The first n schedules of an agenda, by their places.
LEMMA DueIs ==
  ASSUME NEW a \in SetToSeqs(Schedules), NEW n \in 0..Len(a)
  PROVE  /\ a \in Seq(Schedules) /\ SubSeq(a, 1, n) \in Seq(Schedules)
         /\ \A x : x \in ToSet(SubSeq(a, 1, n)) <=> \E i \in 1..n : a[i] = x
<1> DEFINE all == Cardinality(Schedules)
           due == SubSeq(a, 1, n)
<1>1. all \in Nat
  BY JobsAssumption, FS_CardinalityType
<1>2. a \in Seq(Schedules) /\ Len(a) = all /\ a \in [1..all -> Schedules]
  BY <1>1 DEF SetToSeqs
<1> HIDE DEF all
<1>3. /\ due \in Seq(Schedules) /\ Len(due) = n
      /\ \A i \in 1..n : due[i] = a[i]
  BY <1>1, <1>2, SubSeqProperties
<1> HIDE DEF due
<1>4. \A x : x \in ToSet(due) <=> \E i \in 1..n : a[i] = x
  BY <1>1, <1>2, <1>3, LenProperties DEF ToSet
<1> QED
  BY <1>2, <1>3, <1>4 DEF due

\* The agenda stays a list of all schedules, and whoever was due and is not the one
\* taken out is due still, even though one fewer is.
LEMMA AgendaMoves ==
  ASSUME agenda \in SetToSeqs(Schedules), ndue \in 0..Len(agenda),
         NEW s \in ToSet(Due), agenda' \in Agendas(s), ndue' = ndue - 1
  PROVE  /\ agenda' \in SetToSeqs(Schedules) /\ ndue' \in 0..Len(agenda')
         /\ ToSet(Due) \ {s} \subseteq ToSet(Due)'
<1> DEFINE n == Cardinality(Schedules)
<1>1. n \in Nat
  BY JobsAssumption, FS_CardinalityType
<1>2. /\ agenda \in Seq(Schedules) /\ Len(agenda) = n
      /\ agenda \in [1..n -> Schedules]
      /\ \A i, j \in 1..n : i # j => agenda[i] # agenda[j]
  BY <1>1 DEF SetToSeqs
<1> HIDE DEF n
<1>3. \A x : x \in ToSet(Due) <=> \E i \in 1..ndue : agenda[i] = x
  BY DueIs DEF Due
<1>4. PICK at \in 1..ndue : agenda[at] = s
  BY <1>3
<1>5. PICK i \in {j \in DOMAIN agenda : agenda[j] = s}, k \in ndue..Len(agenda) :
        agenda' = InsertAt(RemoveAt(agenda, i), k, s)
  BY DEF Agendas
<1>6. /\ i = at /\ i \in 1..n /\ i <= ndue /\ k \in 1..n /\ ndue <= k /\ s \in Schedules
      /\ ndue \in 1..n
  BY <1>1, <1>2, <1>4, <1>5
<1>7. /\ agenda' \in Seq(Schedules) /\ Len(agenda') = n
      /\ \A m \in 1..n : agenda'[m] = Entry(agenda, i, k, s, m)
  <2>1. agenda \in Seq(Schedules) /\ i \in 1..Len(agenda) /\ k \in 1..Len(agenda) /\ s \in Schedules
    BY <1>2, <1>6
  <2> DEFINE b == InsertAt(RemoveAt(agenda, i), k, s)
  <2>2. /\ b \in Seq(Schedules) /\ Len(b) = Len(agenda)
        /\ \A m \in 1..Len(agenda) : b[m] = Entry(agenda, i, k, s, m)
    <3>1. \A q \in 1..Len(agenda), r \in 1..Len(agenda), e \in Schedules :
            /\ InsertAt(RemoveAt(agenda, q), r, e) \in Seq(Schedules)
            /\ Len(InsertAt(RemoveAt(agenda, q), r, e)) = Len(agenda)
            /\ \A m \in 1..Len(agenda) :
                 InsertAt(RemoveAt(agenda, q), r, e)[m] = Entry(agenda, q, r, e, m)
      BY <2>1, Moved
    <3> QED
      BY <2>1, <3>1
  <2>3. agenda' = b
    BY <1>5
  <2> HIDE DEF b
  <2> QED
    BY <1>2, <2>2, <2>3
<1>8. agenda' \in [1..n -> Schedules]
  BY <1>7, LenProperties
<1>9. ASSUME NEW a \in 1..n, NEW b \in 1..n, a # b PROVE agenda'[a] # agenda'[b]
  <2> DEFINE from(m) == IF m = k THEN i
                        ELSE IF m < k THEN IF m < i THEN m ELSE m + 1
                        ELSE IF m - 1 < i THEN m - 1 ELSE m
  <2>1. \A m \in 1..n : from(m) \in 1..n /\ agenda'[m] = agenda[from(m)]
    BY <1>1, <1>2, <1>5, <1>6, <1>7 DEF Entry
  <2>2. from(a) # from(b)
    BY <1>1, <1>6, <1>9
  <2> QED
    BY <1>2, <2>1, <2>2
<1>10. agenda' \in SetToSeqs(Schedules) /\ ndue' \in 0..Len(agenda')
  BY <1>1, <1>6, <1>7, <1>8, <1>9 DEF SetToSeqs, n
<1>11. \A x : x \in ToSet(Due)' <=> \E m \in 1..(ndue - 1) : agenda'[m] = x
  <2>1. /\ Due' \in Seq(Schedules) /\ Len(Due') = ndue - 1
        /\ \A m \in 1..(ndue - 1) : Due'[m] = agenda'[m]
    <3>1. Due' = SubSeq(agenda', 1, ndue - 1)
      BY DEF Due
    <3>2. \A m \in 1..(ndue - 1) : agenda'[m] \in Schedules
      BY <1>1, <1>6, <1>8
    <3> QED
      BY <1>6, <3>1, <3>2, SubSeqProperties
  <2> QED
    BY <1>6, <2>1, LenProperties DEF ToSet
<1>12. ASSUME NEW x \in ToSet(Due), x # s PROVE x \in ToSet(Due)'
  <2>1. PICK j \in 1..ndue : agenda[j] = x
    BY <1>3
  <2>2. j # i
    BY <1>4, <1>6, <1>12, <2>1
  <2> DEFINE m == IF j < i THEN j ELSE j - 1
  <2>3. m \in 1..(ndue - 1) /\ m \in 1..n /\ m < k
    BY <1>1, <1>6, <2>2
  <2>4. agenda'[m] = x
    <3>1. j - 1 + 1 = j /\ m # k
      BY <1>6, <2>3
    <3>2. CASE j < i
      BY <1>7, <2>1, <2>3, <3>1, <3>2 DEF Entry
    <3>3. CASE ~(j < i)
      <4>1. m = j - 1 /\ ~(m < i)
        BY <1>6, <2>2, <3>3
      <4> QED
        BY <1>7, <2>1, <2>3, <3>1, <4>1 DEF Entry
    <3> QED
      BY <3>2, <3>3
  <2> QED
    BY <1>11, <2>3, <2>4
<1> QED
  BY <1>10, <1>12

-----------------------------------------------------------------------------
(***************************************************************************)
(* What a tick knows about the schedules                                   *)
(***************************************************************************)

\* A reading of next_run_at that nobody has made stale is of a schedule that is due.
Lists == list \in [Procs -> Seq(Schedules)]
CurrentIsDue == \A p \in Procs : current[p] \subseteq ToSet(Due)

SchedInv == TypeOK /\ Lists /\ CurrentIsDue

LEMMA ListTypes ==
  ASSUME NEW s \in Seq(Schedules)
  PROVE  ToSet(s) \subseteq Schedules
BY LenProperties, ElementOfSeq DEF ToSet

LEMMA SchedInit == Init => SchedInv
<1> SUFFICES ASSUME Init PROVE SchedInv
  OBVIOUS
<1> DEFINE n == Cardinality(Schedules)
<1>1. n \in Nat
  BY JobsAssumption, FS_CardinalityType
<1>2. agenda \in SetToSeqs(Schedules) /\ Len(agenda) = n
  BY <1>1 DEF Init, SetToSeqs
<1> HIDE DEF n
<1>3. Lists
  BY EmptySeq DEF Init, Lists
<1>4. TypeOK
  <2>1. \A p \in Procs : ToSet(list[p]) \subseteq Schedules
    BY <1>3, ListTypes DEF Lists
  <2> QED
    <3>1. /\ agenda \in SetToSeqs(Schedules) /\ ndue \in 0..Len(agenda)
      BY <1>1, <1>2 DEF Init
    <3>2. /\ lock \in [Jobs -> Procs \cup {NoOne}]
          /\ pc \in [Procs -> {"idle", "next", "quiet", "lock"} \cup Running]
          /\ current \in [Procs -> SUBSET Schedules]
          /\ cur \in [Procs -> Jobs \cup {NoJob}]
          /\ suppress \in [Procs -> BOOLEAN]
      BY DEF Init
    <3>3. night \in BOOLEAN /\ held \in BOOLEAN /\ crashes = 0
      BY Zenon DEF Init
    <3>4. crashes \in 0..MaxCrashes
      BY <3>3, CrashAssumption
    <3> QED
      BY <2>1, <3>1, <3>2, <3>3, <3>4 DEF TypeOK
<1>5. CurrentIsDue
  BY DEF Init, CurrentIsDue
<1> QED
  BY <1>3, <1>4, <1>5 DEF SchedInv

\* Taking up a schedule moves it, and nobody's other readings grow stale.
LEMMA SchedClaim ==
  ASSUME SchedInv, NEW p \in Procs, Claim(p)
  PROVE  SchedInv' /\ cur'[p] \in ToSet(Due)
<1> DEFINE s == Head(list[p])
<1>1. /\ TypeOK /\ list[p] \in Seq(Schedules) /\ list[p] # <<>>
      /\ \A q \in Procs : current[q] \subseteq ToSet(Due)
  BY DEF SchedInv, Lists, CurrentIsDue, Claim
<1>2. s \in Schedules /\ Tail(list[p]) \in Seq(Schedules)
  BY <1>1, HeadTailProperties
<1>3. s \in ToSet(Due) /\ agenda' \in Agendas(s) /\ ndue' = ndue - 1
  BY <1>1 DEF Claim, StillCurrent, TypeOK
<1>4. /\ agenda' \in SetToSeqs(Schedules) /\ ndue' \in 0..Len(agenda')
      /\ ToSet(Due) \ {s} \subseteq ToSet(Due)'
  BY <1>1, <1>3, AgendaMoves DEF TypeOK
<1>5. /\ current' = [q \in Procs |-> current[q] \ {s}]
      /\ list' = [list EXCEPT ![p] = Tail(@)]
      /\ cur' = [cur EXCEPT ![p] = s]
      /\ pc' = [pc EXCEPT ![p] = "quiet"]
      /\ UNCHANGED <<night, lock, suppress, held, crashes>>
  BY DEF Claim
<1> HIDE DEF s
<1>6. CurrentIsDue'
  BY <1>1, <1>4, <1>5 DEF CurrentIsDue
<1>7. Lists'
  BY <1>2, <1>5 DEF SchedInv, Lists
<1>8. /\ current' \in [Procs -> SUBSET Schedules] /\ cur' \in [Procs -> Jobs \cup {NoJob}]
      /\ pc' \in [Procs -> {"idle", "next", "quiet", "lock"} \cup Running]
  BY <1>1, <1>2, <1>5, JobsAssumption DEF TypeOK
<1>9. \A q \in Procs : ToSet(list'[q]) \subseteq Schedules
  BY <1>7, ListTypes DEF Lists
<1>10. TypeOK'
  BY <1>1, <1>4, <1>5, <1>8, <1>9 DEF TypeOK
<1> QED
  BY <1>1, <1>3, <1>5, <1>6, <1>7, <1>10 DEF SchedInv, TypeOK

LEMMA SchedStep == SchedInv /\ [Next]_vars => SchedInv'
<1> SUFFICES ASSUME SchedInv, [Next]_vars PROVE SchedInv'
  OBVIOUS
<1>1. /\ TypeOK /\ Lists /\ CurrentIsDue
      /\ \A x : x \in ToSet(Due) <=> \E i \in 1..ndue : agenda[i] = x
      /\ Due \in Seq(Schedules)
  BY DueIs DEF SchedInv, TypeOK, Due
<1>2. ASSUME UNCHANGED <<agenda, ndue>>, Lists',
             \A p \in Procs : current'[p] \subseteq current[p] \cup ToSet(Due)
      PROVE  CurrentIsDue' /\ (\A p \in Procs : ToSet(list'[p]) \subseteq Schedules)
  <2>1. Due' = Due
    BY <1>2 DEF Due
  <2>2. CurrentIsDue'
    BY <1>1, <1>2, <2>1 DEF CurrentIsDue
  <2>3. \A p \in Procs : ToSet(list'[p]) \subseteq Schedules
    BY <1>2, ListTypes DEF Lists
  <2> QED
    BY <2>2, <2>3
<1>3. CASE UNCHANGED vars \/ ClockTurns
  <2>1. /\ UNCHANGED <<agenda, ndue, list, current>>
    BY <1>3 DEF vars, tableVars, procVars, ClockTurns
  <2>2. Lists'
    BY <1>1, <2>1 DEF Lists
  <2>3. TypeOK'
    BY <1>1, <1>2, <1>3, <2>1, <2>2 DEF vars, tableVars, procVars, ClockTurns, TypeOK
  <2> QED
    BY <1>2, <2>1, <2>2, <2>3 DEF SchedInv
<1>4. CASE ComesDue
  <2>1. /\ ndue' = ndue + 1 /\ ndue' \in 0..Len(agenda') /\ agenda' = agenda
        /\ UNCHANGED <<night, lock, pc, list, current, cur, suppress, held, crashes>>
    <3>1. Len(agenda) \in Nat
      BY <1>1, DueIs, LenProperties DEF TypeOK
    <3> QED
      BY <1>1, <1>4, <3>1 DEF ComesDue, procVars, TypeOK
  <2>2. \A x \in ToSet(Due) : x \in ToSet(Due)'
    <3>1. \A x : x \in ToSet(Due)' <=> \E i \in 1..ndue' : agenda'[i] = x
      BY <1>1, <2>1, DueIs DEF TypeOK, Due
    <3> QED
      BY <1>1, <2>1, <3>1 DEF TypeOK
  <2>3. Lists' /\ CurrentIsDue'
    BY <1>1, <2>1, <2>2 DEF Lists, CurrentIsDue
  <2>4. TypeOK'
    BY <1>1, <2>1 DEF TypeOK
  <2> QED
    BY <2>3, <2>4 DEF SchedInv
<1>5. ASSUME NEW p \in Tickers, Tick(p) PROVE SchedInv'
  <2>1. /\ UNCHANGED <<agenda, ndue, night, lock, cur, suppress, held, crashes>>
        /\ list' = [list EXCEPT ![p] = Due]
        /\ current' = [current EXCEPT ![p] = ToSet(Due)]
        /\ pc' = [pc EXCEPT ![p] = "next"]
    BY <1>5 DEF Tick, InOrder, tableVars
  <2>2. Lists'
    BY <1>1, <2>1 DEF Lists
  <2>3. ToSet(Due) \subseteq Schedules
    BY <1>1, LenProperties, ElementOfSeq DEF ToSet
  <2>4. /\ current' \in [Procs -> SUBSET Schedules]
        /\ \A q \in Procs : current'[q] \subseteq current[q] \cup ToSet(Due)
    BY <1>1, <2>1, <2>3 DEF TypeOK
  <2>5. TypeOK'
    BY <1>1, <1>2, <2>1, <2>2, <2>4 DEF TypeOK
  <2> QED
    BY <1>2, <2>1, <2>2, <2>4, <2>5 DEF SchedInv
<1>6. ASSUME NEW p \in Hands, NEW j \in Jobs, RunOne(p, j) PROVE SchedInv'
  <2>1. /\ UNCHANGED <<agenda, ndue, night, lock, list, current, suppress, held, crashes>>
        /\ pc' = [pc EXCEPT ![p] = "lock"] /\ cur' = [cur EXCEPT ![p] = j]
    BY <1>6 DEF RunOne, tableVars
  <2>2. Lists'
    BY <1>1, <2>1 DEF Lists
  <2>3. TypeOK'
    BY <1>1, <1>2, <2>1, <2>2 DEF TypeOK
  <2> QED
    BY <1>2, <2>1, <2>2, <2>3 DEF SchedInv
<1>7. ASSUME NEW p \in Procs, QuietPause(p) \/ QuietRead(p) \/ SkipLocked(p) \/ RunJob(p)
      PROVE  SchedInv'
  <2>1. UNCHANGED <<agenda, ndue, night, lock, list, current, crashes>>
    BY <1>7 DEF QuietPause, QuietRead, SkipLocked, RunJob, tableVars
  <2>2. Lists'
    BY <1>1, <2>1 DEF Lists
  <2>3. /\ pc' \in [Procs -> {"idle", "next", "quiet", "lock"} \cup Running]
        /\ cur' \in [Procs -> Jobs \cup {NoJob}]
        /\ suppress' \in [Procs -> BOOLEAN] /\ held' \in BOOLEAN
    <3>1. CASE QuietPause(p) \/ SkipLocked(p)
      BY <1>1, <3>1 DEF QuietPause, SkipLocked, PutDown, TypeOK
    <3>2. CASE QuietRead(p)
      BY <1>1, <3>2 DEF QuietRead, TypeOK
    <3>3. CASE RunJob(p)
      BY <1>1, <3>3 DEF RunJob, TypeOK, Running
    <3> QED
      BY <1>7, <3>1, <3>2, <3>3
  <2>4. TypeOK'
    BY <1>1, <1>2, <2>1, <2>2, <2>3 DEF TypeOK
  <2> QED
    BY <1>2, <2>1, <2>2, <2>4 DEF SchedInv
<1>8. ASSUME NEW p \in Procs, TakeLock(p) \/ Release(p) PROVE SchedInv'
  <2>1. UNCHANGED <<agenda, ndue, night, list, current, held, crashes>>
    BY <1>8 DEF TakeLock, Release, tableVars
  <2>2. Lists'
    BY <1>1, <2>1 DEF Lists
  <2>3. /\ pc' \in [Procs -> {"idle", "next", "quiet", "lock"} \cup Running]
        /\ cur' \in [Procs -> Jobs \cup {NoJob}]
        /\ suppress' \in [Procs -> BOOLEAN] /\ lock' \in [Jobs -> Procs \cup {NoOne}]
    <3>1. CASE TakeLock(p)
      BY <1>1, <3>1 DEF TakeLock, TypeOK, Running
    <3>2. CASE Release(p)
      BY <1>1, <3>2 DEF Release, Unlocked, PutDown, TypeOK
    <3> QED
      BY <1>8, <3>1, <3>2
  <2>4. TypeOK'
    BY <1>1, <1>2, <2>1, <2>2, <2>3 DEF TypeOK
  <2> QED
    BY <1>2, <2>1, <2>2, <2>4 DEF SchedInv
<1>9. ASSUME NEW p \in Procs, NothingLeft(p) \/ Raises(p) \/ Crash(p) PROVE SchedInv'
  <2>1. UNCHANGED <<agenda, ndue, night, held>> /\ Exit(p)
    BY <1>9 DEF NothingLeft, Raises, Crash, tableVars
  <2>2. lock' \in [Jobs -> Procs \cup {NoOne}] /\ crashes' \in 0..MaxCrashes
    BY <1>1, <1>9, CrashAssumption DEF NothingLeft, Raises, Crash, Unlocked, TypeOK
  <2>3. Lists'
    BY <1>1, <2>1, EmptySeq DEF Exit, Lists
  <2>4. \A q \in Procs : current'[q] \subseteq current[q] \cup ToSet(Due)
    BY <1>1, <2>1 DEF Exit, TypeOK
  <2>5. TypeOK'
    BY <1>1, <1>2, <2>1, <2>2, <2>3, <2>4 DEF Exit, TypeOK
  <2> QED
    BY <1>2, <2>1, <2>3, <2>4, <2>5 DEF SchedInv
<1>10. ASSUME NEW p \in Procs, ClaimedByAnother(p) PROVE SchedInv'
  <2>1. /\ UNCHANGED <<agenda, ndue, night, lock, pc, current, cur, suppress, held, crashes>>
        /\ list[p] # <<>> /\ list' = [list EXCEPT ![p] = Tail(@)]
    BY <1>10 DEF ClaimedByAnother, tableVars
  <2>2. Lists'
    <3>1. Tail(list[p]) \in Seq(Schedules)
      BY <1>1, <2>1, HeadTailProperties DEF Lists
    <3> QED
      BY <1>1, <2>1, <3>1 DEF Lists
  <2>3. TypeOK'
    BY <1>1, <1>2, <2>1, <2>2 DEF TypeOK
  <2> QED
    BY <1>2, <2>1, <2>2, <2>3 DEF SchedInv
<1> QED
  BY <1>3, <1>4, <1>5, <1>6, <1>7, <1>8, <1>9, <1>10, SchedClaim DEF Next, Step

\* Every variable keeps its type; the agenda in particular stays a list of all
\* schedules in which none appears twice, whatever the claims move.
THEOREM TypeCorrect == Spec => []TypeOK
<1>1. SchedInv => TypeOK
  BY DEF SchedInv
<1> QED
  BY SchedInit, SchedStep, <1>1, PTL DEF Spec

\* However many ticks work through lists that overlap, and however old the lists
\* have become, a schedule is taken up only while it is due.
THEOREM ClaimedWhenDueAlways == Spec => ClaimedWhenDue
<1> DEFINE Good == \A p \in Tickers :
                     pc[p] = "next" /\ pc'[p] = "quiet" => cur'[p] \in ToSet(Due)
<1>1. SchedInv /\ [Next]_vars => [Good]_pc
  <2> SUFFICES ASSUME SchedInv, [Next]_vars, NEW p \in Tickers,
                      pc[p] = "next", pc'[p] = "quiet"
               PROVE  cur'[p] \in ToSet(Due)
    BY Zenon
  <2>1. p \in Procs /\ pc \in [Procs -> {"idle", "next", "quiet", "lock"} \cup Running]
    BY DEF Procs, SchedInv, TypeOK
  <2>2. Claim(p)
    <3>1. ASSUME NEW q \in Procs, Step(q) \/ Crash(q) PROVE Claim(p)
      <4>1. pc' = [pc EXCEPT ![q] = pc'[q]]
        BY <2>1, <3>1 DEF Step, Crash, Claim, ClaimedByAnother, NothingLeft, QuietPause, QuietRead,
               TakeLock, SkipLocked, RunJob, Raises, Release, PutDown, Exit
      <4>2. q = p
        BY <2>1, <4>1
      <4> QED
        BY <2>1, <3>1, <4>2
           DEF Step, Crash, ClaimedByAnother, NothingLeft, QuietPause, QuietRead,
               TakeLock, SkipLocked, RunJob, Raises, Release, PutDown, Exit
    <3>2. ASSUME NEW q \in Tickers, Tick(q) PROVE FALSE
      BY <2>1, <3>2 DEF Tick, Procs
    <3>3. ASSUME NEW q \in Hands, NEW j \in Jobs, RunOne(q, j) PROVE FALSE
      BY <2>1, <3>3 DEF RunOne, Procs
    <3>4. ~(UNCHANGED vars \/ ComesDue \/ ClockTurns)
      BY DEF vars, procVars, ComesDue, ClockTurns
    <3> QED
      BY <3>1, <3>2, <3>3, <3>4 DEF Next
  <2> QED
    BY <2>1, <2>2, SchedClaim
<1> QED
  BY SchedInit, SchedStep, <1>1, PTL DEF Spec, ClaimedWhenDue
=============================================================================
