-------------------------- MODULE SubscriptionProofs --------------------------
(***************************************************************************)
(* Proofs about Subscription, for any number of submissions of the form    *)
(* and any number of chats: each of its invariants, and that it implements *)
(* Membership.                                                             *)
(***************************************************************************)
EXTENDS Subscription, TLAPS, FiniteSetTheorems

-----------------------------------------------------------------------------
(***************************************************************************)
(* The inductive invariant                                                 *)
(***************************************************************************)

\* UNIQUE (channel, address), kept by the statement that inserts the address.
OneAccountPerChat ==
  \A a, b \in Accounts : chat[a] # NoChat /\ chat[a] = chat[b] => a = b

\* The history of an account is at most the chat it has now.
LinkedOnce ==
  \A a \in Accounts : linked[a] = IF chat[a] = NoChat THEN {} ELSE {chat[a]}

\* Only START in time makes a status "active".
ActiveByConsent == \A a \in Accounts : status[a] = "active" => a \in consent

\* What /stop left has no filter, and a filter waits for the worker's second
\* statement only after its first one.
NoFilterAfterStop == \A a \in Accounts : status[a] = "stopped" => filter[a] = "none"
HalfwayIsBlocked  == \A a \in halfway : status[a] \in {"stopped", "blocked"}

\* A chat that was told "stopped" belongs to nobody who is active.
StoppedIsInactive ==
  \A c \in Chats, a \in Accounts :
     reply[c] = "stopped" /\ chat[a] = c => status[a] \in {"stopped", "blocked"}

SubInv ==
  /\ TypeOK
  /\ OneAccountPerChat
  /\ LinkedOnce
  /\ ActiveByConsent
  /\ NoFilterAfterStop
  /\ HalfwayIsBlocked
  /\ StoppedIsInactive

\* Nobody has submitted the form yet.
LEMMA SubInit == Init => SubInv
<1> SUFFICES ASSUME Init PROVE SubInv
  OBVIOUS
<1>1. TypeOK
  BY DEF Init, TypeOK, Statuses, Replies
<1>2. OneAccountPerChat /\ LinkedOnce /\ ActiveByConsent /\ NoFilterAfterStop
  BY DEF Init, OneAccountPerChat, LinkedOnce, ActiveByConsent, NoFilterAfterStop
<1>3. HalfwayIsBlocked /\ StoppedIsInactive
  BY DEF Init, HalfwayIsBlocked, StoppedIsInactive
<1> QED
  BY <1>1, <1>2, <1>3 DEF SubInv

\* An answer other than "stopped" claims nothing.
LEMMA OnlyReply ==
  ASSUME SubInv, NEW c \in Chats, NEW text \in Replies \ {"stopped"},
         Reply(c, text),
         UNCHANGED <<status, token, chat, filter, halfway, linked, consent>>
  PROVE  SubInv'
<1> USE DEF SubInv
<1>1. TypeOK' /\ StoppedIsInactive'
  BY DEF TypeOK, StoppedIsInactive, Reply
<1>2. OneAccountPerChat' /\ LinkedOnce' /\ ActiveByConsent' /\ NoFilterAfterStop'
  BY DEF OneAccountPerChat, LinkedOnce, ActiveByConsent, NoFilterAfterStop
<1>3. HalfwayIsBlocked'
  BY DEF HalfwayIsBlocked
<1> QED
  BY <1>1, <1>2, <1>3

\* Submitting the form: the account has no chat yet.
LEMMA SubmitKeeps ==
  ASSUME SubInv, NEW a \in Accounts, Submit(a)
  PROVE  SubInv'
<1> USE DEF SubInv
<1>1. TypeOK'
  BY DEF Submit, TypeOK, Statuses
<1>2. OneAccountPerChat' /\ LinkedOnce' /\ ActiveByConsent'
  BY DEF Submit, TypeOK, OneAccountPerChat, LinkedOnce, ActiveByConsent
<1>3. NoFilterAfterStop' /\ HalfwayIsBlocked' /\ StoppedIsInactive'
  BY DEF Submit, TypeOK, NoFilterAfterStop, HalfwayIsBlocked, StoppedIsInactive
<1> QED
  BY <1>1, <1>2, <1>3

\* A live token ages.
LEMMA ExpiryKeeps ==
  ASSUME SubInv, NEW a \in Accounts, TokenExpires(a)
  PROVE  SubInv'
BY DEF SubInv, TokenExpires, TypeOK, OneAccountPerChat, LinkedOnce, ActiveByConsent,
       NoFilterAfterStop, HalfwayIsBlocked, StoppedIsInactive

\* START: a token that can be claimed belongs to an account without a chat, and
\* the unique key keeps the chat from being another account's.
LEMMA StartKeeps ==
  ASSUME SubInv, NEW c \in Chats, NEW a \in Accounts, StartLinks(c, a)
  PROVE  SubInv'
<1> USE DEF SubInv
<1>1. token[a] = "live" /\ status[a] = "pending" /\ chat[a] = NoChat /\ c # NoChat
  BY NoChatAssumption DEF StartLinks, Claimable, TypeOK
<1>2. /\ status' = [status EXCEPT ![a] = "active"]
      /\ token' = [token EXCEPT ![a] = "none"]
      /\ chat' = [chat EXCEPT ![a] = c]
      /\ linked' = [linked EXCEPT ![a] = @ \cup {c}]
      /\ consent' = consent \cup {a}
      /\ reply' = [reply EXCEPT ![c] = "welcome"]
      /\ UNCHANGED <<filter, halfway>>
  BY <1>1 DEF StartLinks, Spent, Reply
<1>3. TypeOK'
  <2>1. /\ status' \in [Accounts -> Statuses]
        /\ token' \in [Accounts -> {"none", "live", "expired"}]
        /\ chat' \in [Accounts -> Chats \cup {NoChat}]
        /\ filter' \in [Accounts -> {"none", "active", "inactive"}]
        /\ halfway' \in SUBSET Accounts
        /\ consent' \in SUBSET Accounts
    BY <1>2 DEF TypeOK, Statuses
  <2>2. /\ reply' \in [Chats -> Replies]
        /\ linked' \in [Accounts -> SUBSET Chats]
    BY <1>2 DEF TypeOK, Replies
  <2>3. \A b \in Accounts : status'[b] \in {"absent", "pending"} <=> chat'[b] = NoChat
    BY <1>1, <1>2 DEF TypeOK
  <2>4. \A b \in Accounts : token'[b] # "none" <=> status'[b] = "pending"
    BY <1>1, <1>2 DEF TypeOK
  <2> QED
    BY <2>1, <2>2, <2>3, <2>4 DEF TypeOK
<1>4. OneAccountPerChat'
  BY <1>1, <1>2 DEF StartLinks, AddressFree, TypeOK, OneAccountPerChat
<1>5. LinkedOnce' /\ ActiveByConsent'
  BY <1>1, <1>2 DEF TypeOK, LinkedOnce, ActiveByConsent
<1>6. NoFilterAfterStop' /\ HalfwayIsBlocked' /\ StoppedIsInactive'
  BY <1>1, <1>2 DEF TypeOK, NoFilterAfterStop, HalfwayIsBlocked, StoppedIsInactive
<1> QED
  BY <1>3, <1>4, <1>5, <1>6

\* /stop finds the one account of the chat.
LEMMA StopKeeps ==
  ASSUME SubInv, NEW c \in Chats, NEW a \in Accounts, StopDeletes(c, a)
  PROVE  SubInv'
<1> USE DEF SubInv
<1>1. chat[a] = c /\ chat[a] # NoChat
  BY NoChatAssumption DEF StopDeletes
<1>2. TypeOK'
  BY <1>1 DEF StopDeletes, Reply, TypeOK, Statuses, Replies
<1>3. OneAccountPerChat' /\ LinkedOnce' /\ ActiveByConsent'
  BY DEF StopDeletes, TypeOK, OneAccountPerChat, LinkedOnce, ActiveByConsent
<1>4. NoFilterAfterStop' /\ HalfwayIsBlocked'
  BY DEF StopDeletes, TypeOK, NoFilterAfterStop, HalfwayIsBlocked
<1>5. StoppedIsInactive'
  BY <1>1 DEF StopDeletes, Reply, TypeOK, OneAccountPerChat, StoppedIsInactive
<1> QED
  BY <1>2, <1>3, <1>4, <1>5

\* The worker's two statements, with anything of the web app in between.
LEMMA WorkerKeeps ==
  ASSUME SubInv, NEW a \in Accounts, WorkerStopsUser(a) \/ WorkerStopsFilter(a)
  PROVE  SubInv'
<1> USE DEF SubInv
<1>1. CASE WorkerStopsUser(a)
  <2>1. TypeOK'
    BY <1>1 DEF WorkerStopsUser, TypeOK, Statuses
  <2>2. OneAccountPerChat' /\ LinkedOnce' /\ ActiveByConsent' /\ NoFilterAfterStop'
    BY <1>1 DEF WorkerStopsUser, TypeOK, OneAccountPerChat, LinkedOnce,
                ActiveByConsent, NoFilterAfterStop
  <2>3. HalfwayIsBlocked' /\ StoppedIsInactive'
    BY <1>1 DEF WorkerStopsUser, TypeOK, HalfwayIsBlocked, StoppedIsInactive
  <2> QED
    BY <2>1, <2>2, <2>3
<1>2. CASE WorkerStopsFilter(a)
  <2>1. TypeOK'
    BY <1>2 DEF WorkerStopsFilter, TypeOK
  <2>2. OneAccountPerChat' /\ LinkedOnce' /\ ActiveByConsent' /\ NoFilterAfterStop'
    BY <1>2 DEF WorkerStopsFilter, TypeOK, OneAccountPerChat, LinkedOnce,
                ActiveByConsent, NoFilterAfterStop
  <2>3. HalfwayIsBlocked' /\ StoppedIsInactive'
    BY <1>2 DEF WorkerStopsFilter, TypeOK, HalfwayIsBlocked, StoppedIsInactive
  <2> QED
    BY <2>1, <2>2, <2>3
<1> QED
  BY <1>1, <1>2

\* Every step keeps the inductive invariant.
LEMMA SubStep == SubInv /\ [Next]_vars => SubInv'
<1> SUFFICES ASSUME SubInv, [Next]_vars PROVE SubInv'
  OBVIOUS
<1>1. ASSUME NEW c \in Chats, BareStart(c) \/ StopNothing(c) PROVE SubInv'
  <2>1. PICK text \in Replies \ {"stopped"} : Reply(c, text)
    BY <1>1 DEF BareStart, StopNothing, Replies
  <2> QED
    BY <1>1, <2>1, OnlyReply DEF BareStart, StopNothing
<1>2. ASSUME NEW c \in Chats, NEW a \in Accounts, StartFails(c, a) \/ StartExpired(c, a)
      PROVE  SubInv'
  <2>1. PICK text \in Replies \ {"stopped"} : Reply(c, text)
    BY <1>2 DEF StartFails, StartExpired, Replies
  <2> QED
    BY <1>2, <2>1, OnlyReply DEF StartFails, StartExpired
<1>3. CASE UNCHANGED vars
  BY <1>3 DEF vars, SubInv, TypeOK, OneAccountPerChat, LinkedOnce, ActiveByConsent,
              NoFilterAfterStop, HalfwayIsBlocked, StoppedIsInactive
<1> QED
  BY <1>1, <1>2, <1>3, SubmitKeeps, ExpiryKeeps, StartKeeps, StopKeeps, WorkerKeeps
     DEF Next

\* The inductive invariant holds throughout.
LEMMA SubAlways == Spec => []SubInv
BY SubInit, SubStep, PTL DEF Spec

-----------------------------------------------------------------------------
(***************************************************************************)
(* What follows                                                            *)
(***************************************************************************)

\* The tables keep their types, an account has an address from START on, and its
\* token lasts until then.
THEOREM TypeCorrect == Spec => []TypeOK
<1>1. SubInv => TypeOK
  BY DEF SubInv
<1> QED
  BY SubAlways, <1>1, PTL

\* Nobody receives messages without a START in time and no /stop since, whatever
\* links are opened late, twice or from other chats.
THEOREM ConsentAlways == Spec => []ConsentOnRecord
<1>1. SubInv => ConsentOnRecord
  BY DEF SubInv, ActiveByConsent, ConsentOnRecord, Receives
<1> QED
  BY SubAlways, <1>1, PTL

\* A link attaches one chat to its account and never a second one.
THEOREM LinkWorksOnceAlways == Spec => []LinkWorksOnce
<1>1. SubInv => LinkWorksOnce
  <2> SUFFICES ASSUME SubInv, NEW a \in Accounts PROVE Cardinality(linked[a]) <= 1
    BY DEF LinkWorksOnce
  <2>1. linked[a] = {} \/ linked[a] = {chat[a]}
    BY DEF SubInv, LinkedOnce
  <2>2. Cardinality({}) = 0 /\ Cardinality({chat[a]}) = 1
    BY FS_EmptySet, FS_Singleton
  <2> QED
    BY <2>1, <2>2
<1> QED
  BY SubAlways, <1>1, PTL

\* Once a chat has been told "stopped", no account writes to it.
THEOREM StopIsCompleteAlways == Spec => []StopIsComplete
<1>1. SubInv => StopIsComplete
  BY DEF SubInv, StoppedIsInactive, StopIsComplete, Receives
<1> QED
  BY SubAlways, <1>1, PTL

-----------------------------------------------------------------------------
(***************************************************************************)
(* Subscription implements Membership                                      *)
(***************************************************************************)

\* START activates a member that joined: the token is there only until then.
LEMMA StartActivates ==
  ASSUME SubInv, NEW c \in Chats, NEW a \in Accounts, StartLinks(c, a)
  PROVE  M!Activate(a)
BY DEF SubInv, TypeOK, StartLinks, Claimable, M!Activate

\* The worker's second statement finds the member cut off, or its filter gone.
LEMMA FilterStops ==
  ASSUME SubInv, NEW a \in Accounts, WorkerStopsFilter(a)
  PROVE  M!Deactivate(a) \/ UNCHANGED <<status, filter>>
<1>1. CASE filter[a] = "active"
  BY <1>1 DEF SubInv, NoFilterAfterStop, HalfwayIsBlocked, WorkerStopsFilter, M!Deactivate
<1>2. CASE filter[a] # "active"
  BY <1>2 DEF SubInv, TypeOK, WorkerStopsFilter
<1> QED
  BY <1>1, <1>2

\* Each step is a step of Membership or leaves status and filter alone.
LEMMA MembershipStep == SubInv /\ [Next]_vars => [M!MNext]_(M!mvars)
<1> SUFFICES ASSUME SubInv, [Next]_vars PROVE [M!MNext]_(M!mvars)
  OBVIOUS
<1> USE DEF M!MNext, M!mvars
<1>1. ASSUME NEW a \in Accounts, Submit(a) PROVE M!Join(a)
  BY <1>1 DEF Submit, M!Join
<1>2. ASSUME NEW a \in Accounts, WorkerStopsUser(a) PROVE M!CutOff(a)
  BY <1>2 DEF WorkerStopsUser, SubInv, TypeOK, Statuses, M!CutOff, M!Activated
<1>3. ASSUME NEW c \in Chats, NEW a \in Accounts, StopDeletes(c, a) PROVE M!Leave(a)
  BY <1>3, NoChatAssumption
     DEF StopDeletes, SubInv, TypeOK, Statuses, M!Leave, M!Activated
<1>4. ASSUME NEW c \in Chats, NEW a \in Accounts,
             \/ TokenExpires(a) \/ BareStart(c) \/ StopNothing(c)
             \/ StartFails(c, a) \/ StartExpired(c, a)
      PROVE  UNCHANGED <<status, filter>>
  BY <1>4 DEF TokenExpires, BareStart, StopNothing, StartFails, StartExpired
<1>5. CASE UNCHANGED vars
  BY <1>5 DEF vars
<1>6. CASE \E a \in Accounts : Submit(a) \/ WorkerStopsUser(a) \/ WorkerStopsFilter(a)
  BY <1>1, <1>2, <1>6, FilterStops
<1>7. CASE \E a \in Accounts : TokenExpires(a)
  BY <1>7 DEF TokenExpires
<1>8. CASE \E c \in Chats : BareStart(c) \/ StopNothing(c)
  BY <1>8 DEF BareStart, StopNothing
<1>9. CASE \E c \in Chats, a \in Accounts :
             StartLinks(c, a) \/ StartFails(c, a) \/ StartExpired(c, a) \/ StopDeletes(c, a)
  BY <1>3, <1>4, <1>9, StartActivates
<1> QED
  BY <1>5, <1>6, <1>7, <1>8, <1>9 DEF Next

\* Every behaviour of the web app and the worker, seen through status and filter,
\* is one of Membership: one activation per account, and nothing brings a removed
\* or deactivated filter back.
THEOREM MembershipImplemented == Spec => ImplementsMembership
<1>1. Init => M!MInit
  BY DEF Init, M!MInit
<1> QED
  BY <1>1, SubAlways, MembershipStep, PTL DEF Spec, ImplementsMembership, M!MSpec
=============================================================================
