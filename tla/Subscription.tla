---------------------------- MODULE Subscription ----------------------------
(***************************************************************************)
(* The life of a subscription, from the web form to /stop:                 *)
(* apps/web/app/api/subscribe/route.ts, apps/web/app/api/tg/webhook/       *)
(* route.ts and stop_user of worker/store.py, on the tables users,         *)
(* user_channels and subscriptions with their unique keys.                 *)
(*                                                                         *)
(* Every submission of the form creates an account: a user, its filter and *)
(* a one-time token.  The link that carries the token may be opened from   *)
(* any chat, more than once, and late.  Outbox takes these accounts as its *)
(* Users and leaves chats and tokens out.                                  *)
(*                                                                         *)
(* START and /stop run in a transaction that locks the user row, so each   *)
(* is one step; the worker's statements are steps of their own.            *)
(***************************************************************************)
EXTENDS FiniteSets, Naturals

CONSTANTS
  Accounts,    \* submissions of the form
  Chats,       \* Telegram chats
  NoChat       \* no user_channels row

ASSUME NoChatAssumption == NoChat \notin Chats

VARIABLES
  status,      \* users.status; "absent" before the form is submitted
  token,       \* users.start_token: "none", "live" or "expired"
  chat,        \* user_channels.address, NoChat without a row
  filter,      \* the subscriptions row: "none", "active" or "inactive"
  halfway,     \* accounts whose filter stop_user has yet to deactivate
  reply,       \* what the bot last told the chat
  \* history
  linked,      \* chats an account has been attached to
  consent      \* accounts whose owner said START in time and not /stop since

vars == <<status, token, chat, filter, halfway, reply, linked, consent>>

Statuses == {"absent", "pending", "active", "stopped", "blocked"}
Replies  == {"none", "welcome", "link expired", "already active", "needs link",
             "stopped", "nothing to stop", "no answer"}

Init ==
  /\ status = [a \in Accounts |-> "absent"]
  /\ token = [a \in Accounts |-> "none"]
  /\ chat = [a \in Accounts |-> NoChat]
  /\ filter = [a \in Accounts |-> "none"]
  /\ halfway = {}
  /\ reply = [c \in Chats |-> "none"]
  /\ linked = [a \in Accounts |-> {}]
  /\ consent = {}

-----------------------------------------------------------------------------
\* The form: the user and the filter in one transaction.
Submit(a) ==
  /\ status[a] = "absent"
  /\ status' = [status EXCEPT ![a] = "pending"]
  /\ token' = [token EXCEPT ![a] = "live"]
  /\ filter' = [filter EXCEPT ![a] = "active"]
  /\ UNCHANGED <<chat, halfway, reply, linked, consent>>

TokenExpires(a) ==
  /\ token[a] = "live"
  /\ token' = [token EXCEPT ![a] = "expired"]
  /\ UNCHANGED <<status, chat, filter, halfway, reply, linked, consent>>

Reply(c, text) == reply' = [reply EXCEPT ![c] = text]

\* The WHERE of the statement that claims the token; the variant forgets that
\* tokens expire.
ClaimableV1(a) == token[a] # "none"
Claimable(a) == token[a] = "live"

\* The token is spent by the statement that reads it; the variant leaves it.
SpentV1(a) == token[a]
Spent(a) == "none"

\* UNIQUE (channel, address); the variant is a table without it.
AddressFreeV1(c, a) == c \in Chats
AddressFree(c, a) == \A b \in Accounts \ {a} : chat[b] # c

\* START with a token that can be claimed: the chat becomes the address.
StartLinks(c, a) ==
  /\ Claimable(a)
  /\ AddressFree(c, a)
  /\ status' = [status EXCEPT ![a] = "active"]
  /\ token' = [token EXCEPT ![a] = Spent(a)]
  /\ chat' = [chat EXCEPT ![a] = c]
  /\ linked' = [linked EXCEPT ![a] = @ \cup {c}]
  /\ consent' = IF token[a] = "live" THEN consent \cup {a} ELSE consent
  /\ Reply(c, "welcome")
  /\ UNCHANGED <<filter, halfway>>

\* The chat belongs to another account: the insert violates the unique key, the
\* statement that would have moved the address is never reached, the transaction
\* is rolled back, and the webhook acknowledges the update without a word.
StartFails(c, a) ==
  /\ Claimable(a)
  /\ ~AddressFree(c, a)
  /\ Reply(c, "no answer")
  /\ UNCHANGED <<status, token, chat, filter, halfway, linked, consent>>

\* An unknown, spent or expired token.
StartExpired(c, a) ==
  /\ status[a] # "absent"
  /\ ~Claimable(a)
  /\ Reply(c, "link expired")
  /\ UNCHANGED <<status, token, chat, filter, halfway, linked, consent>>

\* /start without a token changes nothing.
BareStart(c) ==
  /\ IF \E a \in Accounts : chat[a] = c /\ status[a] = "active"
     THEN Reply(c, "already active")
     ELSE Reply(c, "needs link")
  /\ UNCHANGED <<status, token, chat, filter, halfway, linked, consent>>

\* /stop deletes the filter of the account the chat belongs to.
StopDeletes(c, a) ==
  /\ chat[a] = c
  /\ status' = [status EXCEPT ![a] = "stopped"]
  /\ token' = [token EXCEPT ![a] = "none"]
  /\ filter' = [filter EXCEPT ![a] = "none"]
  /\ consent' = consent \ {a}
  /\ Reply(c, "stopped")
  /\ UNCHANGED <<chat, halfway, linked>>

StopNothing(c) ==
  /\ \A a \in Accounts : chat[a] # c
  /\ Reply(c, "nothing to stop")
  /\ UNCHANGED <<status, token, chat, filter, halfway, linked, consent>>

\* The worker found the recipient gone: first the user, then the filter.
WorkerStopsUser(a) ==
  /\ chat[a] # NoChat
  /\ status' = [status EXCEPT ![a] = "blocked"]
  /\ halfway' = halfway \cup {a}
  /\ UNCHANGED <<token, chat, filter, reply, linked, consent>>

WorkerStopsFilter(a) ==
  /\ a \in halfway
  /\ filter' = [filter EXCEPT ![a] = IF @ = "none" THEN @ ELSE "inactive"]
  /\ halfway' = halfway \ {a}
  /\ UNCHANGED <<status, token, chat, reply, linked, consent>>

Next ==
  \/ \E a \in Accounts : \/ Submit(a)
                         \/ TokenExpires(a)
                         \/ WorkerStopsUser(a)
                         \/ WorkerStopsFilter(a)
  \/ \E c \in Chats : \/ BareStart(c)
                      \/ StopNothing(c)
                      \/ \E a \in Accounts : \/ StartLinks(c, a)
                                             \/ StartFails(c, a)
                                             \/ StartExpired(c, a)
                                             \/ StopDeletes(c, a)

Spec == Init /\ [][Next]_vars
-----------------------------------------------------------------------------
(***************************************************************************)
(* Properties                                                              *)
(***************************************************************************)

\* Every variable has its type, nobody has an address before START, and a token
\* is around only until then.
TypeOK ==
  /\ status \in [Accounts -> Statuses]
  /\ token \in [Accounts -> {"none", "live", "expired"}]
  /\ chat \in [Accounts -> Chats \cup {NoChat}]
  /\ filter \in [Accounts -> {"none", "active", "inactive"}]
  /\ halfway \in SUBSET Accounts
  /\ reply \in [Chats -> Replies]
  /\ linked \in [Accounts -> SUBSET Chats]
  /\ consent \in SUBSET Accounts
  /\ \A a \in Accounts : status[a] \in {"absent", "pending"} <=> chat[a] = NoChat
  /\ \A a \in Accounts : token[a] # "none" <=> status[a] = "pending"

\* active_subscriptions: the accounts the matcher queues messages for.
Receives(a) == status[a] = "active" /\ filter[a] = "active" /\ chat[a] # NoChat

\* Nobody receives messages without consent on record: a START in time with the
\* account's own token, and no /stop since.
ConsentOnRecord == \A a \in Accounts : Receives(a) => a \in consent

\* Two taps on a link, from two chats or after the worker has stopped the
\* account, never attach two chats to one subscription or revive it.
LinkWorksOnce == \A a \in Accounts : Cardinality(linked[a]) <= 1

\* /stop looks at one account only, and that is enough: once a chat has been told
\* "stopped", no account writes to it.
StopIsComplete ==
  \A c \in Chats, a \in Accounts : reply[c] = "stopped" /\ chat[a] = c => ~Receives(a)

\* "You can subscribe again any time" (apps/web/lib/messages.ts, STOPPED), "the
\* same chat may return with a new subscription" (the webhook): a link that can be
\* claimed is always answered with WELCOME.
LiveLinkIsWelcome == \A c \in Chats : reply[c] # "no answer"

\* The mapping under which the accounts are Membership's members.
M == INSTANCE Membership WITH Members <- Accounts

\* Two taps on one link, a tap after /stop and a run that stops the same person
\* meanwhile never activate anybody twice nor bring a filter back.
ImplementsMembership == M!MSpec
=============================================================================
