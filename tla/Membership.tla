----------------------------- MODULE Membership -----------------------------
(***************************************************************************)
(* What the web app and the worker both rely on about a person, with no    *)
(* chats, no tokens and no notifications: somebody joins once, is          *)
(* activated once, and from then on can only be let go - by leaving, which *)
(* removes the filter, or by being cut off, which deactivates it a little  *)
(* later.  Nothing brings a removed or deactivated filter back.            *)
(*                                                                         *)
(* Subscription and Outbox implement it, each with the half of the code it *)
(* is about, so that what Outbox takes for its Users is what Subscription  *)
(* makes of its Accounts.                                                  *)
(***************************************************************************)
CONSTANT Members

VARIABLES
  status,     \* users.status
  filter      \* the subscriptions row

mvars == <<status, filter>>

MInit ==
  /\ status = [m \in Members |-> "absent"]
  /\ filter = [m \in Members |-> "none"]

Join(m) ==
  /\ status[m] = "absent"
  /\ status' = [status EXCEPT ![m] = "pending"]
  /\ filter' = [filter EXCEPT ![m] = "active"]

Activate(m) ==
  /\ status[m] = "pending"
  /\ status' = [status EXCEPT ![m] = "active"]
  /\ UNCHANGED filter

\* Those who once were activated.
Activated(m) == status[m] \in {"active", "stopped", "blocked"}

Leave(m) ==
  /\ Activated(m)
  /\ status' = [status EXCEPT ![m] = "stopped"]
  /\ filter' = [filter EXCEPT ![m] = "none"]

CutOff(m) ==
  /\ Activated(m)
  /\ status' = [status EXCEPT ![m] = "blocked"]
  /\ UNCHANGED filter

\* Two statements of the worker: a person who is cut off has a filter for a while.
Deactivate(m) ==
  /\ status[m] = "blocked"
  /\ filter[m] = "active"
  /\ filter' = [filter EXCEPT ![m] = "inactive"]
  /\ UNCHANGED status

MNext ==
  \E m \in Members : Join(m) \/ Activate(m) \/ Leave(m) \/ CutOff(m) \/ Deactivate(m)

MSpec == MInit /\ [][MNext]_mvars
=============================================================================
