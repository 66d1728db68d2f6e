------------------------------ MODULE Delivery ------------------------------
(***************************************************************************)
(* What the outbox promises about each notification, with no runs, no      *)
(* claims and no SQL: it is queued once, offered to the provider a bounded *)
(* number of times, and settled as sent only if the provider took it.      *)
(*                                                                         *)
(* The header of worker/pipeline/outbox.py promises more ("exactly once"). *)
(* When only one run delivers at a time (Exclusive) a settled message is   *)
(* final and is not offered again; otherwise a second run that claimed the *)
(* same row may still offer it and may overwrite how it was settled.       *)
(***************************************************************************)
EXTENDS Integers

CONSTANTS Msgs, MaxAttempts, Exclusive

VARIABLES
  phase,      \* where the message is in its life
  tries,      \* how often it was offered to the provider
  accepted    \* how many copies the provider delivered

dvars == <<phase, tries, accepted>>

Phases == {"none", "queued", "sent", "abandoned", "withdrawn"}

\* Phases in which a message may be offered, and those in which it may be settled.
Offerable  == {"queued", "withdrawn"} \cup (IF Exclusive THEN {} ELSE {"sent", "abandoned"})
Settleable == {"queued"} \cup (IF Exclusive THEN {} ELSE {"sent", "abandoned"})

DInit ==
  /\ phase = [m \in Msgs |-> "none"]
  /\ tries = [m \in Msgs |-> 0]
  /\ accepted = [m \in Msgs |-> 0]

Enqueue(m) ==
  /\ phase[m] = "none"
  /\ phase' = [phase EXCEPT ![m] = "queued"]
  /\ UNCHANGED <<tries, accepted>>

\* /stop deleted the row; a copy that a run already holds can still go out.
Offer(m) ==
  /\ phase[m] \in Offerable
  /\ tries[m] < MaxAttempts
  /\ tries' = [tries EXCEPT ![m] = @ + 1]
  /\ \E copy \in {0, 1} : accepted' = [accepted EXCEPT ![m] = @ + copy]
  /\ UNCHANGED phase

SettleSent(m) ==
  /\ phase[m] \in Settleable
  /\ accepted[m] > 0
  /\ phase' = [phase EXCEPT ![m] = "sent"]
  /\ UNCHANGED <<tries, accepted>>

\* One message given up, or all that were waiting for one person.
Abandon(S) ==
  /\ \A m \in S : phase[m] \in Settleable
  /\ phase' = [m \in Msgs |-> IF m \in S THEN "abandoned" ELSE phase[m]]
  /\ UNCHANGED <<tries, accepted>>

Withdraw(S) ==
  /\ \A m \in S : phase[m] = "queued"
  /\ phase' = [m \in Msgs |-> IF m \in S THEN "withdrawn" ELSE phase[m]]
  /\ UNCHANGED <<tries, accepted>>

DNext ==
  \/ \E m \in Msgs : Enqueue(m) \/ Offer(m) \/ SettleSent(m)
  \/ \E S \in SUBSET Msgs : Abandon(S) \/ Withdraw(S)

DSpec == DInit /\ [][DNext]_dvars
=============================================================================
