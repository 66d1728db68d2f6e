---------------------------- MODULE MCScheduler ----------------------------
(***************************************************************************)
(* Instances of Scheduler for TLC.                                         *)
(***************************************************************************)
EXTENDS Scheduler, TLC

CONSTANTS hot, drain

\* A job that is paused in the quiet hours and one that only holds its messages.
HeldAndPaused == (hot :> "queue") @@ (drain :> "pause")

\* The windows of the schedules that 0001_init.sql inserts.
Seeded == (hot :> "queue") @@ (drain :> "none")
=============================================================================
