------------------------------ MODULE MCOutbox ------------------------------
(***************************************************************************)
(* Instances of Outbox for TLC.                                            *)
(***************************************************************************)
EXTENDS Outbox, TLC

CONSTANTS u1, u2, l1, l2

\* Every subscriber wants every listing: the criteria never get in the way of
\* the interleavings.
AllPairs == Users \X Listings

\* Runs of one kind are interchangeable.
RunSymmetry == Permutations(Matchers) \cup Permutations(Drains)

-----------------------------------------------------------------------------
(***************************************************************************)
(* One instance for two questions that need a second of something: a       *)
(* second listing and a second day for the cap of one, a second person on  *)
(* the list that a refused row ends.  The second person comes where the    *)
(* second listing and the midnight do not.                                 *)
(***************************************************************************)

SecondListing == l2 \in stored \cup UNION {checking[m] : m \in Matchers}

EitherPersonOrListing == users[u2] # "absent" => ~SecondListing /\ midnights = 0

\* The steps an action constraint lets through.  Nothing that fairness asks for is
\* held back: the second listing may be found or not, people and midnights owe nothing.
KeptApart == EitherPersonOrListing'
=============================================================================
