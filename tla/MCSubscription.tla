--------------------------- MODULE MCSubscription ---------------------------
(***************************************************************************)
(* Instances of Subscription for TLC.                                      *)
(***************************************************************************)
EXTENDS Subscription, TLC

\* Accounts are interchangeable, and so are chats.
WebSymmetry == Permutations(Accounts) \cup Permutations(Chats)
=============================================================================
