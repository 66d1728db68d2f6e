SPECIFICATION FairSpec
CONSTANTS
  NoMsg = NoMsg
  u1 = u1
  u2 = u2
  l1 = l1
  l2 = l2
  Users = {u1, u2}
  Listings = {l1, l2}
  Wants <- AllPairs
  Matchers = {m1}
  Drains = {d1}
  MaxAttempts = 2
  Batch = 2
  Cap = 1
  LostAnswers = FALSE
  MaxCrashes = 0
  MaxMidnights = 1
INVARIANTS
  AtMostOnce
  DailyCap
PROPERTIES
  SentIsFinal
  QueueDrains
  MatchesQueued
  ImplementsDelivery
ACTION_CONSTRAINT
  KeptApart
\* People may stop coming: nothing has to happen.
CHECK_DEADLOCK FALSE
