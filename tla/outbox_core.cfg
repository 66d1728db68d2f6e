SPECIFICATION Spec
SYMMETRY RunSymmetry
CONSTANTS
  NoMsg = NoMsg
  u1 = u1
  u2 = u2
  l1 = l1
  l2 = l2
  Users = {u1}
  Listings = {l1}
  Wants <- AllPairs
  Matchers = {m1, m2}
  Drains = {d1, d2}
  MaxAttempts = 2
  Batch = 2
  Cap = 1
  LostAnswers = TRUE
  MaxCrashes = 2
  MaxMidnights = 0
INVARIANTS
  TypeOK
  SendsBounded
  StopEmptiesQueue
  NoBacklogReplay
PROPERTIES
  NeverRequeued
  ImplementsDelivery
  ImplementsMembership
\* People may stop coming: nothing has to happen.
CHECK_DEADLOCK FALSE
