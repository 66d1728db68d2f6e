SPECIFICATION Spec
CONSTANTS
  NoMsg = NoMsg
  u1 = u1
  u2 = u2
  l1 = l1
  l2 = l2
  Users = {u1}
  Listings = {l1}
  Wants <- AllPairs
  Matchers = {m1}
  Drains = {d1}
  MaxAttempts = 2
  Batch = 1
  Cap = 1
  LostAnswers = FALSE
  MaxCrashes = 1
  MaxMidnights = 0
INVARIANTS
  AtMostOnce
\* People may stop coming: nothing has to happen.
CHECK_DEADLOCK FALSE
