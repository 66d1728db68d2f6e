SPECIFICATION FairSpec
CONSTANTS
  NoTag = NoTag
  Homes = {h1, h2}
  Malformed = {h2}
  Runs = {r1}
  DelistAfter = 2
  MaxLevel = 1
  MaxChanges = 2
  MaxFaults = 2
  MaxCrashes = 1
INVARIANTS
  TypeOK
  UnhealthyIsLeftAlone
  StoredIsAnnounced
PROPERTIES
  TwoMissesToDelist
  CooldownEscalates
  BlockLifts
  CleanRunsStore
\* A source found broken stays so: nothing has to happen.
CHECK_DEADLOCK FALSE
