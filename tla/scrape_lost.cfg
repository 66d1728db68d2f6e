SPECIFICATION FairSpec
CONSTANTS
  NoTag = NoTag
  Homes = {h1}
  Malformed = {}
  Runs = {r1}
  DelistAfter = 2
  MaxLevel = 1
  MaxChanges = 1
  MaxFaults = 1
  MaxCrashes = 0
PROPERTIES
  EventuallyStored
\* A source found broken stays so: nothing has to happen.
CHECK_DEADLOCK FALSE
