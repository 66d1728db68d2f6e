SPECIFICATION Spec
CONSTANTS
  NoTag = NoTag
  Homes = {h1}
  Malformed = {}
  Runs = {r1}
  DelistAfter = 2
  MaxLevel = 1
  MaxChanges = 1
  MaxFaults = 0
  MaxCrashes = 0
INVARIANTS
  DelistedHasLeft
