SPECIFICATION Spec
CONSTANTS
  u1 = u1
  u2 = u2
  v1 = v1
  h1 = h1
  h2 = h2
  NoUrl = NoUrl
  Urls = {u1, u2, v1}
  Origins = {h1, h2}
  OriginOf <- Hosts
  PathOf <- Paths
  Files <- SmallFiles
  Ours = {"london", "rent"}
  TokenLen <- Lengths
  AgentModes = {"honest", "auto"}
  MaxRequests = 4
  RetryMax = 2
  Gaps = {1}
  RetryAfters = {3, 4}
  RetryBase = 1
  RetryCap = 3
  LongAgo = 4
INVARIANTS
  TypeOK
  BoundedOvershoot
  ReadsWhatItSays
  RobotsRespected
  LeftAlone
  RefusalEndsRun
\* A run ends.
CHECK_DEADLOCK FALSE
