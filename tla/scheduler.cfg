SPECIFICATION FairSpec
CONSTANTS
  hot = hot
  drain = drain
  NoOne = NoOne
  NoJob = NoJob
  Jobs = {hot, drain}
  Schedules = {hot, drain}
  Window <- HeldAndPaused
  Tickers = {t1, t2}
  Hands = {p1}
  MaxCrashes = 1
INVARIANTS
  TypeOK
  OneRunPerJob
PROPERTIES
  ClaimedWhenDue
  EachJobRunsAgain
