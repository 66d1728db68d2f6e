SPECIFICATION Spec
CONSTANTS
  hot = hot
  drain = drain
  NoOne = NoOne
  NoJob = NoJob
  Jobs = {hot, drain}
  Schedules = {hot, drain}
  Window <- Seeded
  Tickers = {t1}
  Hands = {}
  MaxCrashes = 0
PROPERTIES
  HeldUntilMorning
