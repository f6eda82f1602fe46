SPECIFICATION FairSpec
CONSTANTS
  m1 = m1
  m2 = m2
  m3 = m3
  Mints = {m1, m2, m3}
  MaxOpenPositions = 1
  Configs <- AllConfigs
  InitialBalance = 1
  WatchlistSize = 2
  Followed = {m1}
  MaxLookups = 2
INVARIANTS Consistent LimitsKept
PROPERTY SlowReturns
