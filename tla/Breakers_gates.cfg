SPECIFICATION BreakersSpec
CONSTANTS
  PaperTrading = FALSE
  InitialBalance = 3
  MaxBalance = 3
  MaxOpen = 1
  MaxDrawdownPct = 30
  DrawdownCooldown = 2
  LossStreakCooldown = 1
  LossStreakThreshold = 2
  WindowSize = 2
  MaxLag = 1
  HistoryCap = 3
  WindowLarge = 2
  WindowSmall = 1
  CriticalWins = 1
  CautiousWins = 1
  PauseDuration = 1
  MaxRestarts = 1
PROPERTIES PeakLoweredByTripOnly PausesNeedNews BuyingResumes
