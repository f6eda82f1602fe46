SPECIFICATION RunSpec
CONSTANTS
  Parts = {"life", "ghosts", "gate", "tuners", "training"}
  MaxPending = 2
  Coins = {"m", "n"}
  MaxPrice = 3
  EntryPrices = {0, 1, 2}
  Scores = {0, 1}
  MinGhostScore = 1
  QueueCap = 2
  MaxPositions = 2
  MaxHold = 2
  StaleGrace = 0
  StopLoss = 50
  Trail = 25
  Ladders <- SmallLadders
  Window = 3
  MinSamples = 1
  MinGhosts = 2
  MinTrades = 1
  MinRl = 2
  MinTuner = 1
  MinReal = 1
  LookBack = 2
  Low <- LowestRungs
  High <- HighestRungs
  Gap = 1
  Bases <- SmallBases
  BaseScore = 0
  ScoreLow = 1
  ScoreHigh = 2
  DefaultRung = 4
  SampleWindow = 2
  MaxTrainings = 3
  MaxPosted = 1
INVARIANTS LifecycleSound LearningSound
PROPERTY NothingHangs
CHECK_DEADLOCK FALSE
