SPECIFICATION RunSpec
CONSTANTS
  Parts = {"signals", "scans"}
  LoggedMints = {"m1", "m2"}
  Unnamed = {"m1"}
  Mints = {"m1"}
  Scans = {"s1", "s2"}
  MaxOpenPositions = 1
  MaxBuysPerScan = 1
  LightConcurrency = 1
  HeavyConcurrency = 1
  MaxRecheckAttempts = 1
  MaxIndexingLagRetries = 0
  MaxTrackedMints = 1
  LaunchpadOf <- OneLaunchpad
  Configs <- OnPaper
  InitialBalance = 0
INVARIANT SignalsSound
PROPERTY LoopsGoOn
CHECK_DEADLOCK FALSE
