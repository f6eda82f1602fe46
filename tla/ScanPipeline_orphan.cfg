SPECIFICATION Spec
CONSTANTS
  m1 = m1
  m2 = m2
  m3 = m3
  s1 = s1
  s2 = s2
  s3 = s3
  Mints = {m1}
  Scans = {s1, s2, s3}
  MaxOpenPositions = 2
  MaxBuysPerScan = 2
  LightConcurrency = 1
  HeavyConcurrency = 2
  MaxRecheckAttempts = 1
  MaxIndexingLagRetries = 0
  MaxTrackedMints = 2
  LaunchpadOf <- OneLaunchpad
  Configs <- OnPaper
  InitialBalance = 2
CHECK_DEADLOCK FALSE
SYMMETRY Symmetry
INVARIANT
  OneLotPerMint
