SPECIFICATION TimelySpec
CONSTANTS
  m1 = m1
  m2 = m2
  m3 = m3
  s1 = s1
  s2 = s2
  s3 = s3
  Mints = {m1, m2, m3}
  Scans = {s1, s2}
  MaxOpenPositions = 3
  MaxBuysPerScan = 2
  LightConcurrency = 1
  HeavyConcurrency = 2
  MaxRecheckAttempts = 1
  MaxIndexingLagRetries = 1
  MaxTrackedMints = 2
  LaunchpadOf <- OneLaunchpad
  Configs <- Both
  InitialBalance = 1
CHECK_DEADLOCK FALSE
SYMMETRY Symmetry
INVARIANTS Consistent OneLotPerMint ReservationsHeld LimitsBounded
