CONSTANTS
    Cases <- SmallCases
    MinLiquidity = 2
    Drawdown = 1
    MinScore = 16
    ScoreFloor = 13
    MaxRecheckAttempts = 2
    MaxIndexingLagRetries = 1
    MaxSamples = 2
SPECIFICATION Spec
INVARIANT NewbornsWait
CHECK_DEADLOCK FALSE
