SPECIFICATION TradingSpec
CONSTANTS
  Parts = {"bucket", "swap", "rpc", "values"}
  Rate = 2
  MaxRequests = 6
  MaxCalls = 2
  MaxSlippageRetry = 1
  MaxBundles = 2
  Pool = 2
  Flaky = {0}
  RpcCallers = {"monitor", "scanner"}
  MaxAttempts = 3
  Turns = 2
  Askers = {"a", "b"}
INVARIANTS TypeOK WaitersWatched SwapsSound SharedStateSound
PROPERTIES HigherFirst LimiterSpec TradesEnd
CHECK_DEADLOCK FALSE
