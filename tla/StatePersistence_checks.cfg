SPECIFICATION FairSpec
CONSTANTS
  MaxRequests = 2
  MaxWrites = 3
  MaxCrashes = 1
  MaxTransientRetries = 2
  LockContention = TRUE
  WorkerMayFail = TRUE
INVARIANTS
  IInv
  AckedAreSettled
  CommitOrder
  OneFate
  ShutdownSettles
PROPERTIES
  AbstractSpec
  Progress
CHECK_DEADLOCK FALSE
