SPECIFICATION Spec
CONSTANTS
  Programs = {"pump", "raydium"}
  Heartbeat = "slots"
  Slots = {1, 2}
  Endpoints = 2
  Usable = {1}
  Sockets = {1, 2}
  Controllers = {1, 2}
  MaxVersion = 2
  Capacity = 2
  MaxWrites = 3
  MaxBreaks = 2
INVARIANTS FeedsOwned FramesIntact
PROPERTY FeedsRecover
CHECK_DEADLOCK FALSE
