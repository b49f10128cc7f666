SPECIFICATION FairSpec
CONSTANTS
  Elevators = {1, 2, 3}
  Local = 2
  HallOrders <- Hall
  CabOrders <- Cab
  Queues <- OnlyFull
  None = None
  PromptHandover = TRUE
  MaxUpdates = 4
  MaxStatuses = 0
  MaxCalls = 0
PROPERTY ReelectionOnNewPeer
CHECK_DEADLOCK FALSE
