SPECIFICATION Spec
CONSTANTS
  Elevators = {1, 2, 3}
  Local = 2
  HallOrders <- Hall
  CabOrders <- Cab
  Queues <- OnlyFull
  None = None
  PromptHandover = TRUE
  MaxUpdates = 4
  MaxStatuses = 1
  MaxCalls = 0
PROPERTY HallOrdersReassigned
CHECK_DEADLOCK FALSE
