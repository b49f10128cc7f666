SPECIFICATION FairSpec
CONSTANTS
  Elevators = {1, 2, 3}
  Local = 2
  HallOrders <- Hall
  CabOrders <- Cab
  Queues <- OnlyFull
  None = None
  PromptHandover = TRUE
  MaxUpdates = 4
  MaxStatuses = 1
  MaxCalls = 1
INVARIANTS
  TypeOK
  AwaitedMasterComes
  MasterAtRestIsLowest
PROPERTIES
  AssignedToPeers
  CabCallsComeBack
  MasterSettles
CHECK_DEADLOCK FALSE
