SPECIFICATION FairSpec
CONSTANTS
  StatusCapacity = 2
  CallCapacity = 1
  LostOrders = 2
  MaxStatuses <- OneStatusMore
  MaxCalls <- OneCallMore
INVARIANT TypeOK
PROPERTIES
  EveryoneReturns
  BroadcastsUnderLightLoad
