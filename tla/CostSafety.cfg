SPECIFICATION FairSpec
CONSTANTS
  NumFloors = 4
  Panel <- AllButtons
  DoorOpenTime = 3
  travelTime = 3
  CostBound = 55
  TornReads = FALSE
INVARIANTS
  TypeOK
  CostBelowBound
  EstimateAllowsForOrders
PROPERTY CostTerminates
CHECK_DEADLOCK FALSE
