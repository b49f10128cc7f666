SPECIFICATION Spec
CONSTANTS
  NumFloors = 4
  Panel <- AllButtons
  DoorOpenTime = 3
  travelTime = 3
  CostBound = 55
  TornReads = TRUE
INVARIANT HalfwayBetweenFloors
CHECK_DEADLOCK FALSE
