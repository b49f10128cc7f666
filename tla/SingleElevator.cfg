SPECIFICATION FairSpec
CONSTANTS
  NumFloors = 3
  HallCalls <- AllHallCalls
  DoorOpenTime = 3
  notMovingTimeLimit = 8
  obstructionTimeLimit = 4
  SleepTime = 3
  MotorFaults = TRUE
  PromptSensor = TRUE
  MaxInputs = 5
INVARIANTS
  TypeOK
  PowerLossMeansMoving
  ShutdownOnlyIfObstructed
  OpenDoorIsTimed
  IdleMeansNothingElsewhere
  MovingHasNextFloor
  MotionInv
PROPERTIES
  PhantomOnlyWhenEmpty
  AnnouncedUnlessBothSides
  KeepsPromises
  CabServed
  HallServedOrParked
