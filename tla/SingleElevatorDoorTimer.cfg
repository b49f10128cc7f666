SPECIFICATION Spec
CONSTANTS
  NumFloors = 3
  HallCalls <- AllHallCalls
  DoorOpenTime = 3
  notMovingTimeLimit = 8
  obstructionTimeLimit = 4
  SleepTime = 3
  MotorFaults = TRUE
  PromptSensor = TRUE
  MaxInputs = 4
INVARIANT DoorTimerMeansDoorOpen
