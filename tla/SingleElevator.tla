---------------------------- MODULE SingleElevator ----------------------------
(***************************************************************************)
(* One elevator: the select loop of RunSingleElevator with the handlers it *)
(* calls (singleElevator/*.go), the hardware behind elevio and the restart *)
(* by the supervisor.  Time is counted in seconds by Tick.                 *)
(***************************************************************************)
EXTENDS Decisions

CONSTANTS
  HallCalls,             \* the hall orders that can be assigned: SUBSET Orders
  DoorOpenTime,          \* config.DoorOpenTime
  notMovingTimeLimit,    \* after this the motor has lost power
  obstructionTimeLimit,  \* after this the door is obstructed for too long
  SleepTime,             \* the time.Sleep in handlers at the current floor
  MotorFaults,           \* TRUE if the motor can fail to reach a floor in time
  PromptSensor,          \* TRUE if a floor event is handled before the cab
                         \* leaves the floor
  MaxInputs              \* bound on calls and obstruction events

ASSUME HallCallsAssumption ==
  HallCalls \subseteq Floors \X {"HallUp", "HallDown"}
ASSUME TimeAssumption ==
  /\ {DoorOpenTime, notMovingTimeLimit, obstructionTimeLimit, SleepTime}
       \subseteq Nat \ {0}
  /\ DoorOpenTime < notMovingTimeLimit
  /\ SleepTime < notMovingTimeLimit
ASSUME ModelAssumption ==
  MotorFaults \in BOOLEAN /\ PromptSensor \in BOOLEAN /\ MaxInputs \in Nat

VARIABLES
  \* config.Elevator
  floor, direction, queue, state, obstructed,
  \* the timers of singleElevator.go: seconds left, 0 expired, Off stopped
  doorTimer, oppositeTimer, movementTimer, obstructionTimer,
  delayed,         \* delayedButtonEvent
  loop,            \* what the main loop is doing, or why the process exited
  sleepLeft,       \* seconds left of a handler's time.Sleep
  sent,            \* the order statuses the last step gave to SendOrderStatus
  \* the hardware
  cab,             \* position in half floors: even at a sensor, odd between
  motor, doorLamp,
  \* the pollers of elevio
  floorEvent,      \* the value PollFloorSensor is sending, or NoEvent
  lastObstruction, \* prev of PollObstructionSwitch
  \* history and bound
  overlap,         \* this process has left a floor with a door timer running
  inputs

elevator == <<floor, direction, queue, state, obstructed>>
timers == <<doorTimer, oppositeTimer, movementTimer, obstructionTimer>>
hardware == <<cab, motor, doorLamp>>
pollers == <<floorEvent, lastObstruction>>
vars == <<elevator, timers, delayed, loop, sleepLeft, sent, hardware, pollers,
          overlap, inputs>>

Off == -1
NoEvent == -1
Top == 2 * (NumFloors - 1)

ExitReasons == {"PowerLoss", "ObstructedTooLong", "Panic"}
Exited == loop \in ExitReasons
Selecting == loop = "select"

(* elevio.GetFloor() # -1, and its value then. *)
AtFloor == cab % 2 = 0
SensorFloor == cab \div 2

Report(o, status) == [order |-> o, status |-> status]
Finished(orders) == {Report(o, "Finished") : o \in orders}

-----------------------------------------------------------------------------
(* What InitElevator and the first lines of RunSingleElevator leave: the cab  *)
(* at a floor, the state DoorOpen although the door has been closed again,    *)
(* and no timer running.                                                      *)
Init ==
  /\ cab \in {2 * f : f \in Floors} /\ floor = SensorFloor
  /\ direction = Stop /\ queue = {} /\ state = "DoorOpen" /\ obstructed \in BOOLEAN
  /\ doorTimer = Off /\ oppositeTimer = Off
  /\ movementTimer = Off /\ obstructionTimer = Off
  /\ delayed = <<0, "HallUp">>
  /\ loop = "select" /\ sleepLeft = 0 /\ sent = {}
  /\ motor = Stop /\ doorLamp = FALSE
  /\ floorEvent = NoEvent /\ lastObstruction = FALSE
  /\ overlap = FALSE /\ inputs = 0

(* Slip: InitElevator leaves the cab between two floors. *)
NoHoming == cab

(* InitElevator moves a cab between floors down to the floor below. *)
HomePosition == 2 * SensorFloor

(* The supervisor starts the process again: what was in memory is lost. *)
restartElevator ==
  /\ Exited
  /\ cab' = HomePosition /\ floor' = SensorFloor
  /\ direction' = Stop /\ queue' = {} /\ state' = "DoorOpen" /\ obstructed' \in BOOLEAN
  /\ doorTimer' = Off /\ oppositeTimer' = Off
  /\ movementTimer' = Off /\ obstructionTimer' = Off
  /\ delayed' = <<0, "HallUp">>
  /\ loop' = "select" /\ sleepLeft' = 0 /\ sent' = {}
  /\ motor' = Stop /\ doorLamp' = FALSE
  /\ floorEvent' = NoEvent /\ lastObstruction' = FALSE
  /\ UNCHANGED inputs

-----------------------------------------------------------------------------
(* Slip: HandleStateTransition stays idle and leaves movementTimer running. *)
StayIdleWatched(q, reports) ==
  /\ state' = "Idle" /\ queue' = q /\ sent' = reports
  /\ UNCHANGED <<direction, motor, loop, movementTimer>>

(* Slip: it returns early when the door is obstructed, with no timer running. *)
KeepDoorOpenUntimed(q, reports) ==
  /\ movementTimer' = Off
  /\ doorTimer' = IF obstructed THEN Off ELSE DoorOpenTime
  /\ state' = "DoorOpen" /\ queue' = q /\ sent' = reports
  /\ UNCHANGED <<direction, motor, loop, obstructionTimer>>

(* The Idle branch of HandleStateTransition: stay, or leave towards the next *)
(* order after clearLingeringHallCalls has cleared the hall call of this      *)
(* floor in that direction.  That indexes elevator.Queue with                 *)
(* elevio.GetFloor(), and the process panics when it is -1.                   *)
StayIdle(q, reports) ==
  /\ state' = "Idle" /\ movementTimer' = Off
  /\ queue' = q /\ sent' = reports
  /\ UNCHANGED <<direction, motor, loop>>

Leave(next, q, reports) ==
  LET lingering == q \cap {<<SensorFloor, HallTowards(next)>>}
  IN  /\ state' = "Moving" /\ direction' = next
      /\ movementTimer' = notMovingTimeLimit
      /\ \/ /\ AtFloor
            /\ queue' = q \ lingering
            /\ sent' = reports \cup Finished(lingering)
            /\ motor' = next
            /\ UNCHANGED loop
         \/ /\ ~AtFloor
            /\ loop' = "Panic"
            /\ queue' = q /\ sent' = reports
            /\ UNCHANGED motor

Replan(q, reports) ==
  LET next == ChooseDirection(direction, floor, q)
  IN  /\ obstructionTimer' = Off
      /\ \/ next = Stop /\ StayIdle(q, reports)
         \/ next # Stop /\ Leave(next, q, reports)

(* Its DoorOpen branch: the door stays open for another DoorOpenTime, or until*)
(* the obstruction goes.                                                      *)
KeepDoorOpen(q, reports) ==
  /\ movementTimer' = Off
  /\ doorTimer' = IF obstructed THEN Off ELSE DoorOpenTime
  /\ obstructionTimer' = IF obstructed THEN obstructionTimeLimit ELSE obstructionTimer
  /\ state' = "DoorOpen" /\ queue' = q /\ sent' = reports
  /\ UNCHANGED <<direction, motor, loop>>

(* HandleStateTransition in state s, with the queue, the order statuses sent  *)
(* and the door timer its caller has come to.  Every caller ends with it.     *)
HandleStateTransition(s, q, reports, door) ==
  \/ /\ s = "Idle"
     /\ Replan(q, reports)
     /\ doorTimer' = door
  \/ /\ s = "Moving"
     /\ obstructionTimer' = Off
     /\ motor' = direction
     /\ state' = s /\ queue' = q /\ sent' = reports /\ doorTimer' = door
     /\ UNCHANGED <<direction, movementTimer, loop>>
  \/ s = "DoorOpen" /\ KeepDoorOpen(q, reports)

(* Slip: elevator.Floor keeps the floor of the last stop. *)
ProcessFloorArrivalStale(f) ==
  /\ movementTimer' = notMovingTimeLimit
  /\ IF hasOrdersAtFloor(f, queue)
     THEN /\ motor' = Stop /\ state' = "DoorOpen"
          /\ doorLamp' = TRUE /\ doorTimer' = DoorOpenTime
     ELSE UNCHANGED <<motor, state, doorLamp, doorTimer>>
  /\ sent' = {}
  /\ UNCHANGED <<floor, direction, queue, obstructed, oppositeTimer, obstructionTimer, delayed>>

(* ProcessFloorArrival: open the door where there are orders. *)
ProcessFloorArrival(f) ==
  /\ movementTimer' = notMovingTimeLimit
  /\ IF hasOrdersAtFloor(f, queue)
     THEN /\ motor' = Stop
          /\ floor' = f
          /\ state' = "DoorOpen"
          /\ doorLamp' = TRUE
          /\ doorTimer' = DoorOpenTime
     ELSE UNCHANGED <<motor, floor, state, doorLamp, doorTimer>>
  /\ sent' = {}
  /\ UNCHANGED <<direction, queue, obstructed, oppositeTimer, obstructionTimer, delayed>>

-----------------------------------------------------------------------------
(* An order enters the queue.  At its floor the handler sleeps before it      *)
(* processes the arrival; elsewhere it only makes a transition.               *)
TakeOrder(o, reports) ==
  LET q == queue \cup {o}
  IN  /\ Selecting
      /\ inputs < MaxInputs /\ inputs' = inputs + 1
      /\ IF floor = o[1] /\ AtFloor /\ state # "Moving"
         THEN /\ queue' = q /\ sent' = reports
              /\ loop' = "asleep" /\ sleepLeft' = SleepTime
              /\ UNCHANGED <<direction, state, motor, timers>>
         ELSE /\ HandleStateTransition(state, q, reports, doorTimer)
              /\ UNCHANGED <<oppositeTimer, sleepLeft>>
      /\ UNCHANGED <<floor, obstructed, delayed, cab, doorLamp, pollers>>

(* ProcessButtonPress for a cab button.  (A hall button only puts the event   *)
(* on hallCallChan.)                                                          *)
ProcessCabButton(f) == TakeOrder(<<f, "Cab">>, {})

(* handleAssignedHallCall: a hall call, or a cab call restored by the master. *)
handleAssignedHallCall(o) ==
  TakeOrder(o, IF o[2] = "Cab" THEN {} ELSE {Report(o, "Unfinished")})

(* The sleep of TakeOrder ends. *)
WakeUp ==
  /\ loop = "asleep" /\ sleepLeft = 0
  /\ loop' = "select"
  /\ ProcessFloorArrival(floor)
  /\ UNCHANGED <<sleepLeft, cab, pollers, inputs>>

(* PollFloorSensor goes on polling once its event has been received. *)
FloorSensorEvent ==
  /\ Selecting /\ floorEvent # NoEvent
  /\ ProcessFloorArrival(floorEvent)
  /\ floorEvent' = IF AtFloor /\ SensorFloor # floorEvent THEN SensorFloor ELSE NoEvent
  /\ UNCHANGED <<loop, sleepLeft, cab, lastObstruction, inputs>>

(* ProcessObstruction.  The poller reports changes, starting from FALSE. *)
ProcessObstruction ==
  /\ Selecting
  /\ inputs < MaxInputs /\ inputs' = inputs + 1
  /\ lastObstruction' = ~lastObstruction
  /\ obstructed' = lastObstruction'
  /\ \/ /\ state # "DoorOpen"
        /\ UNCHANGED <<doorTimer, movementTimer, obstructionTimer, motor, doorLamp>>
     \/ /\ state = "DoorOpen" /\ obstructed'
        /\ motor' = Stop /\ doorLamp' = TRUE
        /\ movementTimer' = Off /\ doorTimer' = Off
        /\ obstructionTimer' = obstructionTimeLimit
     \/ /\ state = "DoorOpen" /\ ~obstructed'
        /\ obstructionTimer' = Off /\ doorTimer' = DoorOpenTime
        /\ UNCHANGED <<movementTimer, motor, doorLamp>>
  /\ sent' = {}
  /\ UNCHANGED <<floor, direction, queue, state, oppositeTimer, delayed, loop,
                 sleepLeft, cab, floorEvent>>

(* case <-doorTimer.C: close the door, clear the cab call and the hall call   *)
(* hallCallClearOrder chooses, and leave or wait for the opposite call.       *)
DoorTimeout ==
  /\ Selecting /\ doorTimer = 0
  /\ \/ /\ obstructed
        /\ HandleStateTransition(state, queue, {}, Off)
        /\ UNCHANGED <<oppositeTimer, delayed, doorLamp>>
     \/ /\ ~obstructed
        /\ LET clear == hallCallClearOrder(floor, direction, queue)
               first == {<<floor, clear.first>>} \ {<<floor, "Cab">>}
               q == (queue \ {<<floor, "Cab">>}) \ first
           IN  IF clear.delay
               THEN /\ doorLamp' = TRUE
                    /\ doorTimer' = Off /\ movementTimer' = Off
                    /\ oppositeTimer' = DoorOpenTime
                    /\ delayed' = <<floor, clear.second>>
                    /\ queue' = q /\ sent' = Finished(first)
                    /\ UNCHANGED <<direction, state, obstructionTimer, motor, loop>>
               ELSE /\ doorLamp' = FALSE
                    /\ HandleStateTransition("Idle", q, Finished(first), Off)
                    /\ UNCHANGED <<oppositeTimer, delayed>>
  /\ UNCHANGED <<floor, obstructed, sleepLeft, cab, pollers, inputs>>

(* case <-clearOppositeDirectionTimer.C *)
OppositeTimeout ==
  /\ Selecting /\ oppositeTimer = 0
  /\ oppositeTimer' = Off
  /\ doorLamp' = FALSE
  /\ HandleStateTransition("Idle", queue \ {delayed}, Finished({delayed}), doorTimer)
  /\ UNCHANGED <<floor, obstructed, delayed, sleepLeft, cab, pollers, inputs>>

(* forceShutdown *)
forceShutdown(timer, reason) ==
  /\ Selecting /\ timer = 0
  /\ loop' = reason /\ sent' = {}
  /\ UNCHANGED <<elevator, timers, delayed, sleepLeft, hardware, pollers, inputs>>

(* Slip: the second case reads the first case's timer. *)
ObstructedByMovement == forceShutdown(movementTimer, "ObstructedTooLong")

PowerLoss == forceShutdown(movementTimer, "PowerLoss")
ObstructedTooLong == forceShutdown(obstructionTimer, "ObstructedTooLong")

-----------------------------------------------------------------------------
(* The environment.  The motor carries the cab half a floor and holds it at   *)
(* the ends of the shaft; it stands still while no process drives it.         *)
MoveCab ==
  /\ ~Exited /\ motor # Stop
  /\ cab + motor \in 0 .. Top
  /\ PromptSensor => floorEvent = NoEvent
  /\ cab' = cab + motor
  /\ floorEvent' = IF cab' % 2 = 0 /\ floorEvent = NoEvent THEN cab' \div 2 ELSE floorEvent
  /\ sent' = {}
  /\ UNCHANGED <<elevator, timers, delayed, loop, sleepLeft, motor, doorLamp,
                 lastObstruction, inputs>>

CountDown(t) == IF t > 0 THEN t - 1 ELSE t

(* A second passes.  The loop has handled what was ready before it does, and  *)
(* a motor without fault has reached a floor before notMovingTimeLimit.       *)
Tick ==
  /\ \/ loop = "asleep" /\ sleepLeft > 0
     \/ /\ Selecting /\ floorEvent = NoEvent
        /\ doorTimer # 0 /\ oppositeTimer # 0
        /\ movementTimer # 0 /\ obstructionTimer # 0
  /\ MotorFaults \/ motor = Stop \/ movementTimer # 1
  /\ doorTimer' = CountDown(doorTimer)
  /\ oppositeTimer' = CountDown(oppositeTimer)
  /\ movementTimer' = CountDown(movementTimer)
  /\ obstructionTimer' = CountDown(obstructionTimer)
  /\ sleepLeft' = CountDown(sleepLeft)
  /\ sent' = {}
  /\ UNCHANGED <<elevator, delayed, loop, hardware, pollers, inputs>>

Handlers ==
  \/ \E f \in Floors : ProcessCabButton(f)
  \/ \E o \in HallCalls \cup (Floors \X {"Cab"}) : handleAssignedHallCall(o)
  \/ WakeUp
  \/ FloorSensorEvent
  \/ ProcessObstruction
  \/ DoorTimeout
  \/ OppositeTimeout
  \/ PowerLoss
  \/ ObstructedTooLong

(* History: a door timer still runs when the elevator is on its way.  Nothing *)
(* in the code reads it; it dates the first such departure of a process.      *)
DoorTimersOnlyAtStop ==
  state = "Moving" => doorTimer = Off /\ oppositeTimer = Off

RememberOverlap == overlap' = ((overlap /\ ~Exited) \/ ~DoorTimersOnlyAtStop')

Next == (Handlers \/ restartElevator \/ MoveCab \/ Tick) /\ RememberOverlap

Spec == Init /\ [][Next]_vars

-----------------------------------------------------------------------------
(* Fairness: the select loop gets to every case that stays ready, a sleeping *)
(* handler wakes, time passes, and a running motor moves the cab.            *)
Fairness ==
  /\ WF_vars(WakeUp /\ RememberOverlap)
  /\ WF_vars(FloorSensorEvent /\ RememberOverlap)
  /\ WF_vars(DoorTimeout /\ RememberOverlap)
  /\ WF_vars(OppositeTimeout /\ RememberOverlap)
  /\ WF_vars(PowerLoss /\ RememberOverlap)
  /\ WF_vars(ObstructedTooLong /\ RememberOverlap)
  /\ WF_vars(restartElevator /\ RememberOverlap)
  /\ WF_vars(MoveCab /\ RememberOverlap)
  /\ WF_vars(Tick /\ RememberOverlap)

FairSpec == Spec /\ Fairness

-----------------------------------------------------------------------------
Timer(limit) == Off .. limit

TypeOK ==
  /\ floor \in Floors /\ direction \in Directions
  /\ queue \subseteq Orders
  /\ state \in {"Idle", "Moving", "DoorOpen"} /\ obstructed \in BOOLEAN
  /\ doorTimer \in Timer(DoorOpenTime) /\ oppositeTimer \in Timer(DoorOpenTime)
  /\ movementTimer \in Timer(notMovingTimeLimit)
  /\ obstructionTimer \in Timer(obstructionTimeLimit)
  /\ delayed \in Floors \X {"HallUp", "HallDown"}
  /\ loop \in {"select", "asleep"} \cup ExitReasons
  /\ sleepLeft \in 0 .. SleepTime
  /\ sent \subseteq [order : Orders, status : {"Finished", "Unfinished"}]
  /\ cab \in 0 .. Top /\ motor \in Directions /\ doorLamp \in BOOLEAN
  /\ floorEvent \in Floors \cup {NoEvent} /\ lastObstruction \in BOOLEAN
  /\ overlap \in BOOLEAN /\ inputs \in 0 .. MaxInputs

-----------------------------------------------------------------------------
(* Safety.  Some properties hold only until a process first leaves a floor   *)
(* with a door timer running (overlap), which the code can do: see            *)
(* DoorTimerMeansDoorOpen.                                                     *)

(* The door is open only while the cab stands at elevator.Floor. *)
DoorOpenAtFloor == ~overlap /\ doorLamp => cab = 2 * floor /\ motor = Stop

(* Unless a floor event is pending, the motor never pushes the cab against an *)
(* end of the shaft: ChooseDirection and ProcessFloorArrival stop it before.   *)
NeverAgainstTheEnd ==
  ~overlap /\ floorEvent = NoEvent /\ motor # Stop => cab + motor \in 0 .. Top

(* The motor runs only in state Moving and under movementTimer. *)
MotorWatched ==
  ~overlap /\ ~Exited /\ motor # Stop => state = "Moving" /\ movementTimer # Off

(* clearLingeringHallCalls indexes the queue between floors only after a      *)
(* departure with a door timer running.                                       *)
PanicOnlyAfterOverlap == loop = "Panic" => overlap

(* The process exits for "Power Loss" only while the motor should be running: *)
(* ProcessFloorArrival arms movementTimer at stops too, and the door timers   *)
(* must always get there first.                                               *)
PowerLossMeansMoving == loop = "PowerLoss" => motor # Stop

(* The process exits for "Obstructed too Long" only with an obstructed open   *)
(* door: every way out of that state stops obstructionTimer.                  *)
ShutdownOnlyIfObstructed ==
  loop = "ObstructedTooLong" => obstructed /\ state = "DoorOpen"

(* While the loop selects, an open door waits for some timer, so it cannot    *)
(* stay open for ever.                                                        *)
OpenDoorIsTimed ==
  doorLamp /\ Selecting =>
     \E t \in {doorTimer, oppositeTimer, obstructionTimer} : t # Off

(* An elevator that went idle has no order at another floor. *)
IdleMeansNothingElsewhere ==
  state = "Idle" => \A o \in queue : o[1] = floor

(* A moving elevator has a floor ahead of elevator.Floor: cost adds the       *)
(* direction to the floor of such a status and indexes the queue with it.     *)
MovingHasNextFloor ==
  state = "Moving" => direction # Stop /\ floor + direction \in Floors

(* A Finished status for an order that the elevator did not have is sent only *)
(* at a stop without any order, for the hall call up: the zero value that     *)
(* hallCallClearOrder then returns.  In particular the delayed call is still  *)
(* there when its timer runs out.                                             *)
PhantomOnlyWhenEmpty ==
  [][\A r \in sent' : r.status = "Finished" =>
       r.order \in queue \/ overlap' \/ (queue = {} /\ r.order = <<floor, "HallUp">>)]_vars

(* A hall call that is cleared as the elevator leaves announces its direction,*)
(* unless there are orders on both sides.  (The one of two hall calls that is *)
(* delayed may be wrong: hallCallClearOrder delays the call up also when the  *)
(* elevator will go down.)                                                    *)
AnnouncedUnlessBothSides ==
  [][\A r \in sent' : r.status = "Finished" /\ state' = "Moving" =>
       \/ HallTowards(direction') = r.order[2]
       \/ HasOrdersAbove(floor, queue) /\ HasOrdersBelow(floor, queue)
       \/ oppositeTimer = 0 \/ overlap']_vars

(* Why these hold (MotionSafety proves DoorOpenAtFloor, NeverAgainstTheEnd,   *)
(* MotorWatched and PanicOnlyAfterOverlap from MotionInv): at rest the cab    *)
(* stands at elevator.Floor with the motor off, and on its way it has an      *)
(* order ahead of it, whose floor event it cannot miss.                       *)
OrderAhead ==
  \E o \in queue :
     \/ direction = Up /\ 2 * o[1] > cab
     \/ direction = Down /\ 2 * o[1] < cab
     \/ 2 * o[1] = cab /\ floorEvent = o[1]

AtRest ==
  /\ motor = Stop /\ cab = 2 * floor /\ floorEvent = NoEvent
  /\ doorLamp => state = "DoorOpen"

UnderWay ==
  /\ motor = direction /\ direction # Stop /\ ~doorLamp
  /\ movementTimer # Off /\ loop # "asleep"
  /\ floorEvent # NoEvent => cab = 2 * floorEvent
  /\ OrderAhead

MotionInv ==
  ~overlap =>
     /\ DoorTimersOnlyAtStop /\ loop # "Panic"
     /\ state # "Moving" => AtRest
     /\ state = "Moving" => UnderWay

(* Liveness, until a process leaves a floor with a door timer running.  A cab *)
(* order is cleared, or lost with its process.                                *)
CabServed ==
  \A f \in Floors : <<f, "Cab">> \in queue ~> (<<f, "Cab">> \notin queue \/ overlap)

(* A hall order is cleared, lost with its process, or parked: the elevator    *)
(* stands idle at its floor.                                                  *)
HallServedOrParked ==
  \A o \in HallCalls :
     o \in queue ~> (o \notin queue \/ (state = "Idle" /\ floor = o[1]) \/ overlap)

-----------------------------------------------------------------------------
(* The lift that its passengers see. *)
Passenger == INSTANCE Lift WITH
  position <- cab, doorOpen <- doorLamp, orders <- queue, outOfService <- Exited,
  broken <- overlap

(* One elevator keeps the promises of module Lift: a process that has exited  *)
(* is out of service until its restart, one that has left a floor with a door *)
(* timer running counts as broken.                                            *)
KeepsPromises == Passenger!Spec

-----------------------------------------------------------------------------
(* What a log message of the source says, and the code does not.             *)

(* The door timer expires in state DoorOpen: the doorTimer case announces     *)
(* "Transitioning from DoorOpen to Idle..." (singleElevator.go:109).           *)
DoorTimerMeansDoorOpen == Selecting /\ doorTimer = 0 => state = "DoorOpen"
==============================================================================
