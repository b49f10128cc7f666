------------------------------ MODULE LiftProofs ------------------------------
(***************************************************************************)
(* SingleElevator implements Lift, for every number of floors and every    *)
(* choice of the time limits, provided that floor events are handled       *)
(* before the cab leaves the floor.  Besides the invariants of             *)
(* SingleElevatorProofs the step by step argument needs to know that the   *)
(* order whose clearing is delayed belongs to the floor of the cab, and    *)
(* that an elevator with a closed door has no cab order for its floor.     *)
(***************************************************************************)
EXTENDS SingleElevatorProofs

DelayedHere ==
  oppositeTimer # Off =>
    /\ delayed[1] = floor /\ state = "DoorOpen"
    /\ \E o \in queue : o[1] # floor

NoCabOrderBehindDoor ==
  ~doorLamp /\ state # "Moving" /\ loop # "asleep" => <<floor, "Cab">> \notin queue

PassengerInv == ~overlap => DelayedHere /\ NoCabOrderBehindDoor

(* What holds before a step of a process that has not left a floor with a     *)
(* door timer running.                                                        *)
Good ==
  /\ TypeOK /\ IdleMeansNothingElsewhere
  /\ DoorTimersOnlyAtStop /\ Sound
  /\ DelayedHere /\ NoCabOrderBehindDoor

(* And what has to be shown for it. *)
StepKept ==
  /\ DelayedHere' /\ NoCabOrderBehindDoor'
  /\ Passenger!Request \/ Passenger!Move \/ Passenger!Serve

-----------------------------------------------------------------------------
(* The lift has the floors of the elevator. *)
LEMMA FloorsAgree == Passenger!Floors = Floors
BY DEF Passenger!Floors, Floors

(* A cab at rest is at a floor. *)
LEMMA RestAtAFloor == ASSUME TypeOK, AtRest PROVE Passenger!AtAFloor
BY FloorsAgree DEF TypeOK, AtRest, Passenger!AtAFloor

(* A transition from state Idle only takes orders of this floor, no cab order *)
(* among them, off the queue q.                                               *)
LEMMA ReplanServes ==
  ASSUME TypeOK, AtRest, Selecting, Sound', TypeOK',
         NEW q \in SUBSET Orders, NEW reports, Replan(q, reports), UNCHANGED cab,
         \A o \in queue \ q : o[1] = floor /\ (doorLamp \/ o[2] # "Cab")
  PROVE  /\ Passenger!Serve
         /\ state' \in {"Idle", "Moving"}
         /\ state' = "Idle" => queue' = q
<1> DEFINE next == ChooseDirection(direction, floor, q)
           lingering == {<<floor, HallTowards(next)>>}
<1>1. Passenger!AtAFloor /\ doorLamp' \in BOOLEAN
  BY RestAtAFloor DEF TypeOK
<1>2. cab = 2 * floor
  BY DEF AtRest
<1>3. CASE StayIdle(q, reports)
  BY <1>1, <1>2, <1>3 DEF StayIdle, Passenger!Serve, Passenger!AtPosition
<1>4. CASE Leave(next, q, reports)
  <2>1. queue' = q \ (q \cap lingering) /\ state' = "Moving"
    BY <1>4, RestAtFloor DEF Leave, TypeOK
  <2>2. HallTowards(next) # "Cab"
    BY DEF HallTowards
  <2> HIDE DEF next
  <2>3. \A o \in lingering : o[1] = floor /\ o[2] # "Cab"
    BY <2>2
  <2>4. \A o \in queue \ queue' : o[1] = floor /\ (doorLamp \/ o[2] # "Cab")
    BY <2>1, <2>3
  <2> QED BY <1>1, <1>2, <2>1, <2>4 DEF Passenger!Serve, Passenger!AtPosition
<1> QED BY <1>3, <1>4 DEF Replan

(* An order that is taken. *)
LEMMA TakeOrderKept ==
  ASSUME Good, TypeOK', Sound', DoorTimersOnlyAtStop',
         NEW o \in Orders, NEW reports, TakeOrder(o, reports)
  PROVE  StepKept
<1> DEFINE q == queue \cup {o}
<1>1. /\ Selecting /\ q \in SUBSET Orders
      /\ UNCHANGED <<floor, cab, doorLamp, delayed, oppositeTimer>>
  BY DEF TakeOrder, Good, TypeOK, timers
<1>2. CASE loop' = "asleep" /\ queue' = q /\ state' = state
  BY <1>1, <1>2 DEF StepKept, Good, DelayedHere, NoCabOrderBehindDoor, Passenger!Request
<1>3. CASE /\ ~(floor = o[1] /\ AtFloor /\ state # "Moving")
           /\ HandleStateTransition(state, q, reports, doorTimer)
  <2>1. state # "Moving" => o # <<floor, "Cab">>
    BY <1>3, RestAtFloor DEF Good, Sound, TypeOK
  <2>2. CASE queue' = q /\ state' = state /\ loop' = loop
    BY <1>1, <2>1, <2>2 DEF StepKept, Good, DelayedHere, NoCabOrderBehindDoor, Passenger!Request
  <2>3. CASE state = "Idle" /\ Replan(q, reports)
    <3>1. AtRest /\ oppositeTimer = Off
      BY <2>3 DEF Good, Sound, DelayedHere
    <3>2. Passenger!Serve /\ state' \in {"Idle", "Moving"} /\ (state' = "Idle" => queue' = q)
      BY <1>1, <2>3, <3>1, ReplanServes DEF Good
    <3> QED BY <1>1, <2>1, <2>3, <3>1, <3>2
            DEF StepKept, Good, DelayedHere, NoCabOrderBehindDoor, Selecting
  <2>4. CASE state # "Idle"
    BY <1>3, <2>2, <2>4 DEF HandleStateTransition, KeepDoorOpen
  <2> QED BY <1>3, <2>3, <2>4 DEF HandleStateTransition
<1> QED BY <1>2, <1>3 DEF TakeOrder

(* Arrivals, after a sleep or at a sensor. *)
LEMMA ArrivalKept ==
  ASSUME Good, TypeOK', NEW f \in Floors, ProcessFloorArrival(f), UNCHANGED cab, cab = 2 * f,
         state # "Moving" => f = floor
  PROVE  StepKept
<1>1. Passenger!AtAFloor /\ queue' = queue
  BY FloorsAgree DEF Passenger!AtAFloor, ProcessFloorArrival
<1>2. Passenger!Serve
  BY <1>1 DEF Passenger!Serve, TypeOK
<1>3. DelayedHere'
  BY DEF ProcessFloorArrival, Good, DelayedHere
<1>4. NoCabOrderBehindDoor'
  BY DEF ProcessFloorArrival, hasOrdersAtFloor, Good, NoCabOrderBehindDoor
<1> QED BY <1>2, <1>3, <1>4 DEF StepKept

(* The end of doorTimer. *)
LEMMA DoorTimeoutKept ==
  ASSUME Good, TypeOK', Sound', DoorTimersOnlyAtStop', IdleMeansNothingElsewhere', DoorTimeout
  PROVE  StepKept
<1>1. /\ Selecting /\ state # "Moving" /\ AtRest
      /\ UNCHANGED <<floor, cab>>
      /\ queue \in SUBSET Orders
  BY DEF DoorTimeout, Good, DoorTimersOnlyAtStop, Sound, Off, TypeOK
<1>2. CASE HandleStateTransition(state, queue, {}, Off)
           /\ UNCHANGED <<oppositeTimer, delayed, doorLamp>>
  <2>1. CASE state = "Idle" /\ Replan(queue, {})
    <3>1. Passenger!Serve /\ state' \in {"Idle", "Moving"} /\ (state' = "Idle" => queue' = queue)
      BY <1>1, <2>1, ReplanServes DEF Good
    <3>2. oppositeTimer' = Off
      BY <1>2, <2>1 DEF Good, DelayedHere
    <3> QED BY <1>1, <1>2, <2>1, <3>1, <3>2
            DEF StepKept, Good, DelayedHere, NoCabOrderBehindDoor, Selecting
  <2>2. CASE state = "DoorOpen" /\ KeepDoorOpen(queue, {})
    BY <1>1, <1>2, <2>2
       DEF KeepDoorOpen, StepKept, Good, DelayedHere, NoCabOrderBehindDoor, Passenger!Request
  <2> QED BY <1>1, <1>2, <2>1, <2>2 DEF HandleStateTransition
<1>3. CASE ~obstructed
  <2> DEFINE clear == hallCallClearOrder(floor, direction, queue)
             first == {<<floor, clear.first>>} \ {<<floor, "Cab">>}
             q == (queue \ {<<floor, "Cab">>}) \ first
  <2>1. q \in SUBSET Orders /\ q \subseteq queue /\ <<floor, "Cab">> \notin q
    BY <1>1
  <2>2. \A o \in queue \ q : o[1] = floor /\ (doorLamp \/ o[2] # "Cab")
    <3>1. \A o \in queue \ q : o = <<floor, "Cab">> \/ (o = <<floor, clear.first>> /\ o # <<floor, "Cab">>)
      OBVIOUS
    <3>2. ~doorLamp => <<floor, "Cab">> \notin queue
      BY <1>1 DEF Good, NoCabOrderBehindDoor, Selecting
    <3> HIDE DEF q, first, clear
    <3> QED BY <3>1, <3>2
  <2>3. \A o \in queue : o[1] # floor => o \in q
    OBVIOUS
  <2>4. CASE clear.delay
    <3>1. /\ doorLamp' = TRUE /\ delayed' = <<floor, clear.second>> /\ queue' = q
          /\ state' = state
      BY <1>3, <2>4 DEF DoorTimeout
    <3>2. HasOrdersAbove(floor, queue) # HasOrdersBelow(floor, queue)
      BY <2>4 DEF hallCallClearOrder
    <3>3. \E o \in queue : o[1] # floor
      <4>1. floor \in Int /\ \A o \in queue : o[1] \in Int
        BY <1>1 DEF Orders, Floors, Good, TypeOK
      <4> QED BY <3>2, <4>1 DEF HasOrdersAbove, HasOrdersBelow
    <3>4. state = "DoorOpen"
      BY <1>1, <3>3 DEF Good, IdleMeansNothingElsewhere, TypeOK
    <3> HIDE DEF q, first, clear
    <3>5. DelayedHere' /\ NoCabOrderBehindDoor'
      BY <1>1, <2>3, <3>1, <3>3, <3>4 DEF DelayedHere, NoCabOrderBehindDoor
    <3>6. Passenger!Serve
      BY <1>1, <2>2, <3>1, RestAtAFloor DEF Good, AtRest, Passenger!Serve, Passenger!AtPosition
    <3> QED BY <3>5, <3>6 DEF StepKept
  <2>5. CASE ~clear.delay
    <3>1. /\ doorLamp' = FALSE /\ Replan(q, Finished(first))
          /\ UNCHANGED <<oppositeTimer, delayed>>
      BY <1>3, <2>5 DEF DoorTimeout, HandleStateTransition
    <3> HIDE DEF q, first, clear
    <3>2. Passenger!Serve /\ state' \in {"Idle", "Moving"} /\ (state' = "Idle" => queue' = q)
      BY <1>1, <2>1, <2>2, <3>1, ReplanServes DEF Good
    <3>3. oppositeTimer' = Off
      <4>1. CASE state' = "Moving"
        BY <4>1 DEF DoorTimersOnlyAtStop
      <4>2. CASE state' = "Idle"
        BY <1>1, <2>3, <3>1, <3>2, <4>2 DEF Good, DelayedHere, IdleMeansNothingElsewhere
      <4> QED BY <3>2, <4>1, <4>2
    <3> QED BY <1>1, <2>1, <3>2, <3>3 DEF StepKept, DelayedHere, NoCabOrderBehindDoor
  <2> QED BY <2>4, <2>5
<1> QED BY <1>2, <1>3 DEF DoorTimeout

(* The end of clearOppositeDirectionTimer: the elevator always leaves. *)
LEMMA OppositeTimeoutKept ==
  ASSUME Good, TypeOK', Sound', DoorTimersOnlyAtStop', IdleMeansNothingElsewhere', OppositeTimeout
  PROVE  StepKept
<1> DEFINE q == queue \ {delayed}
<1>1. /\ Selecting /\ oppositeTimer # Off /\ state = "DoorOpen" /\ AtRest
      /\ delayed[1] = floor /\ delayed[2] # "Cab"
      /\ UNCHANGED <<floor, cab>> /\ Replan(q, Finished({delayed}))
      /\ q \in SUBSET Orders
  BY DEF OppositeTimeout, HandleStateTransition, Good, Sound, DelayedHere, Off, TypeOK
<1>2. \A o \in queue \ q : o[1] = floor /\ o[2] # "Cab"
  BY <1>1
<1>3. Passenger!Serve /\ state' \in {"Idle", "Moving"} /\ (state' = "Idle" => queue' = q)
  BY <1>1, <1>2, ReplanServes DEF Good
<1>4. state' # "Idle"
  <2>1. \E o \in q : o[1] # floor
    BY <1>1 DEF Good, DelayedHere
  <2> QED BY <1>1, <1>3, <2>1 DEF IdleMeansNothingElsewhere
<1> QED BY <1>3, <1>4 DEF StepKept, DelayedHere, NoCabOrderBehindDoor, DoorTimersOnlyAtStop

(* The cab moves towards an order ahead of it. *)
LEMMA MoveCabKept ==
  ASSUME PromptSensor, Good, MoveCab
  PROVE  StepKept
<1>1. UnderWay /\ state = "Moving" /\ floorEvent = NoEvent
  BY DEF MoveCab, Good, Sound, AtRest
<1>2. PICK o \in queue : \/ direction = Up /\ 2 * o[1] > cab
                         \/ direction = Down /\ 2 * o[1] < cab
  <2>1. \A o \in queue : o[1] # NoEvent
    BY DEF Good, TypeOK, Orders, Floors, NoEvent
  <2> QED BY <1>1, <2>1 DEF UnderWay, OrderAhead
<1>3. cab' = cab + direction /\ cab \in Int /\ ~doorLamp
      /\ UNCHANGED <<doorLamp, queue, state, oppositeTimer>>
  BY <1>1 DEF MoveCab, UnderWay, Good, TypeOK, elevator, timers
<1>4. Passenger!Move
  BY <1>2, <1>3 DEF Passenger!Move, Up, Down
<1>5. DelayedHere' /\ NoCabOrderBehindDoor'
  BY <1>1, <1>3 DEF DelayedHere, NoCabOrderBehindDoor, Good
<1> QED BY <1>4, <1>5 DEF StepKept

(* Every step of a process that has not left a floor with a door timer        *)
(* running, and does not, is a step of Lift and keeps the invariants.         *)
LEMMA GoodStep ==
  ASSUME PromptSensor, Good, TypeOK', Sound', DoorTimersOnlyAtStop', IdleMeansNothingElsewhere',
         Handlers \/ MoveCab \/ Tick
  PROVE  StepKept
<1>1. ASSUME NEW f \in Floors, ProcessCabButton(f) PROVE StepKept
  BY <1>1, TakeOrderKept DEF ProcessCabButton, Orders, Buttons
<1>2. ASSUME NEW o \in HallCalls \cup (Floors \X {"Cab"}), handleAssignedHallCall(o)
      PROVE  StepKept
  <2>1. o \in Orders
    BY HallCallsAssumption DEF Orders, Buttons
  <2> QED BY <1>2, <2>1, TakeOrderKept DEF handleAssignedHallCall
<1>3. CASE WakeUp
  <2>1. AtRest /\ state # "Moving" /\ floor \in Floors
    BY <1>3 DEF WakeUp, Good, Sound, UnderWay, TypeOK
  <2> QED BY <1>3, <2>1, ArrivalKept DEF WakeUp, AtRest
<1>4. CASE FloorSensorEvent
  <2>1. state = "Moving" /\ cab = 2 * floorEvent /\ floorEvent \in Floors
    BY <1>4 DEF FloorSensorEvent, Good, Sound, AtRest, UnderWay, TypeOK
  <2> QED BY <1>4, <2>1, ArrivalKept DEF FloorSensorEvent
<1>5. CASE ProcessObstruction
  <2>1. DelayedHere' /\ NoCabOrderBehindDoor'
    BY <1>5 DEF ProcessObstruction, Good, DelayedHere, NoCabOrderBehindDoor
  <2>2. CASE state # "DoorOpen"
    BY <1>5, <2>1, <2>2 DEF ProcessObstruction, StepKept, Passenger!Request
  <2>3. CASE state = "DoorOpen"
    <3>1. Passenger!AtAFloor
      BY <2>3, RestAtAFloor DEF Good, Sound
    <3> QED BY <1>5, <2>1, <3>1 DEF ProcessObstruction, StepKept, Passenger!Serve, TypeOK
  <2> QED BY <2>2, <2>3
<1>6. CASE DoorTimeout
  BY <1>6, DoorTimeoutKept
<1>7. CASE OppositeTimeout
  BY <1>7, OppositeTimeoutKept
<1>8. CASE PowerLoss \/ ObstructedTooLong
  BY <1>8 DEF PowerLoss, ObstructedTooLong, forceShutdown, elevator, timers, hardware, Selecting,
              StepKept, Good, DelayedHere, NoCabOrderBehindDoor, Passenger!Request
<1>9. CASE MoveCab
  BY <1>9, MoveCabKept
<1>10. CASE Tick
  <2>1. oppositeTimer' # Off => oppositeTimer # Off
    BY <1>10 DEF Tick, CountDown, Off
  <2> QED BY <1>10, <2>1 DEF Tick, elevator, hardware, StepKept, Good, DelayedHere,
                             NoCabOrderBehindDoor, Passenger!Request
<1> QED BY <1>1, <1>2, <1>3, <1>4, <1>5, <1>6, <1>7, <1>8, <1>9, <1>10 DEF Handlers

(* A restart repairs the lift. *)
LEMMA RestartRepairs ==
  ASSUME TypeOK, restartElevator, RememberOverlap
  PROVE  Passenger!Repair /\ PassengerInv'
<1>1. /\ cab' = 2 * (cab \div 2) /\ queue' = {} /\ ~doorLamp' /\ oppositeTimer' = Off
      /\ doorTimer' = Off /\ Exited
  BY DEF restartElevator, HomePosition, SensorFloor
<1>2. ~overlap'
  BY <1>1 DEF RememberOverlap, DoorTimersOnlyAtStop
<1>3. cab' \in {cab, cab - 1} /\ cab \div 2 \in Floors
  BY <1>1, SensorFloorIsAFloor, NumFloorsAssumption DEF TypeOK, Top
<1>4. ~Exited'
  BY DEF restartElevator, Exited, ExitReasons
<1>5. Passenger!Repair
  BY <1>1, <1>2, <1>3, <1>4, FloorsAgree DEF Passenger!Repair, Passenger!AtAFloor
<1>6. PassengerInv'
  BY <1>1 DEF PassengerInv, DelayedHere, NoCabOrderBehindDoor
<1> QED BY <1>5, <1>6

(* Only a restart ends an overlap, and it needs the process to have exited. *)
LEMMA ExitedOnlyRestarts ==
  ASSUME Exited, Handlers \/ MoveCab \/ Tick
  PROVE  FALSE
BY DEF Handlers, ProcessCabButton, handleAssignedHallCall, TakeOrder, WakeUp, FloorSensorEvent,
   ProcessObstruction, DoorTimeout, OppositeTimeout, PowerLoss, ObstructedTooLong, forceShutdown,
   MoveCab, Tick, Selecting, Exited, ExitReasons

(* Every step maps to a step of Lift or to a stutter. *)
LEMMA StepRefines ==
  ASSUME PromptSensor, TypeOK, TypeOK', IdleMeansNothingElsewhere, IdleMeansNothingElsewhere',
         MotionInv, MotionInv', PassengerInv, [Next]_vars
  PROVE  [Passenger!Next]_Passenger!vars /\ PassengerInv'
<1>1. CASE UNCHANGED vars
  BY <1>1 DEF vars, elevator, timers, hardware, Exited, Passenger!vars,
              PassengerInv, DelayedHere, NoCabOrderBehindDoor
<1>2. CASE restartElevator /\ RememberOverlap
  BY <1>2, RestartRepairs DEF Passenger!Next
<1>3. CASE (Handlers \/ MoveCab \/ Tick) /\ RememberOverlap
  <2>1. CASE overlap'
    BY <2>1 DEF Passenger!Next, PassengerInv
  <2>2. CASE ~overlap'
    <3>1. ~overlap /\ ~Exited
      BY <1>3, <2>2, ExitedOnlyRestarts DEF RememberOverlap
    <3>2. Good /\ Sound' /\ DoorTimersOnlyAtStop'
      BY <2>2, <3>1 DEF Good, MotionInv, Sound, PassengerInv
    <3>3. StepKept
      BY <1>3, <3>2, GoodStep
    <3> QED BY <2>2, <3>1, <3>3 DEF StepKept, Passenger!Next, PassengerInv
  <2> QED BY <2>1, <2>2
<1> QED BY <1>1, <1>2, <1>3 DEF Next

(* With a prompt sensor one elevator, its hardware and its supervisor         *)
(* implement the lift that passengers expect.                                 *)
THEOREM Implementation ==
  ASSUME PromptSensor
  PROVE  Spec => KeepsPromises
<1>1. Init => Passenger!Init /\ PassengerInv
  BY FloorsAgree DEF Init, Exited, ExitReasons, Passenger!Init, Passenger!AtAFloor, PassengerInv, DelayedHere, NoCabOrderBehindDoor
<1>2. TypeOK /\ TypeOK' /\ IdleMeansNothingElsewhere /\ IdleMeansNothingElsewhere'
      /\ MotionInv /\ MotionInv' /\ PassengerInv /\ [Next]_vars
      => [Passenger!Next]_Passenger!vars /\ PassengerInv'
  BY StepRefines
<1> QED
  BY <1>1, <1>2, TypeCorrect, IdleTheorem, MotionTheorem, PTL DEF Spec, KeepsPromises, Passenger!Spec

-----------------------------------------------------------------------------
(* Finished statuses.                                                         *)

(* PassengerInv holds as well, with a prompt sensor.                          *)
THEOREM PassengerTheorem ==
  ASSUME PromptSensor
  PROVE  Spec => []PassengerInv
<1>1. Init => PassengerInv
  BY DEF Init, PassengerInv, DelayedHere, NoCabOrderBehindDoor
<1>2. TypeOK /\ TypeOK' /\ IdleMeansNothingElsewhere /\ IdleMeansNothingElsewhere'
      /\ MotionInv /\ MotionInv' /\ PassengerInv /\ [Next]_vars
      => PassengerInv'
  BY StepRefines
<1> QED
  BY <1>1, <1>2, TypeCorrect, IdleTheorem, MotionTheorem, PTL DEF Spec

(* While its timer runs the delayed call stays in the queue. *)
DelayedQueued == ~overlap /\ oppositeTimer # Off => delayed \in queue

(* The delayed order stays in the queue until it is cleared. *)
LEMMA DelayedQueuedInductive ==
  ASSUME PromptSensor, TypeOK, TypeOK', MotionInv, PassengerInv, PassengerInv', DelayedQueued, [Next]_vars
  PROVE  DelayedQueued'
<1> SUFFICES ASSUME ~overlap', oppositeTimer' # Off
             PROVE  delayed' \in queue'
  BY DEF DelayedQueued
<1>1. CASE UNCHANGED vars
  BY <1>1 DEF vars, elevator, timers, DelayedQueued
<1>2. CASE restartElevator
  BY <1>2 DEF restartElevator
<1>3. CASE (Handlers \/ MoveCab \/ Tick) /\ RememberOverlap
  <2>1. ~overlap
    BY <1>3, ExitedOnlyRestarts DEF RememberOverlap
  <2>2. DelayedHere /\ DelayedHere' /\ (oppositeTimer # Off => delayed \in queue)
    BY <2>1 DEF PassengerInv, DelayedQueued
  <2>3. state' = "DoorOpen"
    BY <2>2 DEF DelayedHere
  <2>4. CASE DoorTimeout
    <3>1. CASE HandleStateTransition(state, queue, {}, Off) /\ UNCHANGED <<oppositeTimer, delayed>>
      BY <2>2, <2>3, <3>1 DEF HandleStateTransition, Replan, StayIdle, Leave, KeepDoorOpen
    <3>2. CASE ~obstructed
      <4> DEFINE clear == hallCallClearOrder(floor, direction, queue)
                 first == {<<floor, clear.first>>} \ {<<floor, "Cab">>}
                 q == (queue \ {<<floor, "Cab">>}) \ first
      <4>1. CASE clear.delay
        <5>1. delayed' = <<floor, clear.second>> /\ queue' = q
          BY <2>4, <3>2, <4>1 DEF DoorTimeout
        <5>2. <<floor, clear.second>> \in queue /\ clear.second # "Cab" /\ clear.second # clear.first
          BY <4>1, ClearedCall
        <5> HIDE DEF clear
        <5> QED
          BY <5>1, <5>2
      <4>2. CASE ~clear.delay
        <5>1. HandleStateTransition("Idle", q, Finished(first), Off)
          BY <2>4, <3>2, <4>2 DEF DoorTimeout
        <5>2. state' # "DoorOpen"
          BY <5>1 DEF HandleStateTransition, Replan, StayIdle, Leave
        <5> QED
          BY <2>3, <5>2
      <4> QED
        BY <4>1, <4>2
    <3> QED
      BY <2>4, <3>1, <3>2 DEF DoorTimeout
  <2>5. CASE OppositeTimeout
    BY <2>5 DEF OppositeTimeout
  <2>6. ASSUME NEW o \in Orders, NEW reports, TakeOrder(o, reports)
        PROVE  delayed' \in queue'
    <3>1. delayed \in queue /\ state = "DoorOpen" /\ delayed' = delayed
      BY <2>2, <2>6 DEF TakeOrder, timers, DelayedHere
    <3>2. queue' = queue \cup {o}
      BY <2>6, <3>1 DEF TakeOrder, HandleStateTransition, KeepDoorOpen
    <3> QED
      BY <3>1, <3>2
  <2>7. CASE \E f \in Floors : ProcessCabButton(f)
    BY <2>6, <2>7 DEF ProcessCabButton, Orders, Buttons
  <2>8. CASE \E o \in HallCalls \cup (Floors \X {"Cab"}) : handleAssignedHallCall(o)
    BY <2>6, <2>8, HallCallsAssumption DEF handleAssignedHallCall, Orders, Buttons
  <2>9. CASE WakeUp \/ FloorSensorEvent \/ ProcessObstruction \/ PowerLoss \/ ObstructedTooLong
             \/ MoveCab \/ Tick
    BY <2>2, <2>9 DEF WakeUp, FloorSensorEvent, ProcessFloorArrival, ProcessObstruction, PowerLoss,
       ObstructedTooLong, forceShutdown, MoveCab, Tick, CountDown, Off, elevator, timers
  <2> QED
    BY <1>3, <2>4, <2>5, <2>7, <2>8, <2>9 DEF Handlers
<1> QED
  BY <1>1, <1>2, <1>3 DEF Next

(* Every order reported as finished was in the queue, but for the zero value  *)
(* that an empty queue makes hallCallClearOrder return: in particular the     *)
(* delayed call is still there at the end of its timer.                       *)
THEOREM PhantomTheorem ==
  ASSUME PromptSensor
  PROVE  Spec => PhantomOnlyWhenEmpty
<1> DEFINE Real(r) == r.status = "Finished" =>
             r.order \in queue \/ overlap' \/ (queue = {} /\ r.order = <<floor, "HallUp">>)
<1>1. ASSUME TypeOK, MotionInv, PassengerInv, DelayedQueued, [Next]_vars, ~UNCHANGED vars,
             NEW r \in sent', r.status = "Finished", ~overlap'
      PROVE  r.order \in queue \/ (queue = {} /\ r.order = <<floor, "HallUp">>)
  <2>1. CASE DoorTimeout
    <3> DEFINE clear == hallCallClearOrder(floor, direction, queue)
               first == {<<floor, clear.first>>} \ {<<floor, "Cab">>}
               q == (queue \ {<<floor, "Cab">>}) \ first
    <3>1. CASE HandleStateTransition(state, queue, {}, Off)
      BY <3>1, TransitionFinishes
    <3>2. CASE r \in Finished(first)
      <4>1. r.order = <<floor, clear.first>> /\ clear.first # "Cab"
        BY <3>2 DEF Finished, Report
      <4>2. \/ clear.first = "Cab" \/ <<floor, clear.first>> \in queue
            \/ queue = {} /\ clear.first = "HallUp"
        BY <1>1, ClearedCall
      <4> HIDE DEF clear
      <4> QED
        BY <4>1, <4>2
    <3>3. CASE ~obstructed /\ r \notin Finished(first)
      <4>1. HandleStateTransition("Idle", q, Finished(first), Off)
        BY <2>1, <3>3 DEF DoorTimeout
      <4>2. r.order \in q
        BY <3>3, <4>1, TransitionFinishes
      <4> QED
        BY <4>2
    <3> QED
      BY <2>1, <3>1, <3>2, <3>3 DEF DoorTimeout
  <2>2. ~DoorTimeout => ~overlap
    <3>1. ~restartElevator
      BY <1>1 DEF restartElevator
    <3> QED
      BY <1>1, <3>1, ExitedOnlyRestarts DEF Next, RememberOverlap
  <2>3. CASE OppositeTimeout /\ ~DoorTimeout
    <3>1. delayed \in queue
      BY <1>1, <2>2, <2>3 DEF OppositeTimeout, DelayedQueued, Off
    <3>2. HandleStateTransition("Idle", queue \ {delayed}, Finished({delayed}), doorTimer)
      BY <2>3 DEF OppositeTimeout
    <3>3. r \in Finished({delayed}) => r.order = delayed
      BY DEF Finished, Report
    <3> QED
      BY <3>1, <3>2, <3>3, TransitionFinishes
  <2>4. CASE ~DoorTimeout /\ ~OppositeTimeout
    <3>1. PICK o \in Orders :
            /\ state = "Idle" /\ AtFloor
            /\ r.order \in queue \cup {o} /\ r.order = <<SensorFloor, HallTowards(direction')>>
            /\ ~(floor = o[1] /\ AtFloor)
      BY <1>1, <2>4, OtherStepsFinish
    <3>2. SensorFloor = floor
      BY <1>1, <2>2, <2>4, <3>1, PositionOfFloor DEF MotionInv, AtRest, SensorFloor, TypeOK
    <3> QED
      BY <3>1, <3>2
  <2> QED
    BY <2>1, <2>3, <2>4
<1>2. TypeOK /\ MotionInv /\ PassengerInv /\ DelayedQueued /\ [Next]_vars => [\A r \in sent' : Real(r)]_vars
  BY <1>1
<1>3. Init => DelayedQueued
  BY DEF Init, DelayedQueued
<1> QED
  BY <1>2, <1>3, DelayedQueuedInductive, TypeCorrect, MotionTheorem, PassengerTheorem, PTL
     DEF Spec, PhantomOnlyWhenEmpty
================================================================================
