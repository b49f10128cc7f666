------------------------- MODULE SingleElevatorProofs -------------------------
(***************************************************************************)
(* Theorems about SingleElevator, for every number of floors, every choice *)
(* of the time limits and every set of hall calls.                         *)
(***************************************************************************)
EXTENDS SingleElevator, TLAPS

Reports == [order : Orders, status : {"Finished", "Unfinished"}]

(* A position inside the shaft belongs to the floor below it or at it. *)
LEMMA SensorFloorIsAFloor ==
  ASSUME NEW c \in 0 .. Top
  PROVE  /\ c \div 2 \in Floors
         /\ 2 * (c \div 2) \in 0 .. Top
         /\ c % 2 = 0 => c = 2 * (c \div 2)
BY NumFloorsAssumption DEF Top, Floors

(* At a sensor the position is twice the floor the sensor reads. *)
LEMMA PositionOfFloor ==
  ASSUME NEW f \in Floors
  PROVE  2 * f \in 0 .. Top /\ (2 * f) % 2 = 0 /\ (2 * f) \div 2 = f
BY NumFloorsAssumption DEF Top, Floors

(* ChooseDirection leads towards an order, and stops only without one. *)
LEMMA ChooseDirectionLeads ==
  ASSUME NEW d \in Directions, NEW f \in Floors, NEW q
  PROVE  LET next == ChooseDirection(d, f, q)
         IN  /\ next \in Directions
             /\ next = Up => HasOrdersAbove(f, q)
             /\ next = Down => HasOrdersBelow(f, q)
             /\ next = Stop => ~HasOrdersAbove(f, q) /\ ~HasOrdersBelow(f, q)
BY DEF ChooseDirection, Directions, Up, Down, Stop

(* hallCallClearOrder returns buttons, and delays only a hall button. *)
LEMMA ClearOrderButtons ==
  ASSUME NEW f \in Floors, NEW d \in Directions, NEW q
  PROVE  LET clear == hallCallClearOrder(f, d, q)
         IN  /\ clear.first \in Buttons
             /\ clear.delay => clear.second \in {"HallUp", "HallDown"}
<1>1. HallTowards(d) \in {"HallUp", "HallDown"}
  BY DEF HallTowards
<1> QED
  BY <1>1 DEF hallCallClearOrder, Buttons, Opposite

(* What a transition leaves in the variables it touches has its type. *)
LEMMA TransitionType ==
  ASSUME TypeOK, NEW s \in {"Idle", "Moving", "DoorOpen"}, NEW q \in SUBSET Orders,
         NEW reports \in SUBSET Reports, NEW door \in Timer(DoorOpenTime),
         HandleStateTransition(s, q, reports, door)
  PROVE  /\ direction' \in Directions /\ queue' \subseteq Orders
         /\ state' \in {"Idle", "Moving", "DoorOpen"}
         /\ doorTimer' \in Timer(DoorOpenTime)
         /\ movementTimer' \in Timer(notMovingTimeLimit)
         /\ obstructionTimer' \in Timer(obstructionTimeLimit)
         /\ loop' \in {"select", "asleep"} \cup ExitReasons
         /\ sent' \subseteq Reports
         /\ motor' \in Directions
<1>1. Off \in Timer(notMovingTimeLimit) /\ Off \in Timer(obstructionTimeLimit)
      /\ notMovingTimeLimit \in Timer(notMovingTimeLimit)
      /\ obstructionTimeLimit \in Timer(obstructionTimeLimit)
      /\ Off \in Timer(DoorOpenTime) /\ DoorOpenTime \in Timer(DoorOpenTime)
  BY TimeAssumption DEF Timer, Off
<1>2. CASE s = "Idle" /\ Replan(q, reports) /\ doorTimer' = door
  <2> DEFINE next == ChooseDirection(direction, floor, q)
  <2>1. next \in Directions
    BY ChooseDirectionLeads DEF TypeOK
  <2>2. CASE StayIdle(q, reports)
    BY <1>1, <1>2, <2>2 DEF StayIdle, Replan, TypeOK
  <2>3. CASE Leave(next, q, reports)
    <3>1. Finished(q \cap {<<SensorFloor, HallTowards(next)>>}) \subseteq Reports
      BY DEF Finished, Report, Reports
    <3> QED
      BY <1>1, <1>2, <2>1, <2>3, <3>1 DEF Leave, Replan, TypeOK, ExitReasons
  <2> QED
    BY <1>2, <2>2, <2>3 DEF Replan
<1>3. CASE s = "Moving" /\ HandleStateTransition(s, q, reports, door)
  BY <1>1, <1>3 DEF HandleStateTransition, TypeOK
<1>4. CASE s = "DoorOpen" /\ KeepDoorOpen(q, reports)
  BY <1>1, <1>4 DEF KeepDoorOpen, TypeOK
<1> QED
  BY <1>2, <1>3, <1>4 DEF HandleStateTransition

(* ProcessFloorArrival at a floor keeps the types of what it assigns. *)
LEMMA ArrivalType ==
  ASSUME TypeOK, NEW f \in Floors, ProcessFloorArrival(f)
  PROVE  /\ floor' \in Floors /\ state' \in {"Idle", "Moving", "DoorOpen"}
         /\ movementTimer' \in Timer(notMovingTimeLimit)
         /\ doorTimer' \in Timer(DoorOpenTime)
         /\ motor' \in Directions /\ doorLamp' \in BOOLEAN /\ sent' \subseteq Reports
<1>1. notMovingTimeLimit \in Timer(notMovingTimeLimit) /\ DoorOpenTime \in Timer(DoorOpenTime)
  BY TimeAssumption DEF Timer, Off
<1> QED
  BY <1>1 DEF ProcessFloorArrival, TypeOK, Directions, Stop

(* A timer can be stopped and can be set to its limit, and the first floor,   *)
(* no sleep and no inputs are in range.                                        *)
LEMMA TimerRanges ==
  /\ \A limit \in Nat : Off \in Timer(limit) /\ limit \in Timer(limit)
  /\ {DoorOpenTime, notMovingTimeLimit, obstructionTimeLimit, SleepTime} \subseteq Nat
  /\ 0 \in Floors /\ 0 \in 0 .. SleepTime /\ 0 \in 0 .. MaxInputs
BY NumFloorsAssumption, TimeAssumption, ModelAssumption DEF Timer, Off, Floors

(* A second off a timer leaves it in its range. *)
LEMMA CountDownType ==
  ASSUME NEW limit \in Nat, NEW t \in Timer(limit)
  PROVE  CountDown(t) \in Timer(limit)
BY DEF CountDown, Timer, Off

(* Every step of every action keeps TypeOK. *)
LEMMA TypeInductive == TypeOK /\ [Next]_vars => TypeOK'
<1> SUFFICES ASSUME TypeOK, [Next]_vars PROVE TypeOK'
  OBVIOUS
<1>0. overlap' \in BOOLEAN
  BY DEF TypeOK, Next, RememberOverlap, vars, DoorTimersOnlyAtStop
<1>t. /\ \A limit \in Nat : Off \in Timer(limit) /\ limit \in Timer(limit)
      /\ {DoorOpenTime, notMovingTimeLimit, obstructionTimeLimit, SleepTime} \subseteq Nat
  BY TimerRanges
<1>f. SensorFloor \in Floors /\ 2 * SensorFloor \in 0 .. Top
  BY SensorFloorIsAFloor DEF TypeOK, SensorFloor
<1>1. ASSUME NEW o \in Orders, NEW reports \in SUBSET Reports, TakeOrder(o, reports)
      PROVE  TypeOK'
  <2>1. queue \cup {o} \in SUBSET Orders /\ inputs' \in 0 .. MaxInputs
    BY <1>1, ModelAssumption DEF TypeOK, TakeOrder
  <2>2. CASE HandleStateTransition(state, queue \cup {o}, reports, doorTimer)
             /\ UNCHANGED <<oppositeTimer, sleepLeft>>
    <3>1. /\ direction' \in Directions /\ queue' \subseteq Orders
          /\ state' \in {"Idle", "Moving", "DoorOpen"}
          /\ doorTimer' \in Timer(DoorOpenTime)
          /\ movementTimer' \in Timer(notMovingTimeLimit)
          /\ obstructionTimer' \in Timer(obstructionTimeLimit)
          /\ loop' \in {"select", "asleep"} \cup ExitReasons
          /\ sent' \subseteq Reports
          /\ motor' \in Directions
      BY <2>1, <2>2, TransitionType DEF TypeOK
    <3> QED
      BY <1>0, <1>1, <2>1, <2>2, <3>1 DEF TypeOK, TakeOrder, pollers, Reports
  <2>3. CASE queue' = queue \cup {o} /\ sent' = reports /\ loop' = "asleep"
             /\ sleepLeft' = SleepTime /\ UNCHANGED <<direction, state, motor, timers>>
    <3>1. sleepLeft' \in 0 .. SleepTime
      BY <2>3, TimeAssumption
    <3> QED
      BY <1>0, <1>1, <2>1, <2>3, <3>1 DEF TypeOK, TakeOrder, pollers, timers, Reports
  <2> QED
    BY <1>1, <2>2, <2>3 DEF TakeOrder
<1>2. ASSUME NEW f \in Floors, ProcessCabButton(f) PROVE TypeOK'
  BY <1>1, <1>2 DEF ProcessCabButton, Orders, Buttons
<1>3. ASSUME NEW o \in HallCalls \cup (Floors \X {"Cab"}), handleAssignedHallCall(o)
      PROVE  TypeOK'
  <2>1. o \in Orders
    BY HallCallsAssumption DEF Orders, Buttons
  <2>2. Report(o, "Unfinished") \in Reports
    BY <2>1 DEF Report, Reports
  <2> QED
    BY <1>1, <1>3, <2>1, <2>2 DEF handleAssignedHallCall
<1>4. CASE WakeUp
  BY <1>0, <1>4, ArrivalType DEF WakeUp, ProcessFloorArrival, pollers, TypeOK, Reports
<1>5. CASE FloorSensorEvent
  <2>1. floorEvent \in Floors
    BY <1>5 DEF FloorSensorEvent, TypeOK
  <2> QED
    BY <1>0, <1>5, <1>f, <2>1, ArrivalType DEF FloorSensorEvent, ProcessFloorArrival, TypeOK, Reports
<1>6. CASE ProcessObstruction
  <2>1. inputs' \in 0 .. MaxInputs
    BY <1>6, ModelAssumption DEF TypeOK, ProcessObstruction
  <2> QED
    BY <1>0, <1>6, <1>t, <2>1 DEF ProcessObstruction, TypeOK, Directions, Stop
<1>7. CASE DoorTimeout
  <2>1. CASE obstructed /\ HandleStateTransition(state, queue, {}, Off)
             /\ UNCHANGED <<oppositeTimer, delayed, doorLamp>>
    <3>1. queue \in SUBSET Orders /\ {} \in SUBSET Reports /\ Off \in Timer(DoorOpenTime)
          /\ state \in {"Idle", "Moving", "DoorOpen"}
      BY <1>t DEF TypeOK
    <3>2. /\ direction' \in Directions /\ queue' \subseteq Orders
          /\ state' \in {"Idle", "Moving", "DoorOpen"}
          /\ doorTimer' \in Timer(DoorOpenTime)
          /\ movementTimer' \in Timer(notMovingTimeLimit)
          /\ obstructionTimer' \in Timer(obstructionTimeLimit)
          /\ loop' \in {"select", "asleep"} \cup ExitReasons
          /\ sent' \subseteq Reports
          /\ motor' \in Directions
      BY <2>1, <3>1, TransitionType
    <3> QED
      BY <1>0, <1>7, <2>1, <3>2 DEF DoorTimeout, TypeOK, pollers, Reports
  <2>2. CASE ~obstructed
    <3> DEFINE clear == hallCallClearOrder(floor, direction, queue)
               first == {<<floor, clear.first>>} \ {<<floor, "Cab">>}
               q == (queue \ {<<floor, "Cab">>}) \ first
    <3>1. clear.first \in Buttons /\ (clear.delay => clear.second \in {"HallUp", "HallDown"})
      BY ClearOrderButtons DEF TypeOK
    <3> HIDE DEF clear
    <3>2. first \in SUBSET Orders /\ q \in SUBSET Orders
      BY <3>1 DEF TypeOK, Orders
    <3> HIDE DEF first, q
    <3>3. Finished(first) \in SUBSET Reports
      BY <3>2 DEF Finished, Report, Reports
    <3>4. CASE clear.delay
      <4>1. /\ doorLamp' = TRUE /\ doorTimer' = Off /\ movementTimer' = Off
            /\ oppositeTimer' = DoorOpenTime /\ delayed' = <<floor, clear.second>>
            /\ queue' = q /\ sent' = Finished(first)
            /\ UNCHANGED <<direction, state, obstructionTimer, motor, loop>>
            /\ UNCHANGED <<floor, obstructed, sleepLeft, cab, pollers, inputs>>
        BY <1>7, <2>2, <3>4 DEF DoorTimeout, first, q, clear
      <4> QED
        BY <1>0, <1>t, <3>1, <3>2, <3>3, <3>4, <4>1 DEF TypeOK, pollers, Reports
    <3>5. CASE ~clear.delay
      <4>1. /\ doorLamp' = FALSE /\ HandleStateTransition("Idle", q, Finished(first), Off)
            /\ UNCHANGED <<oppositeTimer, delayed>>
            /\ UNCHANGED <<floor, obstructed, sleepLeft, cab, pollers, inputs>>
        BY <1>7, <2>2, <3>5 DEF DoorTimeout, first, q, clear
      <4>2. Off \in Timer(DoorOpenTime)
        BY <1>t
      <4>3. /\ direction' \in Directions /\ queue' \subseteq Orders
            /\ state' \in {"Idle", "Moving", "DoorOpen"}
            /\ doorTimer' \in Timer(DoorOpenTime)
            /\ movementTimer' \in Timer(notMovingTimeLimit)
            /\ obstructionTimer' \in Timer(obstructionTimeLimit)
            /\ loop' \in {"select", "asleep"} \cup ExitReasons
            /\ sent' \subseteq Reports
            /\ motor' \in Directions
        BY <3>2, <3>3, <4>1, <4>2, TransitionType
      <4> QED
        BY <1>0, <4>1, <4>3 DEF TypeOK, pollers, Reports
    <3> QED
      BY <3>4, <3>5
  <2> QED
    BY <1>7, <2>1, <2>2 DEF DoorTimeout
<1>8. CASE OppositeTimeout
  <2>1. delayed \in Orders
    BY DEF TypeOK, Orders, Buttons
  <2>2. queue \ {delayed} \in SUBSET Orders /\ Finished({delayed}) \in SUBSET Reports
        /\ doorTimer \in Timer(DoorOpenTime)
    BY <2>1 DEF TypeOK, Finished, Report, Reports
  <2>3. /\ direction' \in Directions /\ queue' \subseteq Orders
        /\ state' \in {"Idle", "Moving", "DoorOpen"}
        /\ doorTimer' \in Timer(DoorOpenTime)
        /\ movementTimer' \in Timer(notMovingTimeLimit)
        /\ obstructionTimer' \in Timer(obstructionTimeLimit)
        /\ loop' \in {"select", "asleep"} \cup ExitReasons
        /\ sent' \subseteq Reports
        /\ motor' \in Directions
    BY <1>8, <2>2, TransitionType DEF OppositeTimeout
  <2> QED
    BY <1>0, <1>8, <1>t, <2>3 DEF OppositeTimeout, TypeOK, pollers, Reports
<1>9. CASE PowerLoss \/ ObstructedTooLong
  BY <1>0, <1>9 DEF PowerLoss, ObstructedTooLong, forceShutdown, TypeOK, ExitReasons,
     elevator, timers, hardware, pollers
<1>10. CASE restartElevator
  BY <1>0, <1>10, <1>f, TimerRanges
     DEF restartElevator, HomePosition, TypeOK, Directions
<1>11. CASE MoveCab
  <2>1. cab' \in 0 .. Top
    BY <1>11 DEF MoveCab
  <2>2. floorEvent' \in Floors \cup {NoEvent}
    BY <1>11, <2>1, SensorFloorIsAFloor DEF MoveCab, TypeOK
  <2> QED
    BY <1>0, <1>11, <2>1, <2>2 DEF MoveCab, TypeOK, elevator, timers
<1>12. CASE Tick
  <2>1. sleepLeft' \in 0 .. SleepTime
    BY <1>12, <1>t DEF Tick, TypeOK, CountDown
  <2> QED
    BY <1>0, <1>12, <1>t, <2>1, CountDownType DEF Tick, TypeOK, elevator, hardware, pollers
<1>13. CASE UNCHANGED vars
  BY <1>13 DEF vars, elevator, timers, hardware, pollers, TypeOK
<1> QED
  BY <1>2, <1>3, <1>4, <1>5, <1>6, <1>7, <1>8, <1>9, <1>10, <1>11, <1>12, <1>13
     DEF Next, Handlers

(* Type correctness: every variable keeps its type in every behaviour. *)
THEOREM TypeCorrect == Spec => []TypeOK
<1>1. Init => TypeOK
  <2> SUFFICES ASSUME Init PROVE TypeOK
    OBVIOUS
  <2>1. cab \in 0 .. Top /\ floor \in Floors
    BY NumFloorsAssumption, PositionOfFloor DEF Init, SensorFloor
  <2> QED
    BY <2>1, TimerRanges DEF Init, TypeOK, Directions
<1> QED
  BY <1>1, TypeInductive, PTL DEF Spec

-----------------------------------------------------------------------------
(* obstructionTimer runs only with an obstructed open door, so that its       *)
(* expiry finds one.                                                          *)
ObstructionInv ==
  /\ obstructionTimer # Off => obstructed /\ state = "DoorOpen"
  /\ ShutdownOnlyIfObstructed

(* A transition out of such a state keeps obstructionTimer honest. *)
LEMMA TransitionObstruction ==
  ASSUME NEW s, NEW q, NEW reports, NEW door, loop \notin ExitReasons,
         obstructionTimer # Off => obstructed /\ (state = "DoorOpen"),
         s \in {state, "Idle"}, UNCHANGED obstructed,
         HandleStateTransition(s, q, reports, door)
  PROVE  ObstructionInv'
<1>1. loop' # "ObstructedTooLong"
  BY DEF HandleStateTransition, Replan, StayIdle, Leave, KeepDoorOpen, ExitReasons
<1> QED
  BY <1>1 DEF HandleStateTransition, Replan, StayIdle, Leave, KeepDoorOpen,
     ObstructionInv, ShutdownOnlyIfObstructed, Off

(* Every step keeps ObstructionInv. *)
LEMMA ObstructionInductive == TypeOK /\ ObstructionInv /\ [Next]_vars => ObstructionInv'
<1> SUFFICES ASSUME TypeOK, ObstructionInv, [Next]_vars PROVE ObstructionInv'
  OBVIOUS
<1> USE DEF Selecting, ExitReasons
<1>1. ASSUME NEW o, NEW reports, TakeOrder(o, reports) PROVE ObstructionInv'
  <2>1. CASE HandleStateTransition(state, queue \cup {o}, reports, doorTimer)
    BY <1>1, <2>1, TransitionObstruction DEF TakeOrder, ObstructionInv
  <2>2. CASE loop' = "asleep" /\ UNCHANGED <<direction, state, motor, timers>>
    BY <1>1, <2>2 DEF TakeOrder, ObstructionInv, ShutdownOnlyIfObstructed, timers
  <2> QED
    BY <1>1, <2>1, <2>2 DEF TakeOrder
<1>2. ASSUME NEW f, ProcessFloorArrival(f), loop' = "select" PROVE ObstructionInv'
  BY <1>2 DEF ProcessFloorArrival, ObstructionInv, ShutdownOnlyIfObstructed
<1>3. CASE WakeUp
  BY <1>2, <1>3 DEF WakeUp
<1>4. CASE FloorSensorEvent
  BY <1>2, <1>4 DEF FloorSensorEvent
<1>5. CASE ProcessObstruction
  BY <1>5 DEF ProcessObstruction, ObstructionInv, ShutdownOnlyIfObstructed, Off
<1>6. CASE DoorTimeout
  <2>1. CASE UNCHANGED <<state, obstructionTimer, loop>> /\ ~obstructed
    BY <1>6, <2>1 DEF DoorTimeout, ObstructionInv, ShutdownOnlyIfObstructed
  <2>2. ASSUME NEW s \in {state, "Idle"}, NEW q, NEW reports,
               HandleStateTransition(s, q, reports, Off)
        PROVE  ObstructionInv'
    BY <1>6, <2>2, TransitionObstruction DEF DoorTimeout, ObstructionInv
  <2> QED
    BY <1>6, <2>1, <2>2 DEF DoorTimeout
<1>7. CASE OppositeTimeout
  BY <1>7, TransitionObstruction DEF OppositeTimeout, ObstructionInv
<1>8. CASE PowerLoss
  BY <1>8 DEF PowerLoss, forceShutdown, ObstructionInv, ShutdownOnlyIfObstructed, elevator, timers
<1>9. CASE ObstructedTooLong
  BY <1>9 DEF ObstructedTooLong, forceShutdown, ObstructionInv, ShutdownOnlyIfObstructed,
     elevator, timers, Off
<1>10. CASE restartElevator
  BY <1>10 DEF restartElevator, ObstructionInv, ShutdownOnlyIfObstructed
<1>11. CASE MoveCab
  BY <1>11 DEF MoveCab, ObstructionInv, ShutdownOnlyIfObstructed, elevator, timers
<1>12. CASE Tick
  <2>1. obstructionTimer' # Off => obstructionTimer # Off
    BY <1>12 DEF Tick, CountDown, Off
  <2> QED
    BY <1>12, <2>1 DEF Tick, ObstructionInv, ShutdownOnlyIfObstructed, elevator
<1>13. CASE UNCHANGED vars
  BY <1>13 DEF vars, elevator, timers, ObstructionInv, ShutdownOnlyIfObstructed
<1> QED
  BY <1>1, <1>3, <1>4, <1>5, <1>6, <1>7, <1>8, <1>9, <1>10, <1>11, <1>12, <1>13
     DEF Next, Handlers, ProcessCabButton, handleAssignedHallCall

(* The process shuts down for an obstruction only while the door is open and  *)
(* obstructed.                                                                *)
THEOREM ShutdownTheorem == Spec => []ShutdownOnlyIfObstructed
<1>1. Init => ObstructionInv
  BY DEF Init, ObstructionInv, ShutdownOnlyIfObstructed
<1>2. ObstructionInv => ShutdownOnlyIfObstructed
  BY DEF ObstructionInv
<1> QED
  BY <1>1, <1>2, TypeCorrect, ObstructionInductive, PTL DEF Spec

-----------------------------------------------------------------------------
(* A transition that ends idle leaves no order at another floor. *)
LEMMA TransitionIdle ==
  ASSUME NEW s, NEW q \in SUBSET Orders, NEW reports, NEW door,
         floor \in Floors, direction \in Directions, UNCHANGED floor,
         HandleStateTransition(s, q, reports, door)
  PROVE  IdleMeansNothingElsewhere'
<1> SUFFICES ASSUME state' = "Idle" PROVE \A o \in queue' : o[1] = floor
  BY DEF IdleMeansNothingElsewhere
<1>1. StayIdle(q, reports) /\ ChooseDirection(direction, floor, q) = Stop
  BY DEF HandleStateTransition, Replan, Leave, KeepDoorOpen
<1>2. ~HasOrdersAbove(floor, q) /\ ~HasOrdersBelow(floor, q)
  BY <1>1, ChooseDirectionLeads
<1>3. \A o \in q : o[1] \in Int
  BY DEF Orders, Floors
<1> QED
  BY <1>1, <1>2, <1>3 DEF StayIdle, HasOrdersAbove, HasOrdersBelow, Floors

(* Every step keeps IdleMeansNothingElsewhere. *)
LEMMA IdleInductive ==
  TypeOK /\ IdleMeansNothingElsewhere /\ [Next]_vars => IdleMeansNothingElsewhere'
<1> SUFFICES ASSUME TypeOK, IdleMeansNothingElsewhere, [Next]_vars
             PROVE  IdleMeansNothingElsewhere'
  OBVIOUS
<1>0. floor \in Floors /\ direction \in Directions /\ queue \in SUBSET Orders
  BY DEF TypeOK
<1>1. ASSUME NEW o \in Orders, NEW reports, TakeOrder(o, reports)
      PROVE  IdleMeansNothingElsewhere'
  <2>1. CASE HandleStateTransition(state, queue \cup {o}, reports, doorTimer)
    <3>1. queue \cup {o} \in SUBSET Orders /\ UNCHANGED floor
      BY <1>0, <1>1 DEF TakeOrder
    <3> QED
      BY <1>0, <2>1, <3>1, TransitionIdle
  <2>2. CASE floor = o[1] /\ queue' = queue \cup {o}
             /\ UNCHANGED <<direction, state, motor, timers>>
    BY <1>1, <2>2 DEF TakeOrder, IdleMeansNothingElsewhere
  <2> QED
    BY <1>1, <2>1, <2>2 DEF TakeOrder
<1>2. ASSUME NEW f \in Floors, ProcessCabButton(f) PROVE IdleMeansNothingElsewhere'
  BY <1>1, <1>2 DEF ProcessCabButton, Orders, Buttons
<1>3. ASSUME NEW o \in HallCalls \cup (Floors \X {"Cab"}), handleAssignedHallCall(o)
      PROVE  IdleMeansNothingElsewhere'
  <2>1. o \in Orders
    BY HallCallsAssumption DEF Orders, Buttons
  <2> QED
    BY <1>1, <1>3, <2>1 DEF handleAssignedHallCall
<1>4. ASSUME NEW f, ProcessFloorArrival(f) PROVE IdleMeansNothingElsewhere'
  BY <1>4 DEF ProcessFloorArrival, IdleMeansNothingElsewhere
<1>5. CASE DoorTimeout
  <2>1. UNCHANGED floor
    BY <1>5 DEF DoorTimeout
  <2>2. ASSUME NEW s, NEW q \in SUBSET Orders, NEW reports,
               HandleStateTransition(s, q, reports, Off)
        PROVE  IdleMeansNothingElsewhere'
    BY <1>0, <2>1, <2>2, TransitionIdle
  <2>3. CASE UNCHANGED state /\ queue' \subseteq queue
    BY <2>1, <2>3 DEF IdleMeansNothingElsewhere
  <2>4. \A d : queue \ d \in SUBSET Orders /\ queue \ d \subseteq queue
    BY <1>0
  <2> QED
    BY <1>0, <1>5, <2>2, <2>3, <2>4 DEF DoorTimeout
<1>6. CASE OppositeTimeout
  <2>1. queue \ {delayed} \in SUBSET Orders /\ UNCHANGED floor
    BY <1>0, <1>6 DEF OppositeTimeout
  <2> QED
    BY <1>0, <1>6, <2>1, TransitionIdle DEF OppositeTimeout
<1>7. CASE ProcessObstruction
  BY <1>7 DEF ProcessObstruction, IdleMeansNothingElsewhere
<1>8. CASE PowerLoss \/ ObstructedTooLong \/ MoveCab \/ Tick \/ UNCHANGED vars
  BY <1>8 DEF PowerLoss, ObstructedTooLong, forceShutdown, MoveCab, Tick, vars, elevator,
     IdleMeansNothingElsewhere
<1>9. CASE restartElevator
  BY <1>9 DEF restartElevator, IdleMeansNothingElsewhere
<1>10. CASE WakeUp \/ FloorSensorEvent
  BY <1>4, <1>10 DEF WakeUp, FloorSensorEvent
<1> QED
  BY <1>2, <1>3, <1>5, <1>6, <1>7, <1>8, <1>9, <1>10 DEF Next, Handlers

(* An idle elevator has no order at another floor. *)
THEOREM IdleTheorem == Spec => []IdleMeansNothingElsewhere
<1>1. Init => IdleMeansNothingElsewhere
  BY DEF Init, IdleMeansNothingElsewhere
<1> QED
  BY <1>1, TypeCorrect, IdleInductive, PTL DEF Spec

-----------------------------------------------------------------------------
(* A transition that ends moving has been decided from elevator.Floor, or     *)
(* the elevator was moving before.                                            *)
LEMMA TransitionMoving ==
  ASSUME NEW s \in {state, "Idle"}, NEW q \in SUBSET Orders, NEW reports, NEW door,
         floor \in Floors, direction \in Directions, MovingHasNextFloor, UNCHANGED floor,
         HandleStateTransition(s, q, reports, door)
  PROVE  MovingHasNextFloor'
<1>1. CASE s = "Idle" /\ StayIdle(q, reports)
  BY <1>1 DEF StayIdle, MovingHasNextFloor
<1>2. CASE /\ ChooseDirection(direction, floor, q) # Stop
           /\ Leave(ChooseDirection(direction, floor, q), q, reports)
  <2> DEFINE next == ChooseDirection(direction, floor, q)
  <2>1. /\ next = Up => \E o \in q : o[1] > floor
        /\ next = Down => \E o \in q : o[1] < floor
        /\ next \in Directions
    BY ChooseDirectionLeads DEF HasOrdersAbove, HasOrdersBelow
  <2>2. \A o \in q : o[1] \in Floors
    BY DEF Orders
  <2>3. next # Stop /\ direction' = next
    BY <1>2 DEF Leave
  <2> HIDE DEF next
  <2>4. floor + next \in Floors
    BY <2>1, <2>2, <2>3, NumFloorsAssumption DEF Directions, Up, Down, Stop, Floors
  <2> QED
    BY <2>3, <2>4 DEF MovingHasNextFloor
<1>3. CASE s = "Moving" /\ UNCHANGED direction
  BY <1>3 DEF MovingHasNextFloor
<1>4. CASE KeepDoorOpen(q, reports)
  BY <1>4 DEF KeepDoorOpen, MovingHasNextFloor
<1> QED
  BY <1>1, <1>2, <1>3, <1>4 DEF HandleStateTransition, Replan

(* Every step leaves a moving elevator with a floor ahead. *)
LEMMA MovingInductive == TypeOK /\ MovingHasNextFloor /\ [Next]_vars => MovingHasNextFloor'
<1> SUFFICES ASSUME TypeOK, MovingHasNextFloor, [Next]_vars PROVE MovingHasNextFloor'
  OBVIOUS
<1>0. floor \in Floors /\ direction \in Directions /\ queue \in SUBSET Orders
  BY DEF TypeOK
<1>1. ASSUME NEW o \in Orders, NEW reports, TakeOrder(o, reports) PROVE MovingHasNextFloor'
  <2>1. CASE HandleStateTransition(state, queue \cup {o}, reports, doorTimer)
    <3>1. queue \cup {o} \in SUBSET Orders /\ UNCHANGED floor
      BY <1>0, <1>1 DEF TakeOrder
    <3> QED
      BY <1>0, <2>1, <3>1, TransitionMoving
  <2>2. CASE UNCHANGED <<floor, direction, state>>
    BY <2>2 DEF MovingHasNextFloor
  <2> QED
    BY <1>1, <2>1, <2>2 DEF TakeOrder
<1>2. ASSUME NEW f \in Floors, ProcessCabButton(f) PROVE MovingHasNextFloor'
  BY <1>1, <1>2 DEF ProcessCabButton, Orders, Buttons
<1>3. ASSUME NEW o \in HallCalls \cup (Floors \X {"Cab"}), handleAssignedHallCall(o)
      PROVE  MovingHasNextFloor'
  <2>1. o \in Orders
    BY HallCallsAssumption DEF Orders, Buttons
  <2> QED
    BY <1>1, <1>3, <2>1 DEF handleAssignedHallCall
<1>4. ASSUME NEW f, ProcessFloorArrival(f) PROVE MovingHasNextFloor'
  BY <1>4 DEF ProcessFloorArrival, MovingHasNextFloor
<1>5. CASE DoorTimeout
  <2>1. UNCHANGED floor
    BY <1>5 DEF DoorTimeout
  <2>2. ASSUME NEW s \in {state, "Idle"}, NEW q \in SUBSET Orders, NEW reports,
               HandleStateTransition(s, q, reports, Off)
        PROVE  MovingHasNextFloor'
    BY <1>0, <2>1, <2>2, TransitionMoving
  <2>3. CASE UNCHANGED <<state, direction>>
    BY <2>1, <2>3 DEF MovingHasNextFloor
  <2>4. \A d : queue \ d \in SUBSET Orders
    BY <1>0
  <2> QED
    BY <1>0, <1>5, <2>2, <2>3, <2>4 DEF DoorTimeout
<1>6. CASE OppositeTimeout
  <2>1. queue \ {delayed} \in SUBSET Orders /\ UNCHANGED floor
    BY <1>0, <1>6 DEF OppositeTimeout
  <2> QED
    BY <1>0, <1>6, <2>1, TransitionMoving DEF OppositeTimeout
<1>7. CASE ProcessObstruction
  BY <1>7 DEF ProcessObstruction, MovingHasNextFloor
<1>8. CASE PowerLoss \/ ObstructedTooLong \/ MoveCab \/ Tick \/ UNCHANGED vars
  BY <1>8 DEF PowerLoss, ObstructedTooLong, forceShutdown, MoveCab, Tick, vars, elevator,
     MovingHasNextFloor
<1>9. CASE restartElevator
  BY <1>9 DEF restartElevator, MovingHasNextFloor
<1>10. CASE WakeUp \/ FloorSensorEvent
  BY <1>4, <1>10 DEF WakeUp, FloorSensorEvent
<1> QED
  BY <1>2, <1>3, <1>5, <1>6, <1>7, <1>8, <1>9, <1>10 DEF Next, Handlers

(* The status of a moving elevator always has a next floor inside the shaft,  *)
(* which is what cost takes for granted.                                      *)
THEOREM MovingTheorem == Spec => []MovingHasNextFloor
<1>1. Init => MovingHasNextFloor
  BY DEF Init, MovingHasNextFloor
<1> QED
  BY <1>1, TypeCorrect, MovingInductive, PTL DEF Spec

-----------------------------------------------------------------------------
(* What MotionInv says of a process that has no departure with a door timer   *)
(* running behind it.                                                         *)
Sound ==
  /\ loop # "Panic"
  /\ state # "Moving" => AtRest
  /\ state = "Moving" => UnderWay

(* At rest the sensor reads elevator.Floor. *)
LEMMA RestAtFloor ==
  ASSUME floor \in Floors, AtRest
  PROVE  AtFloor /\ SensorFloor = floor
BY PositionOfFloor DEF AtRest, AtFloor, SensorFloor

(* An elevator that leaves from rest has an order ahead of it. *)
LEMMA LeaveSound ==
  ASSUME floor \in Floors, direction \in Directions, AtRest, Selecting,
         NEW q \in SUBSET Orders, NEW reports,
         ChooseDirection(direction, floor, q) # Stop,
         Leave(ChooseDirection(direction, floor, q), q, reports),
         UNCHANGED <<floor, cab, floorEvent>>, doorLamp' = FALSE
  PROVE  Sound'
<1> DEFINE next == ChooseDirection(direction, floor, q)
<1>1. next \in {Up, Down} /\ (next = Up => HasOrdersAbove(floor, q))
                          /\ (next = Down => HasOrdersBelow(floor, q))
  BY ChooseDirectionLeads DEF Directions
<1> HIDE DEF next
<1>2. /\ state' = "Moving" /\ direction' = next /\ motor' = next /\ loop' = loop
      /\ movementTimer' = notMovingTimeLimit
      /\ queue' = q \ (q \cap {<<floor, HallTowards(next)>>})
  BY RestAtFloor DEF Leave, next
<1>3. OrderAhead'
  <2>1. PICK o \in q : \/ next = Up /\ o[1] > floor
                       \/ next = Down /\ o[1] < floor
    BY <1>1 DEF HasOrdersAbove, HasOrdersBelow
  <2>2. o[1] \in Int /\ floor \in Int /\ o[1] # floor
    BY <2>1 DEF Orders, Floors
  <2>3. o \in queue'
    BY <1>2, <2>2
  <2>4. cab' = 2 * floor
    BY DEF AtRest
  <2> QED
    BY <1>2, <2>1, <2>2, <2>3, <2>4 DEF OrderAhead
<1>4. movementTimer' # Off
  BY <1>2, TimeAssumption DEF Off
<1> QED
  BY <1>1, <1>2, <1>3, <1>4 DEF Sound, UnderWay, AtRest, Selecting, Up, Down, Stop

(* Every transition keeps Sound. *)
LEMMA TransitionSound ==
  ASSUME TypeOK, Sound, Selecting,
         NEW s \in {state, "Idle"}, NEW q \in SUBSET Orders, NEW reports, NEW door,
         HandleStateTransition(s, q, reports, door),
         UNCHANGED <<floor, cab, floorEvent>>, doorLamp' \in {doorLamp, FALSE},
         s = "Idle" => state # "Moving" /\ doorLamp' = FALSE,
         state = "Moving" => queue \subseteq q
  PROVE  Sound'
<1>1. CASE s = "Idle" /\ Replan(q, reports)
  <2>1. AtRest /\ doorLamp' = FALSE
    BY <1>1 DEF Sound
  <2>2. CASE StayIdle(q, reports)
    BY <2>1, <2>2 DEF StayIdle, Sound, AtRest, Selecting
  <2>3. CASE Leave(ChooseDirection(direction, floor, q), q, reports)
             /\ ChooseDirection(direction, floor, q) # Stop
    BY <2>1, <2>3, LeaveSound DEF TypeOK
  <2> QED
    BY <1>1, <2>2, <2>3 DEF Replan
<1>2. CASE s = "Moving" /\ state = "Moving" /\ motor' = direction /\ state' = s /\ queue' = q
           /\ UNCHANGED <<direction, movementTimer, loop>>
  <2>1. UnderWay /\ queue \subseteq queue'
    BY <1>2 DEF Sound
  <2>2. OrderAhead'
    BY <1>2, <2>1 DEF UnderWay, OrderAhead
  <2>3. doorLamp' = FALSE
    BY <2>1 DEF UnderWay, TypeOK
  <2> QED
    BY <1>2, <2>1, <2>2, <2>3 DEF Sound, UnderWay, Selecting
<1>3. CASE s = "DoorOpen" /\ state = "DoorOpen" /\ KeepDoorOpen(q, reports)
  BY <1>3 DEF KeepDoorOpen, Sound, AtRest, Selecting
<1> QED
  BY <1>1, <1>2, <1>3 DEF HandleStateTransition

(* Opening the door at the floor of the cab keeps Sound, and so does passing  *)
(* a floor where nobody waits.                                                *)
LEMMA ArrivalSound ==
  ASSUME TypeOK, Sound, NEW f \in Floors, ProcessFloorArrival(f),
         UNCHANGED cab, floorEvent' = NoEvent, loop' = "select",
         cab = 2 * f, state # "Moving" => f = floor, floorEvent \in {f, NoEvent}
  PROVE  Sound'
<1>1. CASE hasOrdersAtFloor(f, queue)
  BY <1>1 DEF ProcessFloorArrival, Sound, AtRest
<1>2. CASE ~hasOrdersAtFloor(f, queue) /\ state # "Moving"
  BY <1>2 DEF ProcessFloorArrival, Sound, AtRest
<1>3. CASE ~hasOrdersAtFloor(f, queue) /\ state = "Moving"
  <2>1. UnderWay
    BY <1>3 DEF Sound
  <2>2. OrderAhead'
    <3>1. PICK o \in queue : \/ direction = Up /\ 2 * o[1] > cab
                             \/ direction = Down /\ 2 * o[1] < cab
                             \/ 2 * o[1] = cab /\ floorEvent = o[1]
      BY <2>1 DEF UnderWay, OrderAhead
    <3>2. o[1] # f
      BY <1>3 DEF hasOrdersAtFloor
    <3>3. o[1] \in Int /\ f \in Int
      BY DEF TypeOK, Orders, Floors
    <3>4. 2 * o[1] # cab
      BY <3>2, <3>3
    <3> QED
      BY <1>3, <3>1, <3>4 DEF ProcessFloorArrival, OrderAhead
  <2>3. movementTimer' # Off
    BY TimeAssumption DEF ProcessFloorArrival, Off
  <2> QED
    BY <1>3, <2>1, <2>2, <2>3 DEF ProcessFloorArrival, Sound, UnderWay
<1> QED
  BY <1>1, <1>2, <1>3

(* Every step keeps MotionInv, provided that floor events are handled before  *)
(* the cab leaves the floor.                                                  *)
LEMMA MotionInductive ==
  ASSUME PromptSensor
  PROVE  TypeOK /\ IdleMeansNothingElsewhere /\ MotionInv /\ [Next]_vars => MotionInv'
<1> SUFFICES ASSUME TypeOK, IdleMeansNothingElsewhere, MotionInv, [Next]_vars, ~overlap'
             PROVE  DoorTimersOnlyAtStop' /\ Sound'
  BY DEF MotionInv, Sound
<1>1. CASE UNCHANGED vars
  BY <1>1 DEF vars, elevator, timers, hardware, pollers, MotionInv, Sound, DoorTimersOnlyAtStop,
     AtRest, UnderWay, OrderAhead
<1>2. CASE restartElevator /\ RememberOverlap
  BY <1>2 DEF restartElevator, HomePosition, RememberOverlap, Sound, AtRest
<1>3. ASSUME ~Exited, RememberOverlap, Handlers \/ MoveCab \/ Tick
      PROVE  DoorTimersOnlyAtStop' /\ Sound'
  <2>1. DoorTimersOnlyAtStop' /\ DoorTimersOnlyAtStop /\ Sound
    BY <1>3 DEF RememberOverlap, MotionInv, Sound
  <2>2. queue \in SUBSET Orders /\ floor \in Floors /\ floor \in Int
    BY DEF TypeOK, Floors
  <2>3. ASSUME NEW o \in Orders, NEW reports, TakeOrder(o, reports) PROVE Sound'
    <3>1. CASE HandleStateTransition(state, queue \cup {o}, reports, doorTimer)
      <4>1. queue \cup {o} \in SUBSET Orders
        BY <2>2
      <4>2. /\ Selecting /\ UNCHANGED <<floor, cab, floorEvent, doorLamp>>
            /\ state = "Idle" => doorLamp = FALSE
        BY <2>1, <2>3 DEF TakeOrder, pollers, Sound, AtRest, TypeOK
      <4> QED
        BY <2>1, <3>1, <4>1, <4>2, TransitionSound
    <3>2. CASE state # "Moving" /\ loop' = "asleep"
               /\ UNCHANGED <<direction, state, motor, timers>>
      BY <2>1, <2>3, <3>2 DEF TakeOrder, pollers, Sound, AtRest
    <3> QED
      BY <2>3, <3>1, <3>2 DEF TakeOrder
  <2>4. ASSUME NEW f \in Floors, ProcessCabButton(f) PROVE Sound'
    BY <2>3, <2>4 DEF ProcessCabButton, Orders, Buttons
  <2>5. ASSUME NEW o \in HallCalls \cup (Floors \X {"Cab"}), handleAssignedHallCall(o)
        PROVE  Sound'
    <3>1. o \in Orders
      BY HallCallsAssumption DEF Orders, Buttons
    <3> QED
      BY <2>3, <2>5, <3>1 DEF handleAssignedHallCall
  <2>6. CASE WakeUp
    <3>1. AtRest /\ state # "Moving"
      BY <2>1, <2>6 DEF WakeUp, Sound, UnderWay
    <3> QED
      BY <2>1, <2>2, <2>6, <3>1, ArrivalSound DEF WakeUp, AtRest, pollers
  <2>7. CASE FloorSensorEvent
    <3>1. state = "Moving" /\ cab = 2 * floorEvent /\ floorEvent \in Floors
      BY <2>1, <2>7 DEF FloorSensorEvent, Sound, AtRest, UnderWay, TypeOK
    <3>2. floorEvent' = NoEvent
      BY <2>7, <3>1, PositionOfFloor DEF FloorSensorEvent, AtFloor, SensorFloor
    <3> QED
      BY <2>1, <2>7, <3>1, <3>2, ArrivalSound DEF FloorSensorEvent, Selecting
  <2>8. CASE ProcessObstruction
    <3>1. CASE state = "DoorOpen"
      BY <2>1, <2>8, <3>1 DEF ProcessObstruction, Sound, AtRest
    <3>2. CASE state # "DoorOpen"
      BY <2>1, <2>8, <3>2 DEF ProcessObstruction, Sound, AtRest, UnderWay, OrderAhead
    <3> QED
      BY <3>1, <3>2
  <2>9. CASE DoorTimeout
    <3>1. state # "Moving" /\ AtRest /\ Selecting /\ UNCHANGED <<floor, cab, floorEvent>>
      BY <2>1, <2>9 DEF DoorTimeout, DoorTimersOnlyAtStop, Off, Sound, pollers
    <3>2. CASE HandleStateTransition(state, queue, {}, Off) /\ UNCHANGED doorLamp
      <4>1. state = "Idle" => doorLamp = FALSE
        BY <3>1 DEF AtRest, TypeOK
      <4> QED
        BY <2>1, <2>2, <3>1, <3>2, <4>1, TransitionSound
    <3>3. ASSUME NEW q \in SUBSET Orders, NEW reports, doorLamp' = FALSE,
                 HandleStateTransition("Idle", q, reports, Off)
          PROVE  Sound'
      BY <2>1, <3>1, <3>3, TransitionSound
    <3>4. CASE hallCallClearOrder(floor, direction, queue).delay
               /\ UNCHANGED <<direction, state, motor, loop>>
      <4>1. HasOrdersAbove(floor, queue) # HasOrdersBelow(floor, queue)
        BY <3>4 DEF hallCallClearOrder
      <4>2. \E o \in queue : o[1] # floor
        <5>1. \A o \in queue : o[1] \in Int
          BY <2>2 DEF Orders, Floors
        <5> QED
          BY <2>2, <4>1, <5>1 DEF HasOrdersAbove, HasOrdersBelow
      <4>3. state = "DoorOpen"
        BY <3>1, <4>2 DEF IdleMeansNothingElsewhere, TypeOK
      <4> QED
        BY <2>1, <3>1, <3>4, <4>3 DEF Sound, AtRest
    <3>5. CASE ~obstructed /\ ~hallCallClearOrder(floor, direction, queue).delay
      <4> DEFINE first == {<<floor, hallCallClearOrder(floor, direction, queue).first>>}
                            \ {<<floor, "Cab">>}
                 q == (queue \ {<<floor, "Cab">>}) \ first
      <4>1. q \in SUBSET Orders
        BY <2>2
      <4>2. doorLamp' = FALSE /\ HandleStateTransition("Idle", q, Finished(first), Off)
        BY <2>9, <3>5 DEF DoorTimeout
      <4> HIDE DEF first, q
      <4> QED
        BY <2>1, <3>3, <4>1, <4>2
    <3> QED
      BY <2>9, <3>2, <3>4, <3>5 DEF DoorTimeout
  <2>10. CASE OppositeTimeout
    <3>1. state # "Moving" /\ Selecting /\ UNCHANGED <<floor, cab, floorEvent>>
      BY <2>1, <2>10 DEF OppositeTimeout, DoorTimersOnlyAtStop, Off, pollers
    <3>2. queue \ {delayed} \in SUBSET Orders
      BY <2>2
    <3> QED
      BY <2>1, <2>10, <3>1, <3>2, TransitionSound DEF OppositeTimeout
  <2>11. CASE PowerLoss \/ ObstructedTooLong
    BY <2>1, <2>11 DEF PowerLoss, ObstructedTooLong, forceShutdown, elevator, timers, hardware,
       pollers, Sound, AtRest, UnderWay, OrderAhead
  <2>12. CASE MoveCab
    <3>1. UnderWay /\ state = "Moving" /\ floorEvent = NoEvent
      BY <2>1, <2>12 DEF MoveCab, Sound, AtRest
    <3>2. PICK o \in queue : \/ direction = Up /\ 2 * o[1] > cab
                             \/ direction = Down /\ 2 * o[1] < cab
      <4>1. \A o \in queue : o[1] # NoEvent
        BY <2>2 DEF Orders, Floors, NoEvent
      <4> QED
        BY <3>1, <4>1 DEF UnderWay, OrderAhead
    <3>3. o[1] \in Floors /\ o[1] \in Int /\ cab \in Int /\ cab' = cab + motor
          /\ cab' \in 0 .. Top
      BY <2>2, <2>12 DEF Orders, Floors, TypeOK, MoveCab
    <3>4. floorEvent' # NoEvent => cab' = 2 * floorEvent'
      BY <2>12, <3>1, <3>3, SensorFloorIsAFloor DEF MoveCab
    <3>5. 2 * o[1] = cab' => floorEvent' = o[1]
      BY <2>12, <3>1, <3>3, PositionOfFloor DEF MoveCab
    <3>6. CASE direction = Up
      <4>1. 2 * o[1] > cab' \/ 2 * o[1] = cab'
        BY <3>1, <3>2, <3>3, <3>6 DEF UnderWay, Up, Down
      <4> QED
        BY <2>1, <2>12, <3>1, <3>4, <3>5, <3>6, <4>1
           DEF MoveCab, elevator, timers, Sound, UnderWay, OrderAhead
    <3>7. CASE direction = Down
      <4>1. 2 * o[1] < cab' \/ 2 * o[1] = cab'
        BY <3>1, <3>2, <3>3, <3>7 DEF UnderWay, Up, Down
      <4> QED
        BY <2>1, <2>12, <3>1, <3>4, <3>5, <3>7, <4>1
           DEF MoveCab, elevator, timers, Sound, UnderWay, OrderAhead
    <3> QED
      BY <3>2, <3>6, <3>7
  <2>13. CASE Tick
    <3>1. movementTimer # Off => movementTimer' # Off
      BY <2>13 DEF Tick, TypeOK, Timer, CountDown, Off
    <3> QED
      BY <2>1, <2>13, <3>1
         DEF Tick, elevator, hardware, pollers, Sound, AtRest, UnderWay, OrderAhead
  <2> QED
    BY <1>3, <2>1, <2>4, <2>5, <2>6, <2>7, <2>8, <2>9, <2>10, <2>11, <2>12, <2>13 DEF Handlers
<1>4. Handlers \/ MoveCab \/ Tick => ~Exited
  BY DEF Handlers, ProcessCabButton, handleAssignedHallCall, TakeOrder, WakeUp, FloorSensorEvent,
     ProcessObstruction, DoorTimeout, OppositeTimeout, PowerLoss, ObstructedTooLong, forceShutdown,
     MoveCab, Tick, Selecting, Exited, ExitReasons
<1> QED
  BY <1>1, <1>2, <1>3, <1>4 DEF Next

(* With a prompt sensor, an elevator that never left a floor with a door      *)
(* timer running rests at elevator.Floor or travels towards an order.         *)
THEOREM MotionTheorem ==
  ASSUME PromptSensor
  PROVE  Spec => []MotionInv
<1>1. Init => MotionInv
  <2> SUFFICES ASSUME Init PROVE DoorTimersOnlyAtStop /\ Sound
    BY DEF MotionInv, Sound
  <2>1. cab = 2 * floor
    BY PositionOfFloor DEF Init, SensorFloor
  <2> QED
    BY <2>1 DEF Init, DoorTimersOnlyAtStop, Sound, AtRest
<1> QED
  BY <1>1, TypeCorrect, IdleTheorem, MotionInductive, PTL DEF Spec

(* Under the same condition the door is open only at a floor, the motor runs  *)
(* under watch and never against an end of the shaft, and the process never   *)
(* panics.                                                                    *)
THEOREM MotionSafety ==
  ASSUME PromptSensor
  PROVE  Spec => [](/\ DoorOpenAtFloor /\ MotorWatched
                    /\ NeverAgainstTheEnd /\ PanicOnlyAfterOverlap)
<1>1. TypeOK /\ MotionInv => DoorOpenAtFloor /\ MotorWatched /\ PanicOnlyAfterOverlap
  BY DEF TypeOK, MotionInv, AtRest, UnderWay, DoorOpenAtFloor, MotorWatched, PanicOnlyAfterOverlap
<1>2. ASSUME TypeOK, MotionInv, ~overlap, floorEvent = NoEvent, motor # Stop
      PROVE  cab + motor \in 0 .. Top
  <2>1. UnderWay
    BY <1>2 DEF MotionInv, AtRest
  <2>2. PICK o \in queue : \/ motor = Up /\ 2 * o[1] > cab
                           \/ motor = Down /\ 2 * o[1] < cab
    <3>1. \A o \in queue : o[1] # NoEvent
      BY <1>2 DEF TypeOK, Orders, Floors, NoEvent
    <3> QED
      BY <1>2, <2>1, <3>1 DEF UnderWay, OrderAhead
  <2>3. o[1] \in Floors /\ cab \in 0 .. Top
    BY <1>2 DEF TypeOK, Orders
  <2> QED
    BY <2>2, <2>3, NumFloorsAssumption DEF Floors, Top, Up, Down
<1>3. TypeOK /\ MotionInv => NeverAgainstTheEnd
  BY <1>2 DEF NeverAgainstTheEnd
<1> QED
  BY <1>1, <1>3, TypeCorrect, MotionTheorem, PTL

-----------------------------------------------------------------------------
(* The timers of an open door.  Nothing below depends on how promptly floor   *)
(* events are handled, or on what has happened to the door timers before.     *)

(* The two door timers run together only in state DoorOpen, where the motor   *)
(* stands still; an idle elevator whose motor was never stopped (after an     *)
(* overlap) has no call delayed.                                              *)
TimerOrder ==
  /\ state = "DoorOpen" => motor = Stop
  /\ state # "DoorOpen" => doorTimer = Off \/ oppositeTimer = Off
  /\ state = "Idle" /\ motor # Stop => oppositeTimer = Off

(* A handler sleeps at a floor for an order of that floor. *)
AsleepForOrder == loop = "asleep" => state # "Moving" /\ hasOrdersAtFloor(floor, queue)

(* Outside of state DoorOpen only the delayed call keeps a door open. *)
OpenOnTheWay == doorLamp /\ state # "DoorOpen" => oppositeTimer # Off

OpenDoorInv == TimerOrder /\ AsleepForOrder /\ OpenOnTheWay /\ OpenDoorIsTimed

(* Every step keeps OpenDoorInv. *)
LEMMA OpenDoorInductive ==
  TypeOK /\ IdleMeansNothingElsewhere /\ MovingHasNextFloor /\ OpenDoorInv /\ [Next]_vars => OpenDoorInv'
<1> SUFFICES ASSUME TypeOK, IdleMeansNothingElsewhere, MovingHasNextFloor, OpenDoorInv, [Next]_vars
             PROVE  OpenDoorInv'
  OBVIOUS
<1> USE DEF OpenDoorInv, TimerOrder, AsleepForOrder, OpenOnTheWay, OpenDoorIsTimed
<1>t. DoorOpenTime # Off /\ obstructionTimeLimit # Off
  BY TimeAssumption DEF Off
<1>1. ASSUME NEW o \in Orders, NEW reports, TakeOrder(o, reports) PROVE OpenDoorInv'
  <2>1. CASE floor = o[1] /\ AtFloor /\ state # "Moving"
    BY <1>1, <2>1 DEF TakeOrder, timers, hasOrdersAtFloor, Selecting
  <2>2. CASE HandleStateTransition(state, queue \cup {o}, reports, doorTimer)
             /\ UNCHANGED <<oppositeTimer, sleepLeft>>
    BY <1>1, <1>t, <2>2 DEF TakeOrder, HandleStateTransition, Replan, StayIdle, Leave, KeepDoorOpen, Selecting, TypeOK
  <2> QED
    BY <1>1, <2>1, <2>2 DEF TakeOrder
<1>2. ASSUME NEW f \in Floors, ProcessCabButton(f) PROVE OpenDoorInv'
  BY <1>1, <1>2 DEF ProcessCabButton, Orders, Buttons
<1>3. ASSUME NEW o \in HallCalls \cup (Floors \X {"Cab"}), handleAssignedHallCall(o) PROVE OpenDoorInv'
  <2>1. o \in Orders
    BY HallCallsAssumption DEF Orders, Buttons
  <2> QED BY <1>1, <1>3, <2>1 DEF handleAssignedHallCall
<1>4. CASE WakeUp
  BY <1>4, <1>t DEF WakeUp, ProcessFloorArrival, Selecting
<1>5. CASE FloorSensorEvent
  BY <1>5, <1>t DEF FloorSensorEvent, ProcessFloorArrival, Selecting
<1>6. CASE ProcessObstruction
  BY <1>6, <1>t DEF ProcessObstruction, Selecting
<1>7. CASE DoorTimeout
  <2>1. Selecting /\ doorTimer # Off /\ (state # "DoorOpen" => oppositeTimer = Off /\ ~doorLamp)
    BY <1>7 DEF DoorTimeout, Off
  <2>2. CASE HandleStateTransition(state, queue, {}, Off)
             /\ obstructed /\ UNCHANGED <<oppositeTimer, delayed, doorLamp>>
    BY <1>7, <1>t, <2>1, <2>2 DEF HandleStateTransition, Replan, StayIdle, Leave, KeepDoorOpen, Selecting, TypeOK
  <2>3. ASSUME NEW q, NEW reports, doorLamp' = FALSE, UNCHANGED <<oppositeTimer, delayed>>,
               HandleStateTransition("Idle", q, reports, Off)
        PROVE  OpenDoorInv'
    BY <2>1, <2>3 DEF HandleStateTransition, Replan, StayIdle, Leave, Selecting
  <2>4. CASE /\ ~obstructed /\ hallCallClearOrder(floor, direction, queue).delay
    <3>1. state # "Idle"
      <4>1. HasOrdersAbove(floor, queue) # HasOrdersBelow(floor, queue)
        BY <2>4 DEF hallCallClearOrder
      <4>2. floor \in Int /\ \A o \in queue : o[1] \in Int
        BY DEF TypeOK, Orders, Floors
      <4> QED
        BY <4>1, <4>2 DEF HasOrdersAbove, HasOrdersBelow, IdleMeansNothingElsewhere
    <3>2. /\ doorTimer' = Off /\ oppositeTimer' = DoorOpenTime
          /\ UNCHANGED <<state, motor, loop>>
      BY <1>7, <2>4 DEF DoorTimeout
    <3> QED
      BY <1>t, <2>1, <3>1, <3>2 DEF Selecting
  <2>5. CASE ~obstructed /\ ~hallCallClearOrder(floor, direction, queue).delay
    BY <1>7, <2>3, <2>5 DEF DoorTimeout
  <2> QED
    BY <1>7, <2>2, <2>4, <2>5 DEF DoorTimeout
<1>8. CASE OppositeTimeout
  BY <1>8 DEF OppositeTimeout, HandleStateTransition, Replan, StayIdle, Leave, Selecting
<1>9. CASE PowerLoss \/ ObstructedTooLong
  BY <1>9 DEF PowerLoss, ObstructedTooLong, forceShutdown, elevator, timers, hardware, Selecting, ExitReasons
<1>10. CASE restartElevator
  BY <1>10 DEF restartElevator
<1>11. CASE MoveCab
  BY <1>11 DEF MoveCab, elevator, timers, Selecting
<1>12. CASE Tick
  <2>1. \A t \in {doorTimer, oppositeTimer, obstructionTimer} : (CountDown(t) = Off <=> t = Off)
    BY DEF TypeOK, Timer, CountDown, Off
  <2> QED
    BY <1>12, <2>1 DEF Tick, elevator, hardware, Selecting
<1>13. CASE UNCHANGED vars
  BY <1>13 DEF vars, elevator, timers, hardware, Selecting
<1> QED
  BY <1>2, <1>3, <1>4, <1>5, <1>6, <1>7, <1>8, <1>9, <1>10, <1>11, <1>12, <1>13 DEF Next, Handlers

(* While the loop selects, an open door waits for a timer. *)
THEOREM OpenDoorTheorem == Spec => []OpenDoorIsTimed
<1>1. Init => OpenDoorInv
  BY DEF Init, OpenDoorInv, TimerOrder, AsleepForOrder, OpenOnTheWay, OpenDoorIsTimed
<1>2. OpenDoorInv => OpenDoorIsTimed
  BY DEF OpenDoorInv
<1> QED
  BY <1>1, <1>2, OpenDoorInductive, TypeCorrect, IdleTheorem, MovingTheorem, PTL DEF Spec

-----------------------------------------------------------------------------
(* The watch over the motor: ProcessFloorArrival arms movementTimer at stops  *)
(* as well, and a door timer must always run out, or start again, before it.  *)

(* A floor event belongs to the position of the cab. *)
EventHere == floorEvent # NoEvent => cab = 2 * floorEvent

(* A cab that stands still with an event pending has been stopped by a        *)
(* handler, whose timer still runs.                                           *)
EventAtStop ==
  motor = Stop /\ floorEvent # NoEvent /\ ~Exited =>
     /\ state = "DoorOpen" /\ oppositeTimer = Off
     /\ Selecting => doorTimer # 0 /\ (doorTimer # Off \/ obstructionTimer # Off)

(* Some timer stops or renews movementTimer before it runs out.  When an      *)
(* obstruction can go, doorTimer may yet be started anew.                     *)
MovementTimerCovered ==
  \/ /\ doorTimer # Off /\ doorTimer < movementTimer
     /\ state = "DoorOpen" /\ lastObstruction => doorTimer + DoorOpenTime < movementTimer
  \/ oppositeTimer # Off /\ oppositeTimer < movementTimer
  \/ /\ obstructionTimer # Off /\ state = "DoorOpen"
     /\ obstructionTimer + DoorOpenTime < movementTimer

StopCovered == motor = Stop /\ Selecting /\ movementTimer # Off => MovementTimerCovered

WatchInv == EventHere /\ EventAtStop /\ StopCovered /\ PowerLossMeansMoving

(* What the limits of the code (3, 4 and 8 seconds) satisfy. *)
LimitsApart ==
  /\ 2 * DoorOpenTime < notMovingTimeLimit
  /\ obstructionTimeLimit + DoorOpenTime < notMovingTimeLimit

(* After a transition the motor runs, or movementTimer is stopped, or the     *)
(* process has panicked.                                                      *)
LEMMA TransitionWatched ==
  ASSUME TypeOK, MovingHasNextFloor, Selecting, NEW s \in {state, "Idle"}, NEW q, NEW reports,
         NEW door, HandleStateTransition(s, q, reports, door)
  PROVE  motor' # Stop \/ (movementTimer' = Off /\ loop' = "select") \/ loop' = "Panic"
BY DEF HandleStateTransition, Replan, StayIdle, Leave, KeepDoorOpen, MovingHasNextFloor, Selecting

(* The same, and what it leaves to an event that is pending. *)
LEMMA TransitionKeepsWatch ==
  ASSUME TypeOK, MovingHasNextFloor, OpenDoorInv, WatchInv, Selecting,
         NEW s \in {state, "Idle"}, NEW q, NEW reports, NEW door, HandleStateTransition(s, q, reports, door),
         UNCHANGED <<cab, floorEvent>>, oppositeTimer' \in {oppositeTimer, Off},
         s = state \/ ~(motor = Stop /\ floorEvent # NoEvent),
         ~(motor = Stop /\ floorEvent # NoEvent) \/ door = doorTimer
  PROVE  WatchInv'
<1>1. EventHere' /\ StopCovered' /\ PowerLossMeansMoving'
  BY TransitionWatched DEF WatchInv, EventHere, StopCovered, PowerLossMeansMoving, Selecting
<1>2. EventAtStop'
  <2>1. CASE motor = Stop /\ floorEvent # NoEvent
    <3>1. state = "DoorOpen" /\ KeepDoorOpen(q, reports)
      BY <2>1 DEF WatchInv, EventAtStop, Exited, Selecting, ExitReasons, HandleStateTransition
    <3> QED
      BY <2>1, <3>1, TimeAssumption
         DEF KeepDoorOpen, WatchInv, EventAtStop, Exited, Selecting, ExitReasons, Off
  <2>2. CASE motor # Stop /\ floorEvent # NoEvent
    <3>1. state # "DoorOpen"
      BY <2>2 DEF OpenDoorInv, TimerOrder
    <3> QED
      BY <2>2, <3>1 DEF HandleStateTransition, Replan, StayIdle, Leave, MovingHasNextFloor,
         EventAtStop, Exited, ExitReasons
  <2>3. CASE floorEvent = NoEvent
    BY <2>3 DEF EventAtStop
  <2> QED
    BY <2>1, <2>2, <2>3
<1> QED
  BY <1>1, <1>2 DEF WatchInv

(* An arrival sets the timers right, provided that its floor has an order or  *)
(* that the motor runs or that another timer is running.                      *)
LEMMA ArrivalWatched ==
  ASSUME LimitsApart, TypeOK, NEW f \in Floors, ProcessFloorArrival(f), UNCHANGED lastObstruction,
         \/ hasOrdersAtFloor(f, queue) \/ motor # Stop
         \/ /\ state = "DoorOpen"
            /\ doorTimer # Off \/ obstructionTimer # Off
  PROVE  StopCovered'
<1>1. /\ DoorOpenTime # Off /\ DoorOpenTime < notMovingTimeLimit
      /\ doorTimer <= DoorOpenTime /\ obstructionTimer <= obstructionTimeLimit
      /\ {doorTimer, obstructionTimer, DoorOpenTime, obstructionTimeLimit, notMovingTimeLimit} \subseteq Int
  BY TimeAssumption DEF TypeOK, Timer, Off
<1>2. CASE hasOrdersAtFloor(f, queue)
  BY <1>1, <1>2 DEF ProcessFloorArrival, StopCovered, MovementTimerCovered, LimitsApart
<1>3. CASE ~hasOrdersAtFloor(f, queue)
  BY <1>1, <1>3 DEF ProcessFloorArrival, StopCovered, MovementTimerCovered, LimitsApart
<1> QED
  BY <1>2, <1>3

(* Every step keeps WatchInv. *)
LEMMA WatchInductive ==
  ASSUME PromptSensor, LimitsApart
  PROVE  TypeOK /\ TypeOK' /\ IdleMeansNothingElsewhere /\ MovingHasNextFloor /\ OpenDoorInv /\ OpenDoorInv'
         /\ WatchInv /\ [Next]_vars => WatchInv'
<1> SUFFICES ASSUME TypeOK, TypeOK', IdleMeansNothingElsewhere, MovingHasNextFloor,
                    OpenDoorInv, OpenDoorInv', WatchInv, [Next]_vars
             PROVE  WatchInv'
  OBVIOUS
<1>t. DoorOpenTime # Off /\ DoorOpenTime # 0 /\ obstructionTimeLimit # Off
  BY TimeAssumption DEF Off
<1>1. ASSUME NEW o \in Orders, NEW reports, TakeOrder(o, reports) PROVE WatchInv'
  <2>1. CASE floor = o[1] /\ AtFloor /\ state # "Moving"
    BY <1>1, <2>1 DEF TakeOrder, timers, pollers, Selecting, WatchInv, EventHere, EventAtStop,
       StopCovered, PowerLossMeansMoving, Exited, ExitReasons
  <2>2. CASE ~(floor = o[1] /\ AtFloor /\ state # "Moving")
    BY <1>1, <2>2, TransitionKeepsWatch DEF TakeOrder, pollers
  <2> QED
    BY <2>1, <2>2
<1>2. ASSUME NEW f \in Floors, ProcessCabButton(f) PROVE WatchInv'
  BY <1>1, <1>2 DEF ProcessCabButton, Orders, Buttons
<1>3. ASSUME NEW o \in HallCalls \cup (Floors \X {"Cab"}), handleAssignedHallCall(o) PROVE WatchInv'
  <2>1. o \in Orders
    BY HallCallsAssumption DEF Orders, Buttons
  <2> QED BY <1>1, <1>3, <2>1 DEF handleAssignedHallCall
<1>4. CASE WakeUp
  <2>1. hasOrdersAtFloor(floor, queue) /\ floor \in Floors
    BY <1>4 DEF WakeUp, OpenDoorInv, AsleepForOrder, TypeOK
  <2>2. StopCovered'
    BY <1>4, <2>1, ArrivalWatched DEF WakeUp, pollers
  <2>3. floorEvent # NoEvent => oppositeTimer = Off
    BY <1>4, <2>1 DEF WakeUp, OpenDoorInv, AsleepForOrder, TimerOrder, WatchInv, EventAtStop,
       Exited, ExitReasons, TypeOK
  <2> QED
    BY <1>4, <1>t, <2>1, <2>2, <2>3 DEF WakeUp, ProcessFloorArrival, pollers, WatchInv, EventHere,
       EventAtStop, PowerLossMeansMoving
<1>5. CASE FloorSensorEvent
  <2>1. floorEvent \in Floors /\ cab = 2 * floorEvent
    BY <1>5 DEF FloorSensorEvent, TypeOK, WatchInv, EventHere
  <2>2. floorEvent' = NoEvent
    BY <1>5, <2>1, PositionOfFloor DEF FloorSensorEvent, AtFloor, SensorFloor
  <2>3. StopCovered'
    BY <1>5, <2>1, ArrivalWatched
       DEF FloorSensorEvent, WatchInv, EventAtStop, Selecting, Exited, ExitReasons
  <2> QED
    BY <1>5, <2>2, <2>3 DEF FloorSensorEvent, Selecting, WatchInv, EventHere, EventAtStop,
       PowerLossMeansMoving
<1>6. CASE ProcessObstruction
  <2>1. StopCovered'
    <3>1. CASE state # "DoorOpen"
      BY <1>6, <3>1 DEF ProcessObstruction, WatchInv, StopCovered, MovementTimerCovered, Selecting
    <3>2. CASE state = "DoorOpen" /\ obstructed'
      BY <1>6, <3>2 DEF ProcessObstruction, StopCovered
    <3>3. CASE state = "DoorOpen" /\ ~obstructed'
      <4>1. lastObstruction /\ ~lastObstruction' /\ doorTimer' = DoorOpenTime
            /\ UNCHANGED <<motor, loop, movementTimer, oppositeTimer>>
        BY <1>6, <3>3 DEF ProcessObstruction
      <4>2. /\ doorTimer # Off => doorTimer >= 0
            /\ obstructionTimer # Off => obstructionTimer >= 0
            /\ {doorTimer, obstructionTimer, movementTimer, DoorOpenTime} \subseteq Int
        BY TimeAssumption DEF TypeOK, Timer, Off
      <4> QED
        BY <1>t, <3>3, <4>1, <4>2 DEF WatchInv, StopCovered, MovementTimerCovered, Selecting
    <3> QED
      BY <3>1, <3>2, <3>3
  <2>2. EventAtStop'
    BY <1>6, <1>t DEF ProcessObstruction, WatchInv, EventAtStop, OpenDoorInv, TimerOrder, Selecting,
       Exited, ExitReasons, Off
  <2> QED
    BY <1>6, <2>1, <2>2 DEF ProcessObstruction, WatchInv, EventHere, PowerLossMeansMoving, Selecting
<1>7. CASE DoorTimeout
  <2>1. ~(motor = Stop /\ floorEvent # NoEvent) /\ Selecting
        /\ UNCHANGED <<cab, floorEvent>>
    BY <1>7 DEF DoorTimeout, WatchInv, EventAtStop, Selecting, Exited, ExitReasons, pollers
  <2>2. ASSUME NEW s \in {state, "Idle"}, NEW q, NEW reports, NEW door, UNCHANGED oppositeTimer,
               HandleStateTransition(s, q, reports, door)
        PROVE  WatchInv'
    BY <2>1, <2>2, TransitionKeepsWatch
  <2>3. CASE obstructed \/ ~hallCallClearOrder(floor, direction, queue).delay
    BY <1>7, <2>2, <2>3 DEF DoorTimeout
  <2>4. CASE ~obstructed /\ hallCallClearOrder(floor, direction, queue).delay
    <3>1. movementTimer' = Off /\ UNCHANGED <<motor, loop>>
      BY <1>7, <2>4 DEF DoorTimeout
    <3> QED
      BY <2>1, <3>1 DEF WatchInv, EventHere, EventAtStop, StopCovered, PowerLossMeansMoving
  <2> QED
    BY <2>3, <2>4
<1>8. CASE OppositeTimeout
  <2>1. ~(motor = Stop /\ floorEvent # NoEvent)
    BY <1>8 DEF OppositeTimeout, WatchInv, EventAtStop, Selecting, Exited, ExitReasons, Off
  <2> QED
    BY <1>8, <2>1, TransitionKeepsWatch DEF OppositeTimeout, pollers
<1>9. CASE PowerLoss \/ ObstructedTooLong
  <2>1. movementTimer = 0 => motor # Stop
    BY <1>9, TimeAssumption DEF PowerLoss, ObstructedTooLong, forceShutdown, WatchInv, StopCovered,
       MovementTimerCovered, TypeOK, Timer, Off
  <2> QED
    BY <1>9, <2>1 DEF PowerLoss, ObstructedTooLong, forceShutdown, hardware, pollers, Selecting,
       WatchInv, EventHere, EventAtStop, StopCovered, PowerLossMeansMoving, Exited, ExitReasons
<1>10. CASE restartElevator
  BY <1>10 DEF restartElevator, WatchInv, EventHere, EventAtStop, StopCovered, PowerLossMeansMoving
<1>11. CASE MoveCab
  <2>1. floorEvent = NoEvent /\ cab \in Int /\ motor \in Int /\ motor' = motor /\ motor # Stop
        /\ loop' = loop /\ cab' = cab + motor /\ cab' \in 0 .. Top
    BY <1>11 DEF MoveCab, TypeOK, Directions, Up, Down, Stop, Top
  <2>2. EventHere'
    BY <1>11, <2>1, SensorFloorIsAFloor DEF MoveCab, EventHere
  <2> QED
    BY <2>1, <2>2 DEF WatchInv, EventAtStop, StopCovered, PowerLossMeansMoving
<1>12. CASE Tick
  <2>1. UNCHANGED <<state, motor, floorEvent, loop, cab, lastObstruction>>
    BY <1>12 DEF Tick, elevator, hardware, pollers
  <2>2. EventAtStop'
    BY <1>12, <2>1 DEF Tick, WatchInv, EventAtStop, Selecting, Exited, ExitReasons, CountDown, Off
  <2>3. StopCovered'
    <3> SUFFICES ASSUME motor = Stop, Selecting, movementTimer' # Off
                 PROVE  MovementTimerCovered'
      BY <2>1 DEF StopCovered, Selecting
    <3>1. \A t \in {doorTimer, oppositeTimer, movementTimer, obstructionTimer} :
             t \in Int /\ t >= Off /\ t # 0
      BY <1>12 DEF Tick, Selecting, TypeOK, Timer, Off
    <3>2. movementTimer # Off /\ MovementTimerCovered
      BY <1>12, <3>1 DEF Tick, CountDown, Off, WatchInv, StopCovered
    <3> QED
      BY <1>12, <2>1, <3>1, <3>2, TimeAssumption DEF Tick, CountDown, Off, MovementTimerCovered
  <2> QED
    BY <2>1, <2>2, <2>3 DEF WatchInv, EventHere, PowerLossMeansMoving
<1>13. CASE UNCHANGED vars
  BY <1>13 DEF vars, elevator, timers, hardware, pollers, Selecting, Exited,
     WatchInv, EventHere, EventAtStop, StopCovered, MovementTimerCovered, PowerLossMeansMoving
<1> QED
  BY <1>2, <1>3, <1>4, <1>5, <1>6, <1>7, <1>8, <1>9, <1>10, <1>11, <1>12, <1>13 DEF Next, Handlers

(* The process exits for "Power Loss" only with the motor running, also after *)
(* a departure with a door timer running, if the limits are as far apart as   *)
(* those of the code.                                                         *)
THEOREM PowerLossTheorem ==
  ASSUME PromptSensor, LimitsApart
  PROVE  Spec => []PowerLossMeansMoving
<1>1. Init => OpenDoorInv /\ WatchInv
  BY DEF Init, OpenDoorInv, TimerOrder, AsleepForOrder, OpenOnTheWay, OpenDoorIsTimed,
     WatchInv, EventHere, EventAtStop, StopCovered, PowerLossMeansMoving
<1>2. WatchInv => PowerLossMeansMoving
  BY DEF WatchInv
<1> QED
  BY <1>1, <1>2, OpenDoorInductive, WatchInductive, TypeCorrect, IdleTheorem, MovingTheorem, PTL DEF Spec

-----------------------------------------------------------------------------
(* The order statuses that the steps send.                                    *)

(* A transition adds at most the hall call of the floor, towards which the    *)
(* elevator leaves.                                                           *)
LEMMA TransitionFinishes ==
  ASSUME NEW s, NEW q, NEW reports, NEW door, HandleStateTransition(s, q, reports, door),
         NEW r \in sent'
  PROVE  \/ r \in reports
         \/ /\ s = "Idle" /\ AtFloor /\ state' = "Moving"
            /\ r.order \in q /\ r.order = <<SensorFloor, HallTowards(direction')>>
<1>1. CASE s = "Idle" /\ Replan(q, reports)
  <2> DEFINE next == ChooseDirection(direction, floor, q)
             lingering == q \cap {<<SensorFloor, HallTowards(next)>>}
  <2>1. CASE StayIdle(q, reports)
    BY <2>1 DEF StayIdle
  <2>2. CASE Leave(next, q, reports)
    <3>1. state' = "Moving" /\ direction' = next
      BY <2>2 DEF Leave
    <3>2. r \in reports \/ (AtFloor /\ r \in Finished(lingering))
      BY <2>2 DEF Leave
    <3> HIDE DEF next
    <3>3. r \in Finished(lingering) => r.order \in lingering
      BY DEF Finished, Report
    <3> QED
      BY <1>1, <3>1, <3>2, <3>3
  <2> QED
    BY <1>1, <2>1, <2>2 DEF Replan
<1>2. CASE s # "Idle"
  BY <1>2 DEF HandleStateTransition, KeepDoorOpen
<1> QED
  BY <1>1, <1>2 DEF HandleStateTransition

(* Only the two door timers finish an order at a stop; other steps finish the *)
(* hall call of a departure, or nothing.                                      *)
LEMMA OtherStepsFinish ==
  ASSUME TypeOK, [Next]_vars, ~DoorTimeout, ~OppositeTimeout, ~UNCHANGED vars,
         NEW r \in sent', r.status = "Finished"
  PROVE  \E o \in Orders :
            /\ state = "Idle" /\ AtFloor /\ state' = "Moving"
            /\ r.order \in queue \cup {o} /\ r.order = <<SensorFloor, HallTowards(direction')>>
            /\ ~(floor = o[1] /\ AtFloor)
<1>1. ASSUME NEW o \in Orders, NEW reports, TakeOrder(o, reports),
             \A m \in reports : m.status # "Finished"
      PROVE  /\ state = "Idle" /\ AtFloor /\ state' = "Moving"
             /\ r.order \in queue \cup {o} /\ r.order = <<SensorFloor, HallTowards(direction')>>
             /\ ~(floor = o[1] /\ AtFloor)
  <2>1. /\ ~(floor = o[1] /\ AtFloor /\ state # "Moving")
        /\ HandleStateTransition(state, queue \cup {o}, reports, doorTimer)
    BY <1>1 DEF TakeOrder
  <2>2. /\ state = "Idle" /\ AtFloor /\ state' = "Moving"
        /\ r.order \in queue \cup {o} /\ r.order = <<SensorFloor, HallTowards(direction')>>
    BY <1>1, <2>1, TransitionFinishes
  <2> QED
    BY <2>1, <2>2
<1>2. ASSUME NEW f \in Floors, ProcessCabButton(f) PROVE <<f, "Cab">> \in Orders /\ TakeOrder(<<f, "Cab">>, {})
  BY <1>2 DEF ProcessCabButton, Orders, Buttons
<1>3. ASSUME NEW o \in HallCalls \cup (Floors \X {"Cab"}), handleAssignedHallCall(o)
      PROVE  /\ o \in Orders
             /\ \E reports \in {{}, {Report(o, "Unfinished")}} : TakeOrder(o, reports)
  BY <1>3, HallCallsAssumption DEF handleAssignedHallCall, Orders, Buttons
<1>4. ~(WakeUp \/ FloorSensorEvent \/ ProcessObstruction \/ PowerLoss \/ ObstructedTooLong
        \/ restartElevator \/ MoveCab \/ Tick)
  BY DEF WakeUp, FloorSensorEvent, ProcessFloorArrival, ProcessObstruction, PowerLoss, ObstructedTooLong,
         forceShutdown, restartElevator, MoveCab, Tick
<1>5. CASE \E f \in Floors : ProcessCabButton(f)
  <2>1. PICK f \in Floors : ProcessCabButton(f)
    BY <1>5
  <2>2. <<f, "Cab">> \in Orders /\ TakeOrder(<<f, "Cab">>, {})
    BY <1>2, <2>1
  <2>3. \A m \in {} : m.status # "Finished"
    OBVIOUS
  <2> QED
    BY <1>1, <2>2, <2>3
<1>6. CASE \E o \in HallCalls \cup (Floors \X {"Cab"}) : handleAssignedHallCall(o)
  <2>1. PICK o \in HallCalls \cup (Floors \X {"Cab"}) : handleAssignedHallCall(o)
    BY <1>6
  <2>2. PICK reports \in {{}, {Report(o, "Unfinished")}} : TakeOrder(o, reports)
    BY <1>3, <2>1
  <2>3. \A m \in reports : m.status # "Finished"
    BY <2>2 DEF Report
  <2> QED
    BY <1>1, <1>3, <2>1, <2>2, <2>3
<1> QED
  BY <1>4, <1>5, <1>6 DEF Next, Handlers

(* What hallCallClearOrder chooses is in the queue, or no hall call, or the   *)
(* zero value for an empty queue; with orders on one side only and no delay   *)
(* it is the call in the direction in which the elevator will leave; and the  *)
(* call that it delays is the other one of the two.                           *)
LEMMA ClearedCall ==
  ASSUME TypeOK
  PROVE  LET clear == hallCallClearOrder(floor, direction, queue)
             one == HasOrdersAbove(floor, queue) # HasOrdersBelow(floor, queue)
         IN  /\ \/ clear.first = "Cab" \/ <<floor, clear.first>> \in queue
                \/ queue = {} /\ clear.first = "HallUp" /\ ~clear.delay
             /\ clear.delay => /\ <<floor, clear.second>> \in queue
                               /\ clear.second # "Cab" /\ clear.second # clear.first
             /\ ~clear.delay /\ one /\ clear.first # "Cab"
                => clear.first = IF HasOrdersAbove(floor, queue) THEN "HallUp" ELSE "HallDown"
<1>1. floor \in Int /\ queue \subseteq Orders /\ direction \in Directions
  BY DEF TypeOK, Floors
<1>2. ~HasOrdersAbove(floor, queue) /\ ~HasOrdersBelow(floor, queue)
      /\ (\A b \in Buttons : <<floor, b>> \notin queue) => queue = {}
  <2> SUFFICES ASSUME NEW o \in queue, ~(o[1] > floor), ~(o[1] < floor)
               PROVE  \E b \in Buttons : <<floor, b>> \in queue
    BY DEF HasOrdersAbove, HasOrdersBelow
  <2>1. o[1] \in Int /\ o[2] \in Buttons /\ o = <<o[1], o[2]>>
    BY <1>1 DEF Orders, Floors
  <2>2. o[1] = floor
    BY <1>1, <2>1
  <2> QED
    BY <2>1, <2>2
<1> DEFINE above == HasOrdersAbove(floor, queue)
           below == HasOrdersBelow(floor, queue)
<1>3. above \in BOOLEAN /\ below \in BOOLEAN
  BY DEF HasOrdersAbove, HasOrdersBelow
<1>4. HallTowards(direction) \in {"HallUp", "HallDown"}
  BY DEF HallTowards
<1> HIDE DEF above, below
<1> QED
  BY <1>2, <1>3, <1>4 DEF hallCallClearOrder, Opposite, above, below, Buttons

(* The hall call of a departure is the one in its direction, also at the end  *)
(* of doorTimer, unless there are orders on both sides.                       *)
THEOREM AnnouncedTheorem == Spec => AnnouncedUnlessBothSides
<1> DEFINE Announced(r) ==
             r.status = "Finished" /\ state' = "Moving" =>
               \/ HallTowards(direction') = r.order[2]
               \/ HasOrdersAbove(floor, queue) /\ HasOrdersBelow(floor, queue)
               \/ oppositeTimer = 0 \/ overlap'
<1>1. ASSUME TypeOK, [Next]_vars, ~UNCHANGED vars, NEW r \in sent', r.status = "Finished", state' = "Moving",
             oppositeTimer # 0, ~overlap', ~(HasOrdersAbove(floor, queue) /\ HasOrdersBelow(floor, queue))
      PROVE  HallTowards(direction') = r.order[2]
  <2>1. CASE DoorTimeout
    <3> DEFINE clear == hallCallClearOrder(floor, direction, queue)
               first == {<<floor, clear.first>>} \ {<<floor, "Cab">>}
               q == (queue \ {<<floor, "Cab">>}) \ first
    <3>1. CASE HandleStateTransition(state, queue, {}, Off)
      BY <3>1, TransitionFinishes
    <3>2. CASE ~obstructed /\ clear.delay
      <4>1. oppositeTimer' # Off
        BY <2>1, <3>2, TimeAssumption DEF DoorTimeout, Off
      <4> QED
        BY <1>1, <4>1 DEF Next, RememberOverlap, DoorTimersOnlyAtStop
    <3>3. CASE ~obstructed /\ ~clear.delay
      <4>1. HandleStateTransition("Idle", q, Finished(first), Off)
        BY <2>1, <3>3 DEF DoorTimeout
      <4>2. CASE r \in Finished(first)
        <5>1. direction' = ChooseDirection(direction, floor, q)
              /\ ChooseDirection(direction, floor, q) # Stop
          BY <1>1, <4>1 DEF HandleStateTransition, Replan, StayIdle, Leave
        <5>2. /\ HasOrdersAbove(floor, q) = HasOrdersAbove(floor, queue)
              /\ HasOrdersBelow(floor, q) = HasOrdersBelow(floor, queue)
          <6>1. floor \in Int
            BY <1>1 DEF TypeOK, Floors
          <6>2. /\ \A o \in queue : o \notin q => o[1] = floor
                /\ q \subseteq queue
            OBVIOUS
          <6> HIDE DEF q
          <6> QED
            BY <6>1, <6>2 DEF HasOrdersAbove, HasOrdersBelow
        <5>3. r.order = <<floor, clear.first>> /\ clear.first # "Cab"
          BY <4>2 DEF Finished, Report
        <5> HIDE DEF q, first, clear
        <5>4. HasOrdersAbove(floor, queue) # HasOrdersBelow(floor, queue)
          BY <1>1, <5>1, <5>2 DEF ChooseDirection
        <5>5. clear.first = IF HasOrdersAbove(floor, queue) THEN "HallUp" ELSE "HallDown"
          BY <1>1, <3>3, <5>3, <5>4, ClearedCall DEF clear
        <5>6. direction' = IF HasOrdersAbove(floor, queue) THEN Up ELSE Down
          BY <5>1, <5>2, <5>4 DEF ChooseDirection
        <5> QED
          BY <5>3, <5>5, <5>6 DEF HallTowards, Up, Down
      <4>3. CASE r \notin Finished(first)
        BY <4>1, <4>3, TransitionFinishes
      <4> QED
        BY <4>2, <4>3
    <3> QED
      BY <2>1, <3>1, <3>2, <3>3 DEF DoorTimeout
  <2>2. CASE OppositeTimeout
    BY <1>1, <2>2 DEF OppositeTimeout
  <2>3. CASE ~DoorTimeout /\ ~OppositeTimeout
    BY <1>1, <2>3, OtherStepsFinish
  <2> QED
    BY <2>1, <2>2, <2>3
<1>2. TypeOK /\ [Next]_vars => [\A r \in sent' : Announced(r)]_vars
  BY <1>1
<1> QED
  BY <1>2, TypeCorrect, PTL DEF Spec, AnnouncedUnlessBothSides
==============================================================================
