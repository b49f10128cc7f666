------------------------------ MODULE CostProofs ------------------------------
(* Theorems about Cost, for every number of floors and every queue. *)
EXTENDS Cost, FiniteSetTheorems, TLAPS

(* One floor in the direction ChooseDirection chooses is still in the shaft:  *)
(* there is an order at least as far that way.                                *)
LEMMA NextFloorIsAFloor ==
  ASSUME NEW d \in Directions, NEW f \in Floors, NEW q \in SUBSET Orders
  PROVE  /\ ChooseDirection(d, f, q) \in Directions
         /\ f + ChooseDirection(d, f, q) \in Floors
<1>1. \A o \in q : o[1] \in Floors
  BY DEF Orders
<1>2. CASE ChooseDirection(d, f, q) = Up
  <2>1. \E o \in q : o[1] > f
    BY <1>2 DEF ChooseDirection, HasOrdersAbove, Up, Down, Stop
  <2> QED
    BY <1>1, <1>2, <2>1, NumFloorsAssumption DEF Floors, Directions, Up
<1>3. CASE ChooseDirection(d, f, q) = Down
  <2>1. \E o \in q : o[1] < f
    BY <1>3 DEF ChooseDirection, HasOrdersBelow, Up, Down, Stop
  <2> QED
    BY <1>1, <1>3, <2>1, NumFloorsAssumption DEF Floors, Directions, Down
<1>4. CASE ChooseDirection(d, f, q) = Stop
  BY <1>4, NumFloorsAssumption DEF Floors, Directions, Stop
<1> QED
  BY <1>2, <1>3, <1>4 DEF ChooseDirection

(* What holds of a status until the switch on its state has been passed. *)
StatusInv ==
  at = "switch" /\ state = "Moving" => direction # Stop /\ floor + direction \in Floors

(* Type correctness; above all, the simulation never indexes the queue with a *)
(* floor outside the shaft, unless the status is the product of a torn read.  *)
THEOREM CostTypeCorrect == ASSUME TornReads = FALSE PROVE Spec => []TypeOK
<1> DEFINE Inv == TypeOK /\ StatusInv
<1>1. Init => Inv
  <2> SUFFICES ASSUME Init PROVE Inv
    OBVIOUS
  <2>1. order \in Orders /\ queue \subseteq Orders
    BY PanelAssumption DEF Init
  <2> QED
    BY <2>1 DEF Init, TypeOK, StatusInv
<1>2. Inv /\ [Next]_vars => Inv'
  <2> SUFFICES ASSUME TypeOK, StatusInv, [Next]_vars PROVE TypeOK' /\ StatusInv'
    OBVIOUS
  <2>1. CASE Assess
    <3>1. floor' \in Floors
      BY <2>1 DEF Assess, TypeOK, StatusInv
    <3>2. timeToCompleteOrders' \in Nat
      BY <2>1, CostAssumption DEF Assess, TypeOK
    <3>3. start' \in Floors /\ at' \in {"loop", "returned"}
      BY <2>1, <3>1 DEF Assess
    <3> QED
      BY <2>1, <3>1, <3>2, <3>3 DEF Assess, TypeOK, StatusInv
  <2>2. CASE Iterate
    <3>1. PICK q \in SUBSET Orders :
            /\ queue' = q
            /\ direction' = ChooseDirection(direction, floor, q)
            /\ floor' = floor + ChooseDirection(direction, floor, q)
      <4>1. clearCurrentFloorFromQueue(floor, direction, queue) \subseteq Orders
        BY DEF clearCurrentFloorFromQueue, TypeOK
      <4> QED
        BY <2>2, <4>1 DEF Iterate, TypeOK
    <3>2. direction' \in Directions /\ floor' \in Floors
      BY <3>1, NextFloorIsAFloor DEF TypeOK
    <3>3. timeToCompleteOrders' \in Nat
      BY <2>2, CostAssumption DEF Iterate, TypeOK
    <3>4. at' \in {"loop", "returned"}
      BY <2>2 DEF Iterate
    <3> QED
      BY <2>2, <3>1, <3>2, <3>3, <3>4 DEF Iterate, TypeOK, StatusInv
  <2>3. CASE UNCHANGED vars
    BY <2>3 DEF vars, status, TypeOK, StatusInv
  <2> QED
    BY <2>1, <2>2, <2>3 DEF Next
<1>3. Inv => TypeOK
  OBVIOUS
<1> QED
  BY <1>1, <1>2, <1>3, PTL DEF Spec

-----------------------------------------------------------------------------
(* Stops.                                                                     *)

(* A stop only clears orders of its floor. *)
LEMMA ClearedHere ==
  ASSUME NEW f, NEW d, NEW q
  PROVE  /\ clearCurrentFloorFromQueue(f, d, q) \subseteq q
         /\ \A o \in q : o[1] # f => o \in clearCurrentFloorFromQueue(f, d, q)
BY DEF clearCurrentFloorFromQueue

(* The last stop in a direction clears all orders of its floor. *)
LEMMA LastStopClears ==
  ASSUME NEW d \in {Up, Down}, NEW f \in Floors, NEW q \in SUBSET Orders,
         d = Up => ~HasOrdersAbove(f, q), d = Down => ~HasOrdersBelow(f, q)
  PROVE  /\ shouldStopAtFloor(f, d, q)
         /\ \A o \in clearCurrentFloorFromQueue(f, d, q) : o[1] # f
<1>1. shouldStopAtFloor(f, d, q)
  BY DEF shouldStopAtFloor
<1>2. clearCurrentFloorFromQueue(f, d, q) = q \ {<<f, "Cab">>, <<f, "HallUp">>, <<f, "HallDown">>}
  BY DEF clearCurrentFloorFromQueue, Up, Down, Stop
<1>3. \A o \in q : o = <<o[1], o[2]>> /\ o[2] \in {"HallUp", "HallDown", "Cab"}
  BY DEF Orders, Buttons
<1> QED
  BY <1>1, <1>2, <1>3

(* The simulated elevator stops at this floor. *)
Stops == shouldStopAtFloor(floor, direction, queue)

(* What one iteration does to the queue, the direction and the time. *)
LEMMA IterateSteps ==
  ASSUME TypeOK, Iterate
  PROVE  /\ queue' \subseteq queue /\ (~Stops => queue' = queue)
         /\ \A o \in queue : o[1] # floor => o \in queue'
         /\ direction' = ChooseDirection(direction, floor, queue')
         /\ floor' = floor + direction' /\ at = "loop"
         /\ at' = IF direction' = Stop THEN "returned" ELSE "loop"
         /\ timeToCompleteOrders' = timeToCompleteOrders + (IF Stops THEN DoorOpenTime ELSE 0)
                                      + (IF direction' = Stop THEN 0 ELSE travelTime)
         /\ Stops => queue' = clearCurrentFloorFromQueue(floor, direction, queue)
         /\ UNCHANGED <<start, toServe>>
BY ClearedHere DEF Iterate, Stops

(* When the simulation ends nothing is left at other floors, and it has       *)
(* stopped.                                                                   *)
LEMMA ReturnStops ==
  ASSUME TypeOK, Iterate, direction' = Stop
  PROVE  Stops /\ \A o \in queue : o[1] = floor
<1>1. ~HasOrdersAbove(floor, queue') /\ ~HasOrdersBelow(floor, queue')
  BY IterateSteps DEF ChooseDirection, Up, Down, Stop
<1>2. \A o \in queue : o[1] = floor
  <2>1. \A o \in queue : o[1] # floor => o[1] > floor \/ o[1] < floor
    BY NumFloorsAssumption DEF TypeOK, Orders, Floors
  <2> QED
    BY <1>1, <2>1, IterateSteps DEF HasOrdersAbove, HasOrdersBelow
<1>3. ~HasOrdersAbove(floor, queue) /\ ~HasOrdersBelow(floor, queue)
  BY <1>2, NumFloorsAssumption DEF HasOrdersAbove, HasOrdersBelow, TypeOK, Floors
<1> QED
  BY <1>2, <1>3 DEF Stops, shouldStopAtFloor, TypeOK, Directions

-----------------------------------------------------------------------------
(* The estimate.                                                              *)

(* One floor more takes one travel time more, one stop more one door time.    *)
LEMMA OneMore ==
  ASSUME NEW k \in Nat, NEW a \in Nat, NEW b \in Nat
  PROVE  /\ a <= b + 1 => k * a <= k * b + k
         /\ a <= b => k * a <= k * b
<1>1. k * (b + 1) = k * b + k
  OBVIOUS
<1>2. \A c \in Nat : a <= c => k * a <= k * c
  OBVIOUS
<1> QED
  BY <1>1, <1>2

FloorsOf(orders) == {o[1] : o \in orders}

(* The floors that have been served already. *)
Served == FloorsOf(toServe) \ FloorsOf(queue)

(* The time covers the way to a floor and a stop at every floor served. *)
Covers(f) ==
  timeToCompleteOrders >= travelTime * Distance(start, f) + DoorOpenTime * Cardinality(Served)

(* The way to each floor served, and to this one, is in the time. *)
EstimateInv ==
  /\ queue \subseteq toServe
  /\ at = "switch" => queue = toServe /\ timeToCompleteOrders = 0
  /\ at = "loop" => \A f \in Served \cup {floor} : Covers(f)

(* The floors to serve are finitely many. *)
LEMMA FloorSets ==
  ASSUME TypeOK
  PROVE  /\ FloorsOf(toServe) \subseteq Floors /\ Served \subseteq Floors
         /\ IsFiniteSet(FloorsOf(toServe)) /\ IsFiniteSet(Served)
         /\ Cardinality(FloorsOf(toServe)) \in Nat /\ Cardinality(Served) \in Nat
         /\ \A f \in Floors : Distance(start, f) \in Nat
<1>1. FloorsOf(toServe) \subseteq Floors /\ Served \subseteq Floors
  BY DEF FloorsOf, Served, TypeOK, Orders
<1>2. IsFiniteSet(Floors)
  BY FS_Interval, NumFloorsAssumption DEF Floors
<1>3. \A f \in Floors : Distance(start, f) \in Nat
  BY NumFloorsAssumption DEF TypeOK, Floors, Distance
<1> QED
  BY <1>1, <1>2, <1>3, FS_Subset, FS_CardinalityType

(* The switch leaves the queue alone, and the simulation starts at start. *)
LEMMA AssessCovers ==
  ASSUME TypeOK, TypeOK', EstimateInv, Assess
  PROVE  EstimateInv' /\ EstimateAllowsForOrders'
<1>1. /\ queue = toServe /\ timeToCompleteOrders = 0 /\ at = "switch" /\ at' # "switch"
      /\ UNCHANGED <<queue, toServe>> /\ start' = floor'
  BY DEF Assess, EstimateInv
<1>2. timeToCompleteOrders' \in Nat /\ floor' \in Floors
  BY DEF TypeOK
<1>3. Distance(floor', floor') = 0
  <2>1. \A f \in Nat : Distance(f, f) = 0
    BY DEF Distance
  <2> QED
    BY <1>2, <2>1, NumFloorsAssumption DEF Floors
<1>4. EstimateInv'
  <2>1. Served' = {}
    BY <1>1 DEF Served
  <2>2. Cardinality(Served') = 0
    BY <2>1, FS_EmptySet
  <2>3. ASSUME NEW f \in Served' \cup {floor'}
        PROVE  Covers(f)'
    <3>1. travelTime * 0 + DoorOpenTime * 0 = 0
      BY CostAssumption
    <3>2. PICK t \in Nat : t = timeToCompleteOrders'
      BY <1>2
    <3>3. t >= 0
      BY <3>2
    <3>4. Distance(start', f) = 0
      BY <1>1, <1>3, <2>1, <2>3
    <3> QED
      BY <2>2, <3>1, <3>2, <3>3, <3>4 DEF Covers
  <2>4. \A f \in Served' \cup {floor'} : Covers(f)'
    BY <2>3
  <2> QED
    BY <1>1, <2>4 DEF EstimateInv
<1>5. EstimateAllowsForOrders'
  <2> SUFFICES ASSUME at' = "returned"
               PROVE  \A o \in toServe :
                        timeToCompleteOrders' >= travelTime * Distance(start', o[1])
                                                  + DoorOpenTime * Cardinality(FloorsOf(toServe))
    BY <1>1 DEF EstimateAllowsForOrders, FloorsOf
  <2>1. /\ state = "Idle" /\ ChooseDirection(direction, floor, queue) = Stop
        /\ timeToCompleteOrders' = DoorOpenTime /\ floor' = floor
    BY DEF Assess
  <2>2. \A o \in queue : o[1] = floor
    <3>1. ~HasOrdersAbove(floor, queue) /\ ~HasOrdersBelow(floor, queue)
      BY <2>1 DEF ChooseDirection, Up, Down, Stop
    <3> QED
      BY <3>1, NumFloorsAssumption DEF TypeOK, Orders, Floors, HasOrdersAbove, HasOrdersBelow
  <2>3. FloorsOf(toServe) \subseteq {floor}
    BY <1>1, <2>2 DEF FloorsOf
  <2>4. Cardinality(FloorsOf(toServe)) \in Nat /\ Cardinality(FloorsOf(toServe)) <= 1
    <3>1. IsFiniteSet({floor}) /\ Cardinality({floor}) = 1
      BY FS_Singleton
    <3>2. Cardinality(FloorsOf(toServe)) <= Cardinality({floor})
      BY <2>3, <3>1, FS_Subset
    <3> QED
      BY <3>1, <3>2, FloorSets
  <2>5. PICK n \in Nat : n = Cardinality(FloorsOf(toServe)) /\ n <= 1
    BY <2>4
  <2>6. travelTime * 0 + DoorOpenTime * n <= DoorOpenTime
    BY <2>5, CostAssumption
  <2> QED
    BY <1>1, <1>3, <2>1, <2>2, <2>5, <2>6, CostAssumption
<1> QED
  BY <1>4, <1>5

(* An iteration serves at most this floor, with a stop, and goes one floor on. *)
LEMMA IterateCovers ==
  ASSUME TypeOK, TypeOK', EstimateInv, Iterate
  PROVE  EstimateInv' /\ EstimateAllowsForOrders'
<1> DEFINE door == IF Stops THEN DoorOpenTime ELSE 0
           way == IF direction' = Stop THEN 0 ELSE travelTime
<1>1. /\ queue' \subseteq queue /\ (~Stops => queue' = queue)
      /\ \A o \in queue : o[1] # floor => o \in queue'
      /\ floor' = floor + direction' /\ direction' \in Directions /\ floor \in Floors
      /\ at = "loop" /\ at' = IF direction' = Stop THEN "returned" ELSE "loop"
      /\ timeToCompleteOrders' = timeToCompleteOrders + door + way
      /\ UNCHANGED <<start, toServe>>
  BY IterateSteps DEF TypeOK
<1>2. Served' \subseteq Served \cup {floor} /\ (~Stops => Served' = Served)
  BY <1>1 DEF Served, FloorsOf
<1>3. PICK c, c2, t \in Nat :
        c = Cardinality(Served) /\ c2 = Cardinality(Served') /\ t = timeToCompleteOrders
  <2>1. Cardinality(Served)' \in Nat
    <3>1. Served' \subseteq Served \cup {floor} /\ IsFiniteSet(Served)
      BY <1>2, FloorSets
    <3> QED
      BY <3>1, FS_AddElement, FS_Subset, FS_CardinalityType
  <2> QED
    BY <2>1, FloorSets DEF TypeOK
<1>4. Cardinality(Served \cup {floor}) \in Nat /\ Cardinality(Served \cup {floor}) <= c + 1
  <2>1. /\ IsFiniteSet(Served) /\ IsFiniteSet(Served \cup {floor})
        /\ Cardinality(Served \cup {floor}) = IF floor \in Served THEN c ELSE c + 1
    BY <1>3, FloorSets, FS_AddElement
  <2> QED
    BY <2>1
<1>5. c2 <= c + 1 /\ (~Stops => c2 = c)
  <2>1. c2 <= Cardinality(Served \cup {floor})
    BY <1>2, <1>3, FloorSets, FS_AddElement, FS_Subset
  <2> QED
    BY <1>2, <1>3, <1>4, <2>1
<1>6. PICK stops \in Nat : stops = door
  BY CostAssumption
<1>7. DoorOpenTime * c2 <= DoorOpenTime * c + stops
  BY <1>5, <1>6, OneMore, CostAssumption
<1>8. ASSUME NEW f \in Served \cup {floor}
      PROVE  /\ f \in Floors /\ Distance(start, f) \in Nat
             /\ t >= travelTime * Distance(start, f) + DoorOpenTime * c
  BY <1>1, <1>3, <1>8, FloorSets DEF EstimateInv, Covers
<1>9. CASE direction' # Stop
  <2>1. /\ timeToCompleteOrders' = t + stops + travelTime /\ at' = "loop"
    BY <1>1, <1>3, <1>6, <1>9
  <2>2. ASSUME NEW f \in Served' \cup {floor'}
        PROVE  t + stops + travelTime >= travelTime * Distance(start, f) + DoorOpenTime * c2
    <3>1. PICK p, p2, w, m, m2 \in Nat :
             /\ p = Distance(start, floor) /\ p2 = Distance(start, floor')
             /\ w = Distance(start, f) /\ m = DoorOpenTime * c /\ m2 = DoorOpenTime * c2
      <4>1. f \in Floors /\ floor' \in Floors
        BY <1>2, <1>8 DEF TypeOK
      <4> QED
        BY <1>1, <4>1, FloorSets, CostAssumption
    <3>2. m2 <= m + stops
      BY <1>7, <3>1
    <3>3. CASE f \in Served \cup {floor}
      <4>1. t >= travelTime * w + m
        BY <1>8, <3>1, <3>3
      <4> QED
        BY <3>1, <3>2, <4>1, CostAssumption
    <3>4. CASE f = floor'
      <4>1. p2 <= p + 1
        <5>1. PICK f0, f1, s \in Nat : f0 = floor /\ f1 = floor' /\ s = start
          <6>1. floor \in Floors /\ floor' \in Floors /\ start \in Floors
            BY DEF TypeOK
          <6>2. Floors \subseteq Nat
            BY NumFloorsAssumption DEF Floors
          <6> QED
            BY <6>1, <6>2
        <5>2. f1 = f0 + 1 \/ f1 = f0 - 1
          BY <1>1, <1>9, <5>1 DEF Directions, Up, Down, Stop
        <5>3. Distance(s, f1) <= Distance(s, f0) + 1
          BY <5>2 DEF Distance
        <5>4. p = Distance(s, f0) /\ p2 = Distance(s, f1)
          BY <1>1, <3>1, <5>1
        <5> QED
          BY <5>3, <5>4
      <4>2. travelTime * p2 <= travelTime * p + travelTime
        BY <4>1, OneMore, CostAssumption
      <4>3. t >= travelTime * p + m
        BY <1>8, <3>1
      <4> QED
        BY <3>1, <3>2, <3>4, <4>2, <4>3, CostAssumption
    <3> QED
      BY <1>2, <3>3, <3>4
  <2>3. \A f \in Served' \cup {floor'} : Covers(f)'
    BY <1>1, <1>3, <2>1, <2>2 DEF Covers
  <2> QED
    BY <1>1, <2>1, <2>3 DEF EstimateInv, EstimateAllowsForOrders
<1>10. CASE direction' = Stop
  <2>1. Stops /\ \A o \in queue : o[1] = floor
    BY <1>10, ReturnStops
  <2>2. timeToCompleteOrders' = t + DoorOpenTime /\ at' = "returned"
    BY <1>1, <1>3, <1>10, <2>1, CostAssumption
  <2>3. FloorsOf(toServe) \subseteq Served \cup {floor}
    BY <2>1 DEF Served, FloorsOf
  <2>4. PICK n \in Nat : n = Cardinality(FloorsOf(toServe))
    BY FloorSets
  <2>5. n <= c + 1
    <3>1. n <= Cardinality(Served \cup {floor})
      BY <2>3, <2>4, FloorSets, FS_AddElement, FS_Subset
    <3> QED
      BY <1>4, <2>4, <3>1
  <2>6. DoorOpenTime * n <= DoorOpenTime * c + DoorOpenTime
    BY <2>5, OneMore, CostAssumption
  <2>7. ASSUME NEW o \in toServe
        PROVE  t + DoorOpenTime >= travelTime * Distance(start, o[1]) + DoorOpenTime * n
    <3>1. PICK w, m, m2 \in Nat :
             w = Distance(start, o[1]) /\ m = DoorOpenTime * c /\ m2 = DoorOpenTime * n
      <4>1. o[1] \in Floors
        BY DEF TypeOK, Orders
      <4> QED
        BY <4>1, FloorSets, CostAssumption
    <3>2. t >= travelTime * w + m
      BY <1>8, <2>3, <3>1 DEF FloorsOf
    <3> QED
      BY <2>6, <3>1, <3>2, CostAssumption
  <2>8. EstimateAllowsForOrders'
    BY <1>1, <2>2, <2>4, <2>7 DEF EstimateAllowsForOrders, FloorsOf
  <2> QED
    BY <1>1, <2>2, <2>8 DEF EstimateInv
<1> QED
  BY <1>9, <1>10

(* The estimate never falls short of the way from where the simulation starts *)
(* to the farthest order and of a stop at every floor with an order.          *)
THEOREM EstimateTheorem == ASSUME TornReads = FALSE PROVE Spec => []EstimateAllowsForOrders
<1>1. Init => EstimateInv /\ EstimateAllowsForOrders
  BY DEF Init, EstimateInv, EstimateAllowsForOrders
<1>2. /\ TypeOK /\ TypeOK' /\ EstimateInv /\ EstimateAllowsForOrders /\ [Next]_vars
      => EstimateInv' /\ EstimateAllowsForOrders'
  <2> SUFFICES ASSUME TypeOK, TypeOK', EstimateInv, EstimateAllowsForOrders, [Next]_vars
               PROVE  EstimateInv' /\ EstimateAllowsForOrders'
    OBVIOUS
  <2>1. CASE UNCHANGED vars
    BY <2>1 DEF vars, status, EstimateInv, EstimateAllowsForOrders, Covers, Served
  <2> QED
    BY <2>1, AssessCovers, IterateCovers DEF Next
<1> QED
  BY <1>1, <1>2, CostTypeCorrect, PTL DEF Spec

-----------------------------------------------------------------------------
(* The end of the loop.                                                       *)

(* After its first iteration the simulated elevator has an order ahead of it  *)
(* or at its floor, and so each turn clears an order.                         *)
OnTheWay ==
  \/ direction = Up /\ \E o \in queue : o[1] >= floor
  \/ direction = Down /\ \E o \in queue : o[1] <= floor

(* A bound on the iterations left: a sweep of the shaft for every order, and  *)
(* the rest of this one.                                                      *)
Sweep == IF direction = Up THEN NumFloors - 1 - floor ELSE floor
Remaining == Cardinality(queue) * NumFloors + Sweep
TimePerFloor == DoorOpenTime + travelTime

LongestEstimate == TimePerFloor * (3 * NumFloors * NumFloors + NumFloors + 2)

SweepInv ==
  /\ at = "switch" => timeToCompleteOrders = 0
  /\ at = "loop" =>
       \/ timeToCompleteOrders <= TimePerFloor
       \/ OnTheWay /\ timeToCompleteOrders + TimePerFloor * (Remaining + 1) <= LongestEstimate
  /\ timeToCompleteOrders <= LongestEstimate

(* There are at most three orders for each floor. *)
LEMMA QueueSize ==
  ASSUME NEW q \in SUBSET Orders
  PROVE  /\ IsFiniteSet(q) /\ Cardinality(q) \in Nat
         /\ Cardinality(q) <= 3 * NumFloors
<1>1. IsFiniteSet(Floors) /\ Cardinality(Floors) = NumFloors
  <2>1. /\ IsFiniteSet(0 .. NumFloors - 1)
        /\ Cardinality(0 .. NumFloors - 1) = IF 0 > NumFloors - 1 THEN 0 ELSE NumFloors - 1 - 0 + 1
    BY FS_Interval, NumFloorsAssumption
  <2> QED
    BY <2>1, NumFloorsAssumption DEF Floors
<1>2. IsFiniteSet(Buttons) /\ Cardinality(Buttons) = 3
  <2>1. IsFiniteSet({}) /\ Cardinality({}) = 0
    BY FS_EmptySet
  <2>2. IsFiniteSet({"HallUp"}) /\ Cardinality({"HallUp"}) = 1
    BY FS_Singleton
  <2>3. /\ IsFiniteSet({"HallUp"} \cup {"HallDown"})
        /\ Cardinality({"HallUp"} \cup {"HallDown"}) = 2
    BY <2>2, FS_AddElement
  <2>4. /\ IsFiniteSet(({"HallUp"} \cup {"HallDown"}) \cup {"Cab"})
        /\ Cardinality(({"HallUp"} \cup {"HallDown"}) \cup {"Cab"}) = 3
    BY <2>3, FS_AddElement
  <2>5. Buttons = ({"HallUp"} \cup {"HallDown"}) \cup {"Cab"}
    BY DEF Buttons
  <2> QED
    BY <2>4, <2>5
<1>3. IsFiniteSet(Orders) /\ Cardinality(Orders) = NumFloors * 3
  BY <1>1, <1>2, FS_Product DEF Orders
<1>4. IsFiniteSet(q) /\ Cardinality(q) \in Nat /\ Cardinality(q) <= NumFloors * 3
  BY <1>3, FS_Subset, FS_CardinalityType
<1> QED
  BY <1>4, NumFloorsAssumption

(* The bound on the iterations left is a natural number. *)
LEMMA RemainingType ==
  ASSUME TypeOK
  PROVE  Remaining \in Nat
<1>1. PICK k, n, w \in Nat : k = Cardinality(queue) /\ n = NumFloors /\ w = Sweep
  <2>1. Sweep \in Nat
    BY NumFloorsAssumption DEF TypeOK, Sweep, Floors
  <2> QED
    BY <2>1, QueueSize, NumFloorsAssumption DEF TypeOK
<1>2. k * n + w \in Nat
  OBVIOUS
<1> QED
  BY <1>1, <1>2 DEF Remaining

(* An iteration that does not return brings the elevator nearer to the end of *)
(* its sweep, or clears an order and turns.                                   *)
LEMMA SweepShrinks ==
  ASSUME TypeOK, TypeOK', Iterate, direction' # Stop
  PROVE  /\ Remaining \in Nat /\ Remaining' \in Nat
         /\ OnTheWay'
         /\ OnTheWay => Remaining' + 1 <= Remaining
         /\ Remaining' + 1 <= 3 * NumFloors * NumFloors + NumFloors
<1>1. /\ queue' \subseteq queue /\ direction' = ChooseDirection(direction, floor, queue')
      /\ floor' = floor + direction' /\ direction' \in {Up, Down}
      /\ queue \subseteq Orders /\ queue' \subseteq Orders /\ direction \in Directions
      /\ floor \in Floors /\ floor' \in Floors
      /\ \A o \in queue : o[1] # floor => o \in queue'
  BY IterateSteps DEF TypeOK, Directions
<1>2. PICK n, f, f2, k, k2, w, w2 \in Nat :
        /\ n = NumFloors /\ f = floor /\ f2 = floor'
        /\ k = Cardinality(queue) /\ k2 = Cardinality(queue')
        /\ w = Sweep /\ w2 = Sweep'
  <2>1. Cardinality(queue) \in Nat /\ Cardinality(queue') \in Nat
    BY <1>1, QueueSize
  <2>2. floor \in Nat /\ floor' \in Nat /\ NumFloors \in Nat
    BY <1>1, NumFloorsAssumption DEF Floors
  <2>3. Sweep \in Nat /\ Sweep' \in Nat
    BY <1>1, NumFloorsAssumption DEF Sweep, Floors
  <2> QED
    BY <2>1, <2>2, <2>3
<1>3. n >= 1 /\ f <= n - 1 /\ f2 <= n - 1 /\ w <= n - 1 /\ w2 <= n - 1
  BY <1>1, <1>2, NumFloorsAssumption DEF Floors, Sweep
<1>4. k2 <= k /\ k2 <= 3 * n /\ (queue' # queue => k2 + 1 <= k)
  <2>1. IsFiniteSet(queue) /\ k2 <= 3 * n
    BY <1>1, <1>2, QueueSize
  <2>2. k2 <= k /\ (k = k2 => queue = queue')
    BY <1>1, <1>2, <2>1, FS_Subset
  <2> QED
    BY <2>1, <2>2
<1>5. Remaining = k * n + w /\ Remaining' = k2 * n + w2
  BY <1>2 DEF Remaining
<1>6. k * n \in Nat /\ k2 * n \in Nat
  OBVIOUS
<1>7. OnTheWay'
  <2>1. CASE direction' = Up
    <3>1. PICK o \in queue' : o[1] > floor
      BY <1>1, <2>1 DEF ChooseDirection, HasOrdersAbove, Up, Down, Stop
    <3>2. o[1] \in Int
      BY <1>1, <3>1 DEF Orders, Floors
    <3>3. floor' = floor + 1
      BY <1>1, <2>1 DEF Up
    <3>4. o[1] >= floor'
      BY <1>1, <3>1, <3>2, <3>3, NumFloorsAssumption DEF Floors
    <3> QED
      BY <2>1, <3>1, <3>4 DEF OnTheWay
  <2>2. CASE direction' = Down
    <3>1. PICK o \in queue' : o[1] < floor
      BY <1>1, <2>2 DEF ChooseDirection, HasOrdersBelow, Up, Down, Stop
    <3>2. o[1] \in Int
      BY <1>1, <3>1 DEF Orders, Floors
    <3>3. floor' = floor - 1
      BY <1>1, <2>2 DEF Down
    <3>4. o[1] <= floor'
      BY <1>1, <3>1, <3>2, <3>3, NumFloorsAssumption DEF Floors
    <3> QED
      BY <2>2, <3>1, <3>4 DEF OnTheWay
  <2> QED
    BY <1>1, <2>1, <2>2
<1>8. ASSUME OnTheWay
      PROVE  Remaining' + 1 <= Remaining
  <2>1. CASE direction' = direction
    <3>1. w2 + 1 <= w
      BY <1>1, <1>2, <2>1 DEF Sweep, Up, Down
    <3>2. k2 * n <= k * n
      BY <1>4, OneMore
    <3> QED
      BY <1>5, <1>6, <3>1, <3>2
  <2>2. CASE direction' # direction
    <3>1. /\ direction \in {Up, Down}
          /\ direction = Up => ~HasOrdersAbove(floor, queue')
          /\ direction = Down => ~HasOrdersBelow(floor, queue')
      BY <1>1, <1>8, <2>2 DEF OnTheWay, ChooseDirection, Up, Down, Stop
    <3>2. /\ direction = Up => ~HasOrdersAbove(floor, queue)
          /\ direction = Down => ~HasOrdersBelow(floor, queue)
      <4>1. \A o \in queue : o[1] > floor \/ o[1] < floor => o \in queue'
        BY <1>1 DEF Floors
      <4> QED
        BY <3>1, <4>1 DEF HasOrdersAbove, HasOrdersBelow
    <3>3. PICK o \in queue : o[1] = floor
      <4>1. \A o \in queue : o[1] \in Int /\ floor \in Int
        BY <1>1, NumFloorsAssumption DEF Orders, Floors
      <4> QED
        BY <1>8, <3>1, <3>2, <4>1 DEF OnTheWay, HasOrdersAbove, HasOrdersBelow, Up, Down
    <3>4. o \notin queue'
      BY <1>1, <3>1, <3>2, <3>3, LastStopClears, IterateSteps DEF Stops
    <3>5. (k2 + 1) * n <= k * n
      BY <1>4, <3>3, <3>4, OneMore
    <3>6. (k2 + 1) * n = k2 * n + n
      OBVIOUS
    <3> QED
      BY <1>3, <1>5, <1>6, <3>5, <3>6
  <2> QED
    BY <2>1, <2>2
<1>9. Remaining' + 1 <= 3 * NumFloors * NumFloors + NumFloors
  <2>1. k2 * n <= (3 * n) * n
    BY <1>4, OneMore
  <2> QED
    BY <1>2, <1>3, <1>5, <1>6, <2>1
<1> QED
  BY <1>5, <1>6, <1>7, <1>8, <1>9

(* The time used and the time for the sweeps left never grow beyond the bound. *)
LEMMA SweepInductive ==
  ASSUME TypeOK, TypeOK', SweepInv, Next
  PROVE  SweepInv'
<1>1. PICK t, d, step, n \in Nat :
        /\ t = timeToCompleteOrders /\ d = DoorOpenTime /\ step = TimePerFloor
        /\ n = 3 * NumFloors * NumFloors + NumFloors
        /\ d <= step /\ travelTime <= step /\ LongestEstimate = step * (n + 2)
  <2>1. /\ DoorOpenTime \in Nat /\ travelTime \in Nat /\ TimePerFloor \in Nat
        /\ DoorOpenTime <= TimePerFloor /\ travelTime <= TimePerFloor
    BY CostAssumption DEF TimePerFloor
  <2>2. NumFloors \in Nat /\ 3 * NumFloors * NumFloors + NumFloors \in Nat
    BY NumFloorsAssumption
  <2> QED
    BY <2>1, <2>2 DEF TypeOK, LongestEstimate
<1>2. PICK all, sweeps \in Nat :
        /\ all = LongestEstimate /\ sweeps = step * n
        /\ all = sweeps + step + step
  <2>1. step * (n + 2) = step * n + step + step /\ step * n \in Nat
    OBVIOUS
  <2> QED
    BY <1>1, <2>1
<1>3. CASE Assess
  <2>1. t = 0 /\ at' \in {"loop", "returned"}
    BY <1>1, <1>3 DEF Assess, SweepInv
  <2>2. timeToCompleteOrders' \in Nat /\ timeToCompleteOrders' <= step
    BY <1>1, <1>3, <2>1, CostAssumption DEF Assess
  <2>3. PICK t2 \in Nat : t2 = timeToCompleteOrders' /\ t2 <= step
    BY <2>2
  <2>4. t2 <= all
    BY <1>2, <2>3
  <2> QED
    BY <1>1, <1>2, <2>1, <2>3, <2>4 DEF SweepInv
<1>4. CASE Iterate
  <2>1. PICK t2, door, way \in Nat :
          /\ t2 = timeToCompleteOrders' /\ t2 = t + door + way
          /\ door <= d /\ way <= travelTime /\ (direction' = Stop => way = 0)
    <3>1. PICK door, way \in Nat :
            /\ door = (IF Stops THEN DoorOpenTime ELSE 0) /\ door <= d
            /\ way = (IF direction' = Stop THEN 0 ELSE travelTime) /\ way <= travelTime
      BY <1>1, CostAssumption
    <3>2. timeToCompleteOrders' = t + door + way
      BY <1>1, <1>4, <3>1, IterateSteps
    <3>3. t + door + way \in Nat
      OBVIOUS
    <3> QED
      BY <3>1, <3>2, <3>3
  <2>t. t2 <= t + step
    <3>1. door + way <= step
      BY <1>1, <2>1, CostAssumption DEF TimePerFloor
    <3> QED
      BY <2>1, <3>1
  <2>2. at = "loop" /\ at' = IF direction' = Stop THEN "returned" ELSE "loop"
    BY <1>4, IterateSteps
  <2>3. CASE t <= step
    <3>1. t2 <= all
      BY <1>2, <2>t, <2>3
    <3>2. ASSUME direction' # Stop
          PROVE  OnTheWay' /\ timeToCompleteOrders' + step * (Remaining' + 1) <= all
      <4>1. PICK more \in Nat : more = Remaining' + 1 /\ more <= n
        BY <1>1, <1>4, <3>2, SweepShrinks
      <4>2. PICK left \in Nat : left = step * more /\ left <= sweeps
        <5>1. step * more \in Nat /\ step * more <= step * n
          BY <4>1, OneMore
        <5> QED
          BY <1>2, <5>1
      <4>3. all = sweeps + step + step
        BY <1>2
      <4>4. t2 + left <= all
        BY <2>t, <2>3, <4>2, <4>3
      <4> QED
        BY <1>4, <2>1, <3>2, <4>1, <4>2, <4>4, SweepShrinks
    <3> QED
      BY <1>1, <1>2, <2>1, <2>2, <3>1, <3>2 DEF SweepInv
  <2>4. CASE OnTheWay /\ t + step * (Remaining + 1) <= all
    <3>1. PICK now \in Nat : now = Remaining + 1
      BY RemainingType
    <3>2. PICK left \in Nat : left = step * now /\ t + left <= all /\ step <= left
      <4>1. step * now \in Nat
        OBVIOUS
      <4>2. step * 1 <= step * now
        BY <3>1, RemainingType, OneMore
      <4> QED
        BY <2>4, <3>1, <4>1, <4>2
    <3>3. t2 <= all
      BY <2>t, <3>2
    <3>4. ASSUME direction' # Stop
          PROVE  OnTheWay' /\ timeToCompleteOrders' + step * (Remaining' + 1) <= all
      <4>1. PICK more \in Nat : more = Remaining' + 1 /\ more + 1 <= now
        BY <1>4, <2>4, <3>1, <3>4, SweepShrinks
      <4>2. PICK later \in Nat : later = step * more /\ later + step <= left
        <5>1. (more + 1) \in Nat /\ step * (more + 1) = step * more + step /\ step * more \in Nat
          OBVIOUS
        <5>2. step * (more + 1) <= step * now
          BY <4>1, <5>1, OneMore
        <5> QED
          BY <3>2, <5>1, <5>2
      <4>3. t2 + later <= all
        BY <2>t, <3>2, <4>2
      <4> QED
        BY <1>4, <2>1, <3>4, <4>1, <4>2, <4>3, SweepShrinks
    <3> QED
      BY <1>1, <1>2, <2>1, <2>2, <3>3, <3>4 DEF SweepInv
  <2> QED
    BY <1>1, <1>2, <2>2, <2>3, <2>4 DEF SweepInv
<1> QED
  BY <1>3, <1>4 DEF Next

(* The simulated elevator stands still after at most one sweep of the shaft   *)
(* for each order, and one more: with CostBound at least this long no         *)
(* estimate exceeds it.  As every iteration but the last adds travelTime, the *)
(* loop, which has no bound of its own, ends for every number of floors.      *)
THEOREM BoundTheorem ==
  ASSUME TornReads = FALSE, LongestEstimate <= CostBound
  PROVE  Spec => []CostBelowBound
<1>1. TypeOK /\ SweepInv => CostBelowBound
  <2>1. LongestEstimate \in Int /\ CostBound \in Int
    BY CostAssumption, NumFloorsAssumption DEF LongestEstimate, TimePerFloor
  <2> QED
    BY <2>1 DEF CostBelowBound, SweepInv, TypeOK
<1>2. Init => SweepInv
  <2>1. LongestEstimate \in Nat
    BY CostAssumption, NumFloorsAssumption DEF LongestEstimate, TimePerFloor
  <2> QED
    BY <2>1 DEF Init, SweepInv
<1>3. TypeOK /\ TypeOK' /\ SweepInv /\ [Next]_vars => SweepInv'
  <2>1. UNCHANGED vars /\ SweepInv => SweepInv'
    BY DEF vars, status, SweepInv, OnTheWay, Remaining, Sweep
  <2> QED
    BY <2>1, SweepInductive
<1> QED
  BY <1>1, <1>2, <1>3, CostTypeCorrect, PTL DEF Spec
==============================================================================
