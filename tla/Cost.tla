--------------------------------- MODULE Cost ---------------------------------
(***************************************************************************)
(* cost of orderAssignment/cost.go: the master simulates an elevator that  *)
(* also takes a hall order, one floor per iteration of the loop, and adds  *)
(* up the seconds until it stands still.  The function is run on every     *)
(* status an elevator can broadcast.                                       *)
(***************************************************************************)
EXTENDS Decisions, FiniteSets

CONSTANTS
  Panel,         \* the orders that can be given: SUBSET Orders
  DoorOpenTime,  \* config.DoorOpenTime
  travelTime,
  CostBound,     \* the largest estimate; bounds the iterations
  TornReads      \* TRUE if GetElevatorState may copy elevator between two
                 \* writes of HandleStateTransition

ASSUME PanelAssumption == Panel \subseteq Orders
ASSUME CostAssumption ==
  /\ {DoorOpenTime, travelTime, CostBound} \subseteq Nat \ {0}
  /\ CostBound < 999   \* the first bestCost of findBestElevator

ASSUME ModelAssumption == TornReads \in BOOLEAN

VARIABLES
  floor, direction, queue, state,  \* e, the copy of the status
  order,                           \* the hall order to estimate
  timeToCompleteOrders,
  at,                              \* where in the function
  start, toServe                   \* history: e.Floor and e.Queue at the loop

status == <<floor, direction, queue, state>>
vars == <<status, order, timeToCompleteOrders, at, start, toServe>>

(* A status as elevators broadcast it, with the order put in its queue.  A    *)
(* moving elevator has a next floor (SingleElevator!MovingHasNextFloor), but  *)
(* HandleStateTransition writes State before Direction, and GetElevatorState  *)
(* copies both on another goroutine and without a lock.                       *)
Init ==
  /\ floor \in Floors /\ direction \in Directions
  /\ state \in {"Idle", "Moving", "DoorOpen"}
  /\ order \in {o \in Panel : o[2] # "Cab"}
  /\ \E q \in SUBSET Panel :
       /\ queue = q \cup {order}
       /\ state = "Moving" =>
            \/ direction # Stop /\ floor + direction \in Floors
            \/ TornReads /\ ChooseDirection(direction, floor, q) # Stop
  /\ timeToCompleteOrders = 0 /\ at = "switch"
  /\ start = floor /\ toServe = queue

(* The switch on e.State.  A moving elevator is taken to be half-way to the   *)
(* next floor, an open door half through its time.                            *)
Assess ==
  /\ at = "switch"
  /\ \/ /\ state = "Idle" /\ order[1] = floor
        /\ ChooseDirection(direction, floor, queue) = Stop
        /\ at' = "returned" /\ timeToCompleteOrders' = DoorOpenTime
        /\ UNCHANGED floor
     \/ /\ state = "Idle"
        /\ order[1] # floor \/ ChooseDirection(direction, floor, queue) # Stop
        /\ at' = "loop"
        /\ UNCHANGED <<timeToCompleteOrders, floor>>
     \/ /\ state = "Moving"
        /\ at' = "loop" /\ timeToCompleteOrders' = travelTime \div 2
        /\ floor' = floor + direction
     \/ /\ state = "DoorOpen"
        /\ at' = "loop" /\ timeToCompleteOrders' = DoorOpenTime \div 2
        /\ UNCHANGED floor
  /\ start' = floor'
  /\ UNCHANGED <<direction, queue, state, order, toServe>>

shouldStopAtFloor(f, d, q) ==
  \/ d = Stop
  \/ <<f, "Cab">> \in q \/ <<f, HallTowards(d)>> \in q
  \/ d = Up /\ ~HasOrdersAbove(f, q)
  \/ d = Down /\ ~HasOrdersBelow(f, q)

(* Slip: the cab order stays in the queue. *)
clearHallOnly(f, d, q) ==
  IF d = Stop THEN q ELSE q \ {<<f, "HallUp">>, <<f, "HallDown">>}

(* On the way down it clears HallUp as well, and HallDown only when nothing   *)
(* is left below.                                                             *)
clearCurrentFloorFromQueue(f, d, q) ==
  LET last == \/ d = Up /\ ~HasOrdersAbove(f, q)
              \/ d = Down /\ ~HasOrdersBelow(f, q)
  IN  q \ ({<<f, "Cab">>} \cup (IF d = Stop THEN {} ELSE {<<f, "HallUp">>})
                          \cup (IF last THEN {<<f, "HallDown">>} ELSE {}))

(* Slip: the time of the stop is not added. *)
IterateFreeStops ==
  LET stops == shouldStopAtFloor(floor, direction, queue)
      q == IF stops THEN clearCurrentFloorFromQueue(floor, direction, queue) ELSE queue
      next == ChooseDirection(direction, floor, q)
  IN  /\ at = "loop" /\ floor \in Floors /\ timeToCompleteOrders <= CostBound
      /\ queue' = q /\ direction' = next /\ floor' = floor + next
      /\ at' = IF next = Stop THEN "returned" ELSE "loop"
      /\ timeToCompleteOrders' =
           timeToCompleteOrders + (IF next = Stop THEN 0 ELSE travelTime)
      /\ UNCHANGED <<state, order, start, toServe>>

(* One iteration of the loop: serve this floor, turn or go on, or return.     *)
(* Indexing e.Queue with a floor outside the shaft is a panic.                *)
Iterate ==
  LET stops == shouldStopAtFloor(floor, direction, queue)
      q == IF stops THEN clearCurrentFloorFromQueue(floor, direction, queue) ELSE queue
      next == ChooseDirection(direction, floor, q)
  IN  /\ at = "loop" /\ floor \in Floors /\ timeToCompleteOrders <= CostBound
      /\ queue' = q /\ direction' = next /\ floor' = floor + next
      /\ at' = IF next = Stop THEN "returned" ELSE "loop"
      /\ timeToCompleteOrders' =
           timeToCompleteOrders + (IF stops THEN DoorOpenTime ELSE 0)
                                + (IF next = Stop THEN 0 ELSE travelTime)
      /\ UNCHANGED <<state, order, start, toServe>>

Next == Assess \/ Iterate

Spec == Init /\ [][Next]_vars

FairSpec == Spec /\ WF_vars(Next)

-----------------------------------------------------------------------------
TypeOK ==
  /\ floor \in Floors   \* every index of e.Queue is in range
  /\ direction \in Directions /\ queue \subseteq Orders
  /\ state \in {"Idle", "Moving", "DoorOpen"} /\ order \in Orders
  /\ timeToCompleteOrders \in Nat /\ at \in {"switch", "loop", "returned"}
  /\ start \in Floors /\ toServe \subseteq Orders

(* No estimate exceeds CostBound.  It lies below the initial bestCost 999, so *)
(* findBestElevator finds an elevator wherever there is one.                  *)
CostBelowBound == timeToCompleteOrders <= CostBound

(* The estimate allows for the way from where the simulation starts to the    *)
(* farthest order and for a stop at every floor with an order.                *)
Distance(f, g) == IF f < g THEN g - f ELSE f - g

EstimateAllowsForOrders ==
  at = "returned" =>
    \A o \in toServe :
      timeToCompleteOrders >= travelTime * Distance(start, o[1])
                              + DoorOpenTime * Cardinality({p[1] : p \in toServe})

(* The loop ends: no queue sends the simulated elevator to and fro for ever.  *)
(* The single goroutine of the order assignment would hang with it.           *)
CostTerminates == <>(at = "returned")

-----------------------------------------------------------------------------
(* "Assumes elevator is halfway between floors" (cost.go:34): a moving        *)
(* elevator is on its way to a floor of the shaft.  With a torn read it need  *)
(* not be, and the goroutine of the order assignment panics.                  *)
HalfwayBetweenFloors == state = "Moving" => floor \in Floors
==============================================================================
