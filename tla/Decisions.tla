------------------------------ MODULE Decisions ------------------------------
(***************************************************************************)
(* The pure decisions of one elevator (singleElevator/decisions.go and     *)
(* hallCallClearOrder of ioEventHandler.go).  The [NumFloors][NumButtons]  *)
(* array elevator.Queue is the set of its TRUE cells: an order is a pair   *)
(* <<floor, button>> and a queue is a set of orders.                       *)
(***************************************************************************)
EXTENDS Integers

CONSTANT NumFloors

ASSUME NumFloorsAssumption == NumFloors \in Nat \ {0}

Floors == 0 .. (NumFloors - 1)
Buttons == {"HallUp", "HallDown", "Cab"}
Orders == Floors \X Buttons

(* elevio.MotorDirection: the sign of the movement. *)
Up == 1
Down == -1
Stop == 0
Directions == {Up, Down, Stop}

HasOrdersAbove(floor, queue) == \E o \in queue : o[1] > floor

HasOrdersBelow(floor, queue) == \E o \in queue : o[1] < floor

hasOrdersAtFloor(floor, queue) == \E o \in queue : o[1] = floor

(* Slip: the missing fallthrough of case MD_Stop. *)
ChooseDirectionStopped(direction, floor, queue) ==
  LET above == HasOrdersAbove(floor, queue)
      below == HasOrdersBelow(floor, queue)
  IN  IF direction = Stop THEN Stop
      ELSE IF above /\ (direction = Up \/ ~below) THEN Up
      ELSE IF below THEN Down ELSE Stop

(* Slip: the direction is kept whatever the orders are. *)
ChooseDirectionKept(direction, floor, queue) ==
  IF direction # Stop /\ queue # {} THEN direction
  ELSE IF HasOrdersBelow(floor, queue) THEN Down
  ELSE IF HasOrdersAbove(floor, queue) THEN Up ELSE Stop

(* Keep going up while there is something above, otherwise prefer down. *)
ChooseDirection(direction, floor, queue) ==
  LET above == HasOrdersAbove(floor, queue)
      below == HasOrdersBelow(floor, queue)
  IN  IF above /\ (direction = Up \/ ~below) THEN Up
      ELSE IF below THEN Down ELSE Stop

(* The hall button whose passengers travel in direction d. *)
HallTowards(d) == IF d = Up THEN "HallUp" ELSE "HallDown"

(* Slip: secondClearButton keeps its first value BT_Cab. *)
OppositeUnset(b) == "Cab"

Opposite(b) == IF b = "HallUp" THEN "HallDown" ELSE "HallUp"

(***************************************************************************)
(* hallCallClearOrder: which hall call is cleared when the door has been   *)
(* open at floor, which one after a further delay, and whether there is    *)
(* such a delay.  "Cab" stands for no hall call.  The result with no hall  *)
(* call, no cab call and nothing elsewhere is the zero value of the Go     *)
(* variable firstClearButton, BT_HallUp.                                   *)
(***************************************************************************)
hallCallClearOrder(floor, direction, queue) ==
  LET has(b) == <<floor, b>> \in queue
      above == HasOrdersAbove(floor, queue)
      below == HasOrdersBelow(floor, queue)
      both == has("HallUp") /\ has("HallDown")
      delay == both /\ (above # below)
      nothing == ~above /\ ~below /\ \A b \in Buttons : ~has(b)
      first ==
        IF delay THEN IF direction = Down /\ below THEN "HallUp" ELSE "HallDown"
        ELSE IF both THEN HallTowards(direction)
        ELSE IF has("HallUp") /\ (above \/ ~below) THEN "HallUp"
        ELSE IF has("HallDown") /\ (below \/ ~above) THEN "HallDown"
        ELSE IF nothing THEN "HallUp" ELSE "Cab"
  IN  [first |-> first,
       second |-> IF delay THEN Opposite(first) ELSE "Cab",
       delay |-> delay]
==============================================================================
