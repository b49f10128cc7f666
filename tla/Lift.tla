---------------------------------- MODULE Lift ----------------------------------
(***************************************************************************)
(* What an elevator promises its passengers, whatever its timers, sensors  *)
(* and events are: it moves only with a closed door and only towards an    *)
(* order, it opens its door and takes an order off its list only while it  *)
(* stands at the floor, and a cab order only with the door open.  It may   *)
(* go out of service, and only then is it repaired, which empties the list.*)
(***************************************************************************)
EXTENDS Decisions

VARIABLES
  position,  \* in half floors
  doorOpen,
  orders,    \* a set of pairs of a floor and a button
  outOfService,
  broken     \* nothing is promised until the repair

vars == <<position, doorOpen, orders, outOfService, broken>>

AtAFloor == \E f \in Floors : position = 2 * f
AtPosition(o) == 2 * o[1] = position

Init ==
  /\ AtAFloor /\ ~doorOpen
  /\ orders = {} /\ ~outOfService /\ ~broken

(* New orders, wherever the cab is. *)
Request == orders \subseteq orders' /\ UNCHANGED <<position, doorOpen>>

(* The cab goes half a floor in the direction of an order. *)
Move ==
  /\ ~doorOpen
  /\ \E o \in orders :
       \/ position < 2 * o[1] /\ position' = position + 1
       \/ position > 2 * o[1] /\ position' = position - 1
  /\ UNCHANGED <<doorOpen, orders>>

(* At a floor the door opens and closes, and orders for it are done. *)
Serve ==
  /\ AtAFloor /\ position' = position
  /\ doorOpen' \in BOOLEAN
  /\ \A o \in orders \ orders' : AtPosition(o) /\ (doorOpen \/ o[2] # "Cab")

(* Out of service, the cab is taken to a floor, at most half a floor down. *)
Repair ==
  /\ outOfService /\ ~outOfService'
  /\ position' \in {position, position - 1}
  /\ AtAFloor' /\ ~doorOpen'
  /\ orders' = {} /\ ~broken'

Next ==
  \/ ~outOfService /\ ~broken /\ ~broken' /\ (Request \/ Move \/ Serve)
  \/ Repair
  \/ broken'

Spec == Init /\ [][Next]_vars
=================================================================================
