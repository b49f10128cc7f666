---------------------------------- MODULE Lights ----------------------------------
(***************************************************************************)
(* The lamp of one hall button on the panels of all elevators: the order   *)
(* statuses that elevators send to the master, the light orders by which   *)
(* the master passes them on, and their handlers in orderHandler.go.  The  *)
(* messages are those of ReliablePackets: each is processed once, given up *)
(* or taken for another, in any order.  Lamps of different buttons do not  *)
(* touch each other, but their messages share the sequence numbers.        *)
(***************************************************************************)
EXTENDS Integers

CONSTANTS
  Slaves, Master,  \* the elevators; the master does not change
  MaxReports,      \* bound on order statuses
  MaxRestarts, MaxPeerUpdates

Elevators == Slaves \cup {Master}

ASSUME MasterAssumption == Master \notin Slaves
ASSUME BoundsAssumption == {MaxReports, MaxRestarts, MaxPeerUpdates} \subseteq Nat

VARIABLES
  queued,    \* the elevators with the order in elevator.Queue
  lamp,      \* whether the lamp of the button is lit, per elevator
  listed,    \* the slaves in the master's elevatorStatuses
  statuses,  \* the order statuses under way
  lights,    \* the light orders under way
  reports,   \* the number of order statuses sent
  restarts, peerUpdates,
  \* history
  disturbed, \* since nothing was under way, messages were lost, ignored or
             \* overtaken, or two elevators reported at a time
  told,      \* who should have heard of the last order status handled
  orphaned   \* the last order status was that of an elevator restarted since

bounds == <<restarts, peerUpdates>>
history == <<disturbed, told, orphaned>>
vars == <<queued, lamp, listed, statuses, lights, reports, bounds, history>>

UnderWay == statuses \cup lights
Older(messages, m) == {x \in messages : x.number < m.number}

Init ==
  /\ queued = {} /\ lamp = [e \in Elevators |-> FALSE]
  /\ listed \in SUBSET Slaves
  /\ statuses = {} /\ lights = {}
  /\ reports = 0 /\ restarts = 0 /\ peerUpdates = 0
  /\ disturbed = FALSE /\ told = {} /\ orphaned = FALSE

-----------------------------------------------------------------------------
(* An elevator tells the master what it has done; the master tells itself    *)
(* through orderStatusChan.  Every SendOrderStatus has the next number.       *)
SendOrderStatus(e, status) ==
  /\ reports < MaxReports /\ reports' = reports + 1
  /\ statuses' = statuses \cup {[sender |-> e, status |-> status, number |-> reports]}
  /\ disturbed' = (UnderWay # {} /\ (disturbed \/ \E m \in UnderWay : m.sender # e))
  /\ orphaned' = FALSE
  /\ UNCHANGED <<listed, lights, bounds, told>>

(* The order enters a queue.  The lamp is lit there at once. *)
handleAssignedHallCall(e) ==
  /\ queued' = queued \cup {e}
  /\ lamp' = [lamp EXCEPT ![e] = TRUE]
  /\ SendOrderStatus(e, "Unfinished")

(* Slip: the master is not told. *)
clearAllOrdersAtFloorSilently(e) ==
  /\ queued' = queued \ {e}
  /\ lamp' = [lamp EXCEPT ![e] = FALSE]
  /\ UNCHANGED <<listed, statuses, lights, reports, bounds, history>>

(* It leaves the queue.  A stop without any order clears the button as well.  *)
clearAllOrdersAtFloor(e) ==
  /\ queued' = queued \ {e}
  /\ lamp' = [lamp EXCEPT ![e] = FALSE]
  /\ SendOrderStatus(e, "Finished")

-----------------------------------------------------------------------------
(* The master. *)

(* Slip: it also goes to the master. *)
SendLightOrderToSelf(m) ==
  lights' = lights \cup
    {[target |-> e, light |-> m.status, sender |-> m.sender, number |-> m.number] :
       e \in (listed \cup {Master}) \ {m.sender}}

(* Slip: the light order also goes to the elevator that has reported. *)
SendLightOrderToAll(m) ==
  lights' = lights \cup
    {[target |-> e, light |-> m.status, sender |-> m.sender, number |-> m.number] : e \in listed}

(* One light order for every other elevator it knows, but for the sender. *)
SendLightOrder(m) ==
  lights' = lights \cup
    {[target |-> e, light |-> m.status, sender |-> m.sender, number |-> m.number] :
       e \in listed \ {m.sender}}

Lit(status) == status = "Unfinished"

(* Slip: the master's own lamp is left to the elevator's own handler. *)
handleOrderStatusUnlit(m) ==
  /\ m \in statuses /\ statuses' = statuses \ {m}
  /\ UNCHANGED lamp
  /\ SendLightOrder(m)
  /\ told' = {m.sender, Master} \cup listed
  /\ disturbed' = (disturbed \/ Older(statuses, m) # {})
  /\ UNCHANGED <<queued, listed, reports, bounds, orphaned>>

handleOrderStatus(m) ==
  /\ m \in statuses /\ statuses' = statuses \ {m}
  /\ lamp' = [lamp EXCEPT ![Master] = Lit(m.status)]
  /\ SendLightOrder(m)
  /\ told' = {m.sender, Master} \cup listed
  /\ disturbed' = (disturbed \/ Older(statuses, m) # {})
  /\ UNCHANGED <<queued, listed, reports, bounds, orphaned>>

(* A message that is never processed. *)
Lose(m) ==
  /\ statuses' = statuses \ {m} /\ lights' = lights \ {m}
  /\ disturbed' = TRUE
  /\ UNCHANGED <<queued, lamp, listed, reports, bounds, told, orphaned>>

(* The master ignores an order status whose number it has seen in the last     *)
(* ten seconds.  All elevators, the master too, count from the same number,   *)
(* and for all buttons together, so that any status can meet this fate.       *)
ignoreDuplicate(m) == m \in statuses /\ Lose(m)

(* The entries of elevatorStatuses change as slaves come and go. *)
UpdateElevatorStates(e) ==
  /\ peerUpdates < MaxPeerUpdates /\ peerUpdates' = peerUpdates + 1
  /\ listed' = IF e \in listed THEN listed \ {e} ELSE listed \cup {e}
  /\ UNCHANGED <<queued, lamp, statuses, lights, reports, restarts, history>>

-----------------------------------------------------------------------------
(* A slave takes a light order. *)
handleLightOrder(l) ==
  /\ l \in lights /\ lights' = lights \ {l}
  /\ lamp' = [lamp EXCEPT ![l.target] = Lit(l.light)]
  /\ disturbed' = (disturbed \/ \E x \in Older(lights, l) : x.target = l.target)
  /\ UNCHANGED <<queued, listed, statuses, reports, bounds, told, orphaned>>

(* A transmission is given up.  The master's own statuses are not transmitted. *)
GiveUp(m) == (m \in lights \/ m.sender # Master) /\ Lose(m)

(* A slave starts again with an empty queue, and InitElevator turns all of    *)
(* its lamps off.  Copies of its last messages are still under way.           *)
restartElevator(e) ==
  /\ restarts < MaxRestarts /\ restarts' = restarts + 1
  /\ queued' = queued \ {e}
  /\ lamp' = [lamp EXCEPT ![e] = FALSE]
  /\ told' = told \ {e}
  /\ disturbed' = (disturbed \/ \E m \in statuses : m.sender = e)
  /\ orphaned' = (orphaned \/ e \in queued)
  /\ UNCHANGED <<listed, statuses, lights, reports, peerUpdates>>

Next ==
  \/ \E e \in Elevators : handleAssignedHallCall(e) \/ clearAllOrdersAtFloor(e)
  \/ \E m \in statuses : handleOrderStatus(m) \/ ignoreDuplicate(m)
  \/ \E l \in lights : handleLightOrder(l)
  \/ \E m \in UnderWay : GiveUp(m)
  \/ \E e \in Slaves : UpdateElevatorStates(e) \/ restartElevator(e)

Spec == Init /\ [][Next]_vars

-----------------------------------------------------------------------------
Statuses == {"Unfinished", "Finished"}

TypeOK ==
  /\ queued \subseteq Elevators /\ lamp \in [Elevators -> BOOLEAN] /\ listed \subseteq Slaves
  /\ statuses \subseteq [sender : Elevators, status : Statuses, number : 0 .. MaxReports]
  /\ lights \subseteq [target : Slaves, light : Statuses, sender : Elevators,
                       number : 0 .. MaxReports]
  /\ reports \in 0 .. MaxReports
  /\ restarts \in 0 .. MaxRestarts /\ peerUpdates \in 0 .. MaxPeerUpdates
  /\ disturbed \in BOOLEAN /\ told \subseteq Elevators /\ orphaned \in BOOLEAN

AtRest == UnderWay = {} /\ ~disturbed

(* When nothing is under way any more, all elevators that the master knew     *)
(* show the same lamp, whatever they showed before the first of the last      *)
(* messages: unless one was given up, ignored for its number or overtook      *)
(* another, or two elevators reported at a time.                              *)
LampsAgree == AtRest => \A e \in told : lamp[e] = lamp[Master]

(* A lamp that is lit at rest is a promise: some elevator has the order,      *)
(* unless the one that reported it last has been restarted.                   *)
LitLampIsKept ==
  AtRest /\ ~orphaned => \A e \in told : lamp[e] => queued # {}

(* The lamp of an order in a slave's queue goes out only because another      *)
(* elevator reports the order as finished, never because of what the slave    *)
(* itself finished before the button was pressed again.                       *)
OwnLampStaysLit ==
  [][\A e \in Slaves \cap queued \cap queued' :
       lamp[e] /\ ~lamp'[e] =>
         \E l \in lights \ lights' : l.target = e /\ l.sender # e]_vars
================================================================================
