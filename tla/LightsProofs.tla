----------------------------- MODULE LightsProofs -----------------------------
(***************************************************************************)
(* Theorems about Lights, for every number of slaves and every bound.  The *)
(* argument follows the messages of one elevator: as long as none is lost, *)
(* ignored or overtaken, the newest one under way tells what the lamp of   *)
(* its receiver is going to be, and the newest order status what the       *)
(* elevator that sent it has done.                                         *)
(***************************************************************************)
EXTENDS Lights, TLAPS

StatusMessages == [sender : Elevators, status : Statuses, number : 0 .. MaxReports]
LightMessages ==
  [target : Slaves, light : Statuses, sender : Elevators, number : 0 .. MaxReports]

(* The light orders that handleOrderStatus(m) sends. *)
LightOrders(m) ==
  {[target |-> e, light |-> m.status, sender |-> m.sender, number |-> m.number] :
     e \in listed \ {m.sender}}

(* No number is used twice, and nobody is told what it has reported. *)
Numbered ==
  /\ \A m \in statuses : m.number < reports
  /\ \A l \in lights : l.number < reports /\ l.target # l.sender
  /\ \A m, n \in statuses : m.number = n.number => m = n
  /\ \A m \in statuses, l \in lights : m.number # l.number
  /\ \A k, l \in lights : k.target = l.target /\ k.number = l.number => k = l

(* Undisturbed messages come from one elevator, and are handled in the order  *)
(* in which it sent them.                                                     *)
InOrder ==
  ~disturbed =>
     /\ \A m, n \in UnderWay : m.sender = n.sender
     /\ \A m \in statuses, l \in lights : l.number < m.number

Newest(messages, m) == m \in messages /\ \A x \in messages : x.number <= m.number
NewestForTarget(l) == l \in lights /\ \A k \in lights : k.target = l.target => k.number <= l.number

(* The newest order status tells the lamp and the queue of its sender.  (The  *)
(* lamp of the master also follows its older statuses as it handles them.)    *)
SenderShows ==
  ~disturbed =>
    \A m \in statuses :
      Newest(statuses, m) =>
        /\ m.sender # Master => lamp[m.sender] = Lit(m.status)
        /\ ~orphaned /\ Lit(m.status) => m.sender \in queued

(* With no order status under way, whoever should have heard of the last one  *)
(* shows the lamp of the master, or will after its newest light order.        *)
LampsFollow ==
  ~disturbed /\ statuses = {} =>
    /\ \A e \in told : (\A l \in lights : l.target # e) => lamp[e] = lamp[Master]
    /\ \A l \in lights :
         l.target \in told /\ NewestForTarget(l) => Lit(l.light) = lamp[Master]
    /\ ~orphaned /\ lamp[Master] => queued # {}

LightsInv == Numbered /\ InOrder /\ SenderShows /\ LampsFollow

-----------------------------------------------------------------------------
(* An order status that is sent. *)
LEMMA SendOrderStatusType ==
  ASSUME TypeOK, NEW e \in Elevators, NEW status \in Statuses, SendOrderStatus(e, status)
  PROVE  /\ statuses' \subseteq StatusMessages /\ reports' \in 0 .. MaxReports
         /\ [sender |-> e, status |-> status, number |-> reports] \in StatusMessages
         /\ disturbed' \in BOOLEAN /\ orphaned' \in BOOLEAN
<1>1. reports \in 0 .. MaxReports /\ reports + 1 \in 0 .. MaxReports
  BY BoundsAssumption DEF TypeOK, SendOrderStatus
<1>2. [sender |-> e, status |-> status, number |-> reports] \in StatusMessages
  BY <1>1 DEF StatusMessages
<1>3. disturbed' \in BOOLEAN
  BY DEF SendOrderStatus, TypeOK
<1> QED
  BY <1>1, <1>2, <1>3 DEF TypeOK, SendOrderStatus, StatusMessages

(* Every step keeps TypeOK. *)
LEMMA TypeInductive == TypeOK /\ [Next]_vars => TypeOK'
<1> SUFFICES ASSUME TypeOK, [Next]_vars PROVE TypeOK'
  OBVIOUS
<1>1. ASSUME NEW e \in Elevators, handleAssignedHallCall(e) PROVE TypeOK'
  <2>1. "Unfinished" \in Statuses /\ SendOrderStatus(e, "Unfinished")
    BY <1>1 DEF handleAssignedHallCall, Statuses
  <2> QED
    BY <1>1, <2>1, SendOrderStatusType DEF TypeOK, handleAssignedHallCall, SendOrderStatus, bounds, StatusMessages
<1>2. ASSUME NEW e \in Elevators, clearAllOrdersAtFloor(e) PROVE TypeOK'
  <2>1. "Finished" \in Statuses /\ SendOrderStatus(e, "Finished")
    BY <1>2 DEF clearAllOrdersAtFloor, Statuses
  <2> QED
    BY <1>2, <2>1, SendOrderStatusType DEF TypeOK, clearAllOrdersAtFloor, SendOrderStatus, bounds, StatusMessages
<1>3. ASSUME NEW m \in statuses, handleOrderStatus(m) PROVE TypeOK'
  <2>1. m \in StatusMessages
    BY DEF TypeOK, StatusMessages
  <2>2. LightOrders(m) \subseteq LightMessages
    BY <2>1 DEF LightOrders, LightMessages, StatusMessages, TypeOK
  <2>3. Lit(m.status) \in BOOLEAN /\ lamp' \in [Elevators -> BOOLEAN]
    BY <1>3 DEF Lit, TypeOK, handleOrderStatus
  <2>4. lights' \subseteq LightMessages
    BY <1>3, <2>2 DEF handleOrderStatus, SendLightOrder, LightOrders, LightMessages, TypeOK
  <2>5. told' \subseteq Elevators /\ disturbed' \in BOOLEAN
    BY <1>3, <2>1 DEF handleOrderStatus, TypeOK, StatusMessages, Elevators
  <2> QED
    BY <1>3, <2>3, <2>4, <2>5 DEF TypeOK, handleOrderStatus, bounds, LightMessages
<1>4. ASSUME NEW e \in Slaves, UpdateElevatorStates(e) PROVE TypeOK'
  BY <1>4, BoundsAssumption DEF TypeOK, UpdateElevatorStates, history
<1>5. ASSUME NEW l \in lights, handleLightOrder(l) PROVE TypeOK'
  <2>1. disturbed' \in BOOLEAN
    BY <1>5 DEF TypeOK, handleLightOrder
  <2>2. lamp' \in [Elevators -> BOOLEAN]
    BY <1>5 DEF Lit, TypeOK, handleLightOrder
  <2> QED
    BY <1>5, <2>1, <2>2 DEF TypeOK, handleLightOrder, bounds
<1>6. ASSUME NEW m \in UnderWay, GiveUp(m) \/ ignoreDuplicate(m) PROVE TypeOK'
  BY <1>6 DEF TypeOK, GiveUp, ignoreDuplicate, Lose, bounds
<1>7. ASSUME NEW e \in Slaves, restartElevator(e) PROVE TypeOK'
  <2>1. disturbed' \in BOOLEAN /\ orphaned' \in BOOLEAN
    BY <1>7 DEF TypeOK, restartElevator
  <2>2. lamp' \in [Elevators -> BOOLEAN]
    BY <1>7 DEF TypeOK, restartElevator
  <2>3. restarts' \in 0 .. MaxRestarts
    BY <1>7, BoundsAssumption DEF TypeOK, restartElevator
  <2> QED
    BY <1>7, <2>1, <2>2, <2>3 DEF TypeOK, restartElevator
<1>8. CASE UNCHANGED vars
  BY <1>8 DEF TypeOK, vars, bounds, history
<1> QED
  BY <1>1, <1>2, <1>3, <1>4, <1>5, <1>6, <1>7, <1>8 DEF Next, UnderWay

(* All messages and histories have their types, whatever is lost.             *)
THEOREM TypeCorrect == Spec => []TypeOK
<1>1. Init => TypeOK
  <2>1. 0 \in 0 .. MaxReports /\ 0 \in 0 .. MaxRestarts /\ 0 \in 0 .. MaxPeerUpdates
    BY BoundsAssumption
  <2>2. [e \in Elevators |-> FALSE] \in [Elevators -> BOOLEAN]
    OBVIOUS
  <2> QED
    BY <2>1, <2>2 DEF Init, TypeOK
<1> QED
  BY <1>1, TypeInductive, PTL DEF Spec

-----------------------------------------------------------------------------
(* The steps.                                                                 *)

(* An elevator reports and sets its own lamp. *)
ReportStep(e, status) ==
  /\ SendOrderStatus(e, status)
  /\ lamp' = [lamp EXCEPT ![e] = Lit(status)]
  /\ Lit(status) => e \in queued'

(* Taking an assignment and clearing the floor report in this way. *)
LEMMA Reporting ==
  ASSUME NEW e \in Elevators, handleAssignedHallCall(e) \/ clearAllOrdersAtFloor(e)
  PROVE  \E status \in Statuses : ReportStep(e, status)
BY DEF handleAssignedHallCall, clearAllOrdersAtFloor, ReportStep, Statuses, Lit

(* The numbers of messages. *)
LEMMA NumbersAreIntegers ==
  ASSUME TypeOK
  PROVE  reports \in Int /\ \A m \in UnderWay : m.number \in Int
BY DEF TypeOK, UnderWay

(* A report is the newest message; when others are under way it leaves them   *)
(* undisturbed only if all of them come from the same elevator.               *)
LEMMA ReportKeeps ==
  ASSUME TypeOK, LightsInv, NEW e \in Elevators, NEW status \in Statuses, ReportStep(e, status)
  PROVE  LightsInv'
<1> DEFINE new == [sender |-> e, status |-> status, number |-> reports]
<1>1. /\ statuses' = statuses \cup {new} /\ UNCHANGED <<lights, told>>
      /\ reports' = reports + 1 /\ orphaned' = FALSE
      /\ disturbed' = (UnderWay # {} /\ (disturbed \/ \E m \in UnderWay : m.sender # e))
  BY DEF ReportStep, SendOrderStatus
<1>2. /\ reports \in Int /\ \A m \in statuses : m.number \in Int
      /\ \A l \in lights : l.number \in Int
  BY NumbersAreIntegers DEF UnderWay
<1>3. new.sender = e /\ new.status = status /\ new.number = reports
  OBVIOUS
<1> HIDE DEF new
<1>4. Numbered'
  BY <1>1, <1>2, <1>3 DEF LightsInv, Numbered
<1>5. ~disturbed' => \A m \in UnderWay : m.sender = e
  BY <1>1
<1>6. InOrder'
  <2>1. \A m \in UnderWay' : m \in UnderWay \/ m = new
    BY <1>1 DEF UnderWay
  <2>2. ~disturbed' => \A m, n \in UnderWay' : m.sender = n.sender
    BY <1>3, <1>5, <2>1
  <2>3. ~disturbed' => \A m \in statuses', l \in lights' : l.number < m.number
    <3> SUFFICES ASSUME ~disturbed', NEW m \in statuses', NEW l \in lights' PROVE l.number < m.number
      OBVIOUS
    <3>1. ~disturbed /\ l \in lights
      BY <1>1 DEF UnderWay
    <3> QED
      BY <1>1, <1>3, <3>1 DEF LightsInv, InOrder, Numbered
  <2> QED
    BY <2>2, <2>3 DEF InOrder
<1>7. SenderShows'
  <2> SUFFICES ASSUME NEW m \in statuses', Newest(statuses', m)
               PROVE  /\ m.sender # Master => lamp'[m.sender] = Lit(m.status)
                      /\ Lit(m.status) => m.sender \in queued'
    BY DEF SenderShows, Newest
  <2>1. m = new
    BY <1>1, <1>2, <1>3 DEF LightsInv, Numbered, Newest
  <2> QED
    BY <1>3, <2>1 DEF ReportStep, TypeOK
<1>8. LampsFollow'
  BY <1>1 DEF LampsFollow
<1> QED
  BY <1>4, <1>6, <1>7, <1>8 DEF LightsInv

(* The oldest order status is handled: the light orders it leaves are newer   *)
(* than the others.                                                           *)
LEMMA OrderStatusKeeps ==
  ASSUME TypeOK, LightsInv, NEW m \in statuses, handleOrderStatus(m)
  PROVE  LightsInv'
<1>1. /\ statuses' = statuses \ {m} /\ lights' = lights \cup LightOrders(m)
      /\ told' = {m.sender, Master} \cup listed
      /\ lamp' = [lamp EXCEPT ![Master] = Lit(m.status)]
      /\ disturbed' = (disturbed \/ Older(statuses, m) # {})
      /\ UNCHANGED <<queued, listed, reports, orphaned>>
  BY DEF handleOrderStatus, SendLightOrder, LightOrders
<1>2. /\ reports \in Int /\ \A n \in statuses : n.number \in Int
      /\ \A l \in lights : l.number \in Int
  BY NumbersAreIntegers DEF UnderWay
<1>3. /\ \A l \in LightOrders(m) :
           /\ l.number = m.number /\ l.light = m.status /\ l.sender = m.sender
           /\ l.target \in listed \ {m.sender}
      /\ \A e \in listed \ {m.sender} : \E l \in LightOrders(m) : l.target = e
      /\ \A k, l \in LightOrders(m) : k.target = l.target => k = l
  <2> DEFINE order(e) == [target |-> e, light |-> m.status, sender |-> m.sender, number |-> m.number]
  <2>1. \A l \in LightOrders(m) : \E e \in listed \ {m.sender} : l = order(e)
    BY DEF LightOrders
  <2>2. \A e \in listed \ {m.sender} : order(e) \in LightOrders(m)
    BY DEF LightOrders
  <2>3. \A e : /\ order(e).target = e /\ order(e).light = m.status
               /\ order(e).sender = m.sender /\ order(e).number = m.number
    OBVIOUS
  <2> HIDE DEF order
  <2> QED
    BY <2>1, <2>2, <2>3
<1>4. Numbered'
  BY <1>1, <1>2, <1>3 DEF LightsInv, Numbered
<1>5. ~disturbed' => /\ ~disturbed
                     /\ \A n \in statuses' : m.number < n.number
  <2> SUFFICES ASSUME ~disturbed', NEW n \in statuses'
               PROVE  m.number < n.number
    BY <1>1
  <2>1. n \in statuses /\ n.number # m.number
    BY <1>1 DEF LightsInv, Numbered
  <2>2. n \notin Older(statuses, m)
    BY <1>1
  <2> QED
    BY <1>2, <2>1, <2>2 DEF Older
<1>6. InOrder'
  <2>1. \A k \in UnderWay' : \E n \in UnderWay : k.sender = n.sender
    BY <1>1, <1>3 DEF UnderWay
  <2>2. ~disturbed' => \A k, n \in UnderWay' : k.sender = n.sender
    BY <1>5, <2>1 DEF LightsInv, InOrder
  <2>3. ~disturbed' => \A n \in statuses', l \in lights' : l.number < n.number
    BY <1>1, <1>3, <1>5 DEF LightsInv, InOrder
  <2> QED
    BY <2>2, <2>3 DEF InOrder
<1>7. SenderShows'
  <2> SUFFICES ASSUME ~disturbed', NEW n \in statuses', Newest(statuses', n)
               PROVE  /\ n.sender # Master => lamp'[n.sender] = Lit(n.status)
                      /\ ~orphaned' /\ Lit(n.status) => n.sender \in queued'
    BY DEF SenderShows
  <2>1. n \in statuses /\ Newest(statuses, n)
    BY <1>1, <1>2, <1>5 DEF Newest
  <2>2. lamp'[n.sender] = lamp[n.sender] \/ n.sender = Master
    BY <1>1, <2>1 DEF TypeOK
  <2> QED
    BY <1>1, <1>5, <2>1, <2>2 DEF LightsInv, SenderShows
<1>8. LampsFollow'
  <2> SUFFICES ASSUME ~disturbed', statuses' = {}
               PROVE  LampsFollow'
    BY DEF LampsFollow
  <2>1. lamp'[Master] = Lit(m.status) /\ \A e \in Slaves : lamp'[e] = lamp[e]
    BY <1>1, MasterAssumption DEF TypeOK, Elevators
  <2>2. Newest(statuses, m) /\ m.sender \in Elevators
    BY <1>1, <1>2, <2>1 DEF Newest, TypeOK
  <2>3. \A l \in lights : l.number < m.number /\ l.sender = m.sender /\ l.target # m.sender
                          /\ l.target \in Slaves
    BY <1>5 DEF LightsInv, InOrder, Numbered, UnderWay, TypeOK
  <2>4. ASSUME NEW e \in told', \A l \in lights' : l.target # e
        PROVE  lamp'[e] = lamp'[Master]
    <3>1. CASE e = m.sender /\ e # Master
      <4>1. lamp[e] = Lit(m.status)
        BY <1>5, <2>2, <3>1 DEF LightsInv, SenderShows
      <4> QED
        BY <2>1, <2>2, <3>1, <4>1 DEF Elevators
    <3>2. CASE e \in listed \ {m.sender}
      BY <1>1, <1>3, <2>4, <3>2
    <3> QED
      BY <1>1, <2>4, <3>1, <3>2
  <2>5. ASSUME NEW l \in lights', l.target \in told', NewestForTarget(l)'
        PROVE  Lit(l.light) = lamp'[Master]
    <3>1. CASE l \in LightOrders(m)
      BY <1>3, <2>1, <3>1
    <3>2. CASE l \in lights
      <4>1. l.target \in listed \ {m.sender}
        BY <1>1, <2>3, <2>5, <3>2, MasterAssumption
      <4>2. PICK k \in LightOrders(m) : k.target = l.target
        BY <1>3, <4>1
      <4>3. m.number <= l.number
        BY <1>1, <1>3, <2>5, <4>2 DEF NewestForTarget
      <4> QED
        BY <1>2, <2>3, <3>2, <4>3
    <3> QED
      BY <1>1, <2>5, <3>1, <3>2
  <2>6. ~orphaned' /\ lamp'[Master] => queued' # {}
    BY <1>1, <1>5, <2>1, <2>2 DEF LightsInv, SenderShows
  <2> QED
    BY <2>4, <2>5, <2>6 DEF LampsFollow
<1> QED
  BY <1>4, <1>6, <1>7, <1>8 DEF LightsInv

(* The oldest light order for its target is handled. *)
LEMMA LightOrderKeeps ==
  ASSUME TypeOK, LightsInv, NEW l \in lights, handleLightOrder(l)
  PROVE  LightsInv'
<1>1. /\ lights' = lights \ {l} /\ lamp' = [lamp EXCEPT ![l.target] = Lit(l.light)]
      /\ disturbed' = (disturbed \/ \E x \in Older(lights, l) : x.target = l.target)
      /\ UNCHANGED <<queued, statuses, reports, told, orphaned>>
  BY DEF handleLightOrder
<1>2. l.target \in Slaves /\ l.target # Master /\ \A k \in lights : k.number \in Int
  BY MasterAssumption, NumbersAreIntegers DEF TypeOK, UnderWay
<1>3. \A e \in Elevators : e # l.target => lamp'[e] = lamp[e]
  BY <1>1 DEF TypeOK
<1>4. lamp'[l.target] = Lit(l.light) /\ lamp'[Master] = lamp[Master]
  BY <1>1, <1>2 DEF TypeOK, Elevators
<1>5. Numbered'
  BY <1>1 DEF LightsInv, Numbered
<1>6. ~disturbed' => ~disturbed /\ \A k \in lights : k.target = l.target => l.number <= k.number
  <2> SUFFICES ASSUME ~disturbed', NEW k \in lights, k.target = l.target
               PROVE  l.number <= k.number
    BY <1>1
  <2>1. k \notin Older(lights, l)
    BY <1>1
  <2> QED
    BY <1>2, <2>1 DEF Older
<1>7. InOrder'
  BY <1>1, <1>6 DEF LightsInv, InOrder, UnderWay
<1>8. SenderShows'
  <2> SUFFICES ASSUME ~disturbed', NEW m \in statuses, Newest(statuses, m), m.sender # Master
               PROVE  lamp'[m.sender] = lamp[m.sender]
    BY <1>1, <1>6 DEF LightsInv, SenderShows, Newest
  <2>1. m.sender \in Elevators /\ m.sender = l.sender /\ l.sender # l.target
    BY <1>6 DEF LightsInv, InOrder, Numbered, UnderWay, TypeOK
  <2> QED
    BY <1>3, <2>1
<1>9. LampsFollow'
  <2> SUFFICES ASSUME ~disturbed', statuses = {}
               PROVE  LampsFollow'
    BY <1>1 DEF LampsFollow
  <2>1. LampsFollow /\ ~disturbed
    BY <1>6 DEF LightsInv
  <2>2. ASSUME NEW e \in told, \A k \in lights' : k.target # e
        PROVE  lamp'[e] = lamp'[Master]
    <3>1. CASE e = l.target
      <4>1. NewestForTarget(l)
        BY <1>1, <1>2, <2>2, <3>1 DEF NewestForTarget
      <4> QED
        BY <1>4, <2>1, <3>1, <4>1 DEF LampsFollow
    <3>2. CASE e # l.target
      <4>1. e \in Elevators /\ \A k \in lights : k.target # e
        BY <1>1, <2>2, <3>2 DEF TypeOK
      <4> QED
        BY <1>3, <1>4, <2>1, <3>2, <4>1 DEF LampsFollow
    <3> QED
      BY <3>1, <3>2
  <2>3. ASSUME NEW k \in lights', k.target \in told, NewestForTarget(k)'
        PROVE  Lit(k.light) = lamp'[Master]
    <3>1. NewestForTarget(k)
      BY <1>1, <1>2, <1>6, <2>3 DEF NewestForTarget
    <3>2. k \in lights
      BY <3>1 DEF NewestForTarget
    <3>3. Lit(k.light) = lamp[Master]
      BY <2>1, <2>3, <3>1, <3>2 DEF LampsFollow
    <3> QED
      BY <1>4, <3>3
  <2>4. ~orphaned' /\ lamp'[Master] => queued' # {}
    BY <1>1, <1>4, <2>1 DEF LampsFollow
  <2> QED
    BY <1>1, <2>2, <2>3, <2>4 DEF LampsFollow
<1> QED
  BY <1>5, <1>7, <1>8, <1>9 DEF LightsInv

(* A restart with an order status of its own under way counts as disturbing;  *)
(* otherwise nobody expects its lamp to follow.                               *)
LEMMA RestartKeeps ==
  ASSUME TypeOK, LightsInv, NEW e \in Slaves, restartElevator(e)
  PROVE  LightsInv'
<1>1. /\ queued' = queued \ {e} /\ lamp' = [lamp EXCEPT ![e] = FALSE] /\ told' = told \ {e}
      /\ disturbed' = (disturbed \/ \E m \in statuses : m.sender = e)
      /\ orphaned' = (orphaned \/ e \in queued)
      /\ UNCHANGED <<listed, statuses, lights, reports>>
  BY DEF restartElevator
<1>2. \A x \in Elevators : x # e => lamp'[x] = lamp[x]
  BY <1>1 DEF TypeOK
<1>3. Numbered' /\ InOrder'
  BY <1>1 DEF LightsInv, Numbered, InOrder, UnderWay
<1>4. SenderShows'
  BY <1>1, <1>2 DEF LightsInv, SenderShows, Newest, TypeOK
<1>5. LampsFollow'
  <2>1. lamp'[Master] = lamp[Master] /\ told \subseteq Elevators
    BY <1>2, MasterAssumption DEF TypeOK, Elevators
  <2> QED
    BY <1>1, <1>2, <2>1 DEF LightsInv, LampsFollow, NewestForTarget
<1> QED
  BY <1>3, <1>4, <1>5 DEF LightsInv

(* Every step keeps LightsInv. *)
LEMMA LightsInductive == TypeOK /\ LightsInv /\ [Next]_vars => LightsInv'
<1> SUFFICES ASSUME TypeOK, LightsInv, [Next]_vars PROVE LightsInv'
  OBVIOUS
<1>1. CASE \E e \in Elevators : handleAssignedHallCall(e) \/ clearAllOrdersAtFloor(e)
  BY <1>1, Reporting, ReportKeeps
<1>2. CASE \E m \in statuses : handleOrderStatus(m)
  BY <1>2, OrderStatusKeeps
<1>3. CASE \E l \in lights : handleLightOrder(l)
  BY <1>3, LightOrderKeeps
<1>4. CASE \E m \in UnderWay : GiveUp(m) \/ ignoreDuplicate(m)
  BY <1>4 DEF GiveUp, ignoreDuplicate, Lose, LightsInv, Numbered, InOrder, SenderShows, LampsFollow
<1>5. CASE \E e \in Slaves : UpdateElevatorStates(e)
  BY <1>5 DEF UpdateElevatorStates, history, LightsInv, Numbered, InOrder, SenderShows, LampsFollow,
     UnderWay, Newest, NewestForTarget
<1>6. CASE \E e \in Slaves : restartElevator(e)
  BY <1>6, RestartKeeps
<1>7. CASE UNCHANGED vars
  BY <1>7 DEF vars, history, LightsInv, Numbered, InOrder, SenderShows, LampsFollow,
     UnderWay, Newest, NewestForTarget
<1> QED
  BY <1>1, <1>2, <1>3, <1>4, <1>5, <1>6, <1>7 DEF Next, UnderWay

(* What the lamps show is what the newest messages under way say. *)
LEMMA LightsInvariant == Spec => []LightsInv
<1>1. Init => LightsInv
  <2> SUFFICES ASSUME Init PROVE LightsInv
    OBVIOUS
  <2>1. ~lamp[Master]
    BY DEF Init, Elevators
  <2> QED
    BY <2>1 DEF Init, LightsInv, Numbered, InOrder, SenderShows, LampsFollow, UnderWay
<1> QED
  BY <1>1, TypeCorrect, LightsInductive, PTL DEF Spec

-----------------------------------------------------------------------------
(* Once the undisturbed messages of one elevator have all been handled, the   *)
(* lamps of the button agree, whatever they showed before.                    *)
THEOREM AgreeTheorem == Spec => []LampsAgree
<1>1. LightsInv => LampsAgree
  BY DEF LightsInv, LampsFollow, LampsAgree, AtRest, UnderWay
<1> QED
  BY <1>1, LightsInvariant, PTL

(* And if they are lit some elevator has the order.                           *)
THEOREM KeptTheorem == Spec => []LitLampIsKept
<1>1. LightsInv => LitLampIsKept
  BY DEF LightsInv, LampsFollow, LitLampIsKept, AtRest, UnderWay
<1> QED
  BY <1>1, LightsInvariant, PTL

(* Only the report of another elevator turns the lamp of a queued order off.  *)
THEOREM OwnLampTheorem == Spec => OwnLampStaysLit
<1>1. ASSUME TypeOK, LightsInv, [Next]_vars, NEW e \in Slaves, e \in queued, e \in queued',
             lamp[e], ~lamp'[e]
      PROVE  \E l \in lights \ lights' : l.target = e /\ l.sender # e
  <2>1. lamp \in [Elevators -> BOOLEAN] /\ e \in Elevators /\ e # Master
    BY <1>1, MasterAssumption DEF TypeOK, Elevators
  <2>2. CASE \E x \in Elevators : handleAssignedHallCall(x) \/ clearAllOrdersAtFloor(x)
    BY <1>1, <2>1, <2>2 DEF handleAssignedHallCall, clearAllOrdersAtFloor
  <2>3. CASE \E m \in statuses : handleOrderStatus(m)
    BY <1>1, <2>1, <2>3 DEF handleOrderStatus
  <2>4. CASE \E l \in lights : handleLightOrder(l)
    <3>1. PICK l \in lights : handleLightOrder(l)
      BY <2>4
    <3>2. l.target = e /\ l \notin lights'
      BY <1>1, <2>1, <3>1 DEF handleLightOrder
    <3>3. l.sender # e
      BY <1>1, <3>2 DEF LightsInv, Numbered
    <3> QED
      BY <3>2, <3>3
  <2>5. CASE \E x \in Slaves : restartElevator(x)
    BY <1>1, <2>1, <2>5 DEF restartElevator
  <2>6. lamp' # lamp
    BY <1>1
  <2> QED
    BY <1>1, <2>2, <2>3, <2>4, <2>5, <2>6 DEF Next, GiveUp, ignoreDuplicate, Lose, UpdateElevatorStates, vars
<1>2. TypeOK /\ LightsInv /\ [Next]_vars =>
        [\A e \in Slaves \cap queued \cap queued' :
           lamp[e] /\ ~lamp'[e] => \E l \in lights \ lights' : l.target = e /\ l.sender # e]_vars
  BY <1>1
<1> QED
  BY <1>2, TypeCorrect, LightsInvariant, PTL DEF Spec, OwnLampStaysLit
================================================================================
