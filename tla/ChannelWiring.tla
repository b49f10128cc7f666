----------------------------- MODULE ChannelWiring -----------------------------
(***************************************************************************)
(* The goroutines of one process and the channels main.go makes between    *)
(* them: the select loop of RunSingleElevator, the loop of                 *)
(* RunCommunication, the periodic broadcast, peerMonitor, the order        *)
(* assignment, and the goroutines in which the master's order statuses are *)
(* sent.  A handler is reduced to what it does to channels: a sequence of  *)
(* sends, sleeps, go statements, and receives in the middle of a case.     *)
(*                                                                         *)
(* How much arrives is not limited by the code.  MaxStatuses and MaxCalls  *)
(* bound the states that are looked at; the load under which the           *)
(* properties hold is stated in them (LightLoad) and lies below.           *)
(***************************************************************************)
EXTENDS Integers, Sequences, FiniteSets

CONSTANTS
  StatusCapacity, \* of orderStatusChan
  CallCapacity,   \* of hallCallChan and of assignedHallCallChan
  LostOrders,     \* most hall orders that a lost elevator leaves to this one
  MaxStatuses,    \* bounds on the order statuses and the hall calls that are
  MaxCalls        \* under way at a time

ASSUME CapacityAssumption == {StatusCapacity, CallCapacity} \subseteq Nat \ {0}
ASSUME BoundAssumption == {LostOrders, MaxStatuses, MaxCalls} \subseteq Nat

Channels == {"localStatus", "orderStatus", "hallCall", "assigned"}
Threads == {"main", "comm", "periodic", "monitor", "oa"}

VARIABLES
  master,   \* whether config.LocalID = config.MasterID
  chan,     \* the number of values in each channel
  rx,       \* the values in rxOrderStatusChan
  senders,  \* the goroutines that send an order status of the master
  todo      \* what each thread still does before it selects again

vars == <<master, chan, rx, senders, todo>>

CapacityOf ==
  [c \in Channels |-> CASE c = "localStatus" -> 1
                        [] c = "orderStatus" -> StatusCapacity
                        [] c \in {"hallCall", "assigned"} -> CallCapacity]

(* Slip: the check whether a channel is full comes one value too late. *)
RoomTooLate(c) == chan[c] <= CapacityOf[c]

Room(c) == chan[c] < CapacityOf[c]
Selects(t) == todo[t] = <<>>
NextOf(t) == IF Selects(t) THEN "select" ELSE Head(todo[t])

(* InitElevator has put the first status into localStatusUpdateChan. *)
Init ==
  /\ master \in BOOLEAN
  /\ chan = [c \in Channels |-> IF c = "localStatus" THEN 1 ELSE 0]
  /\ rx = 0 /\ senders = 0
  /\ todo = [t \in Threads |-> <<>>]

-----------------------------------------------------------------------------
(* What the threads do between two selects.                                  *)
Done(t) == todo' = [todo EXCEPT ![t] = Tail(@)]

Send(t) ==
  /\ NextOf(t) \in Channels /\ Room(NextOf(t))
  /\ chan' = [chan EXCEPT ![NextOf(t)] = @ + 1]
  /\ Done(t)
  /\ UNCHANGED <<master, rx, senders>>

(* time.Sleep, and the ten transmissions of BroadcastElevatorStatus. *)
Finish(t) ==
  /\ NextOf(t) \in {"sleep", "broadcast"}
  /\ Done(t)
  /\ UNCHANGED <<master, chan, rx, senders>>

GoSendOrderStatus ==
  /\ NextOf("main") = "go"
  /\ senders' = senders + 1
  /\ Done("main")
  /\ UNCHANGED <<master, chan, rx>>

SenderSends ==
  /\ senders > 0 /\ Room("orderStatus")
  /\ senders' = senders - 1
  /\ chan' = [chan EXCEPT !["orderStatus"] = @ + 1]
  /\ UNCHANGED <<master, rx, todo>>

(* A thread takes a value, or an event, and runs what it has to. *)
Run(t, script) == Selects(t) /\ todo' = [todo EXCEPT ![t] = script]
Receive(t, c, script) ==
  chan[c] > 0 /\ Run(t, script) /\ chan' = [chan EXCEPT ![c] = @ - 1]

-----------------------------------------------------------------------------
(* The select loop of RunSingleElevator: every case ends with a status.      *)
Status == <<"localStatus">>

(* SendOrderStatus, and HandleStateTransition with clearLingeringHallCalls.   *)
SendOrderStatus == IF master THEN <<"orderStatus">> ELSE <<>>
Transitions == {<<>>} \cup (IF master THEN {<<"go">>} ELSE {})

(* An order at this floor is processed after a sleep, any other by a          *)
(* transition.                                                                *)
Processing == {<<"sleep">> \o Status} \cup Transitions

(* Floor, obstruction and light order. *)
SimpleEvent == {Status}
ProcessCabButton == {Status \o p \o Status : p \in Processing}

(* From the order assignment, or by way of handleAssignedNetworkHallCall,     *)
(* which may bring a cab call, of which no status is sent.                    *)
handleAssignedHallCall(sent) == {sent \o p \o Status : p \in Processing}
DoorTimeout ==
  {t \o Status : t \in Transitions}
    \cup {SendOrderStatus \o Status \o t \o Status : t \in Transitions}
OppositeTimeout == {SendOrderStatus \o t \o Status : t \in Transitions}
HallButtonOrRawCall == <<"hallCall">> \o Status

(* The order statuses and the hall calls under way, those that handlers still *)
(* have to send included.                                                     *)
Count(s, op) == Cardinality({i \in DOMAIN s : s[i] = op})
StatusesUnderWay ==
  chan["orderStatus"] + rx + senders + Count(todo["main"], "orderStatus")
    + Count(todo["main"], "go") + Count(todo["comm"], "orderStatus")
CallsUnderWay ==
  chan["hallCall"] + chan["assigned"]
    + Count(todo["main"], "hallCall") + Count(todo["oa"], "assigned")

(* What the bounds let into the state space. *)
Bounded(script) ==
  /\ StatusesUnderWay + Count(script, "orderStatus") + Count(script, "go") <= MaxStatuses
  /\ CallsUnderWay + Count(script, "hallCall") + Count(script, "assigned") <= MaxCalls

Event(script) ==
  /\ Bounded(script)
  /\ Run("main", script)
  /\ UNCHANGED <<master, chan, rx, senders>>

MainEvent ==
  \/ \E s \in SimpleEvent \cup ProcessCabButton : Event(s)
  \/ \E s \in DoorTimeout \cup OppositeTimeout : Event(s)
  \/ \E sent \in {<<>>, SendOrderStatus} : \E s \in handleAssignedHallCall(sent) : Event(s)
  \/ Event(HallButtonOrRawCall)

AssignedHallCall ==
  \E s \in handleAssignedHallCall(SendOrderStatus) :
    /\ Bounded(s)
    /\ Receive("main", "assigned", s)
    /\ UNCHANGED <<master, rx, senders>>

(* handleOrderStatus lights the lamps from goroutines that wait for no other. *)
handleOrderStatus ==
  /\ Receive("main", "orderStatus", Status)
  /\ UNCHANGED <<master, rx, senders>>

-----------------------------------------------------------------------------
(* The loop of RunCommunication. *)

(* Slip: the status is kept for the next periodic copy only. *)
LocalStatusKept ==
  /\ Receive("comm", "localStatus", <<>>)
  /\ UNCHANGED <<master, rx, senders>>

LocalStatus ==
  /\ Receive("comm", "localStatus", <<"broadcast">>)
  /\ UNCHANGED <<master, rx, senders>>

OrderStatusArrives ==
  /\ StatusesUnderWay < MaxStatuses
  /\ rx' = rx + 1
  /\ UNCHANGED <<master, chan, senders, todo>>

(* Slip: the loop asks for a broadcast, which it has to make itself. *)
ForwardOrderStatusAndTell ==
  /\ rx > 0 /\ rx' = rx - 1
  /\ Run("comm", <<"orderStatus", "localStatus">>)
  /\ UNCHANGED <<master, chan, senders>>

ForwardOrderStatus ==
  /\ rx > 0 /\ rx' = rx - 1
  /\ Run("comm", <<"orderStatus">>)
  /\ UNCHANGED <<master, chan, senders>>

(* The periodic broadcast, every 500 ms. *)
PeriodicStatus == Run("periodic", Status) /\ UNCHANGED <<master, chan, rx, senders>>

(* peerMonitor: each peer that was lost or is new is handed to the order      *)
(* assignment and followed by a status.  The next peer of an update comes     *)
(* like one of the next update.                                               *)
PeerUpdate ==
  /\ Run("monitor", <<"peer">> \o Status)
  /\ UNCHANGED <<master, chan, rx, senders>>

(* The master's loop over the hall orders of a lost elevator: those for this  *)
(* elevator.                                                                  *)
Reassignments ==
  IF master THEN {[i \in 1 .. n |-> "assigned"] : n \in 0 .. LostOrders} ELSE {<<>>}

(* lostPeerChan and newPeerChan have no buffer.  If the master is lost the    *)
(* next one is awaited first.                                                 *)
LostOrNewPeer ==
  /\ NextOf("monitor") = "peer" /\ Selects("oa")
  /\ \E script \in {<<"await">>} \cup Reassignments :
       /\ Bounded(script)
       /\ todo' = [todo EXCEPT !["monitor"] = Tail(@), !["oa"] = script]
  /\ UNCHANGED <<master, chan, rx, senders>>

(* A value comes from masterChan, if one does. *)
AwaitedMaster ==
  /\ NextOf("oa") = "await"
  /\ \E script \in Reassignments :
       Bounded(script) /\ todo' = [todo EXCEPT !["oa"] = script]
  /\ UNCHANGED <<master, chan, rx, senders>>

(* An elector, which is a goroutine of its own, sets config.MasterID. *)
RunMasterElection ==
  /\ master' = ~master
  /\ UNCHANGED <<chan, rx, senders, todo>>

(* The order assignment: a hall call for this elevator or for another. *)
HallCall ==
  /\ \E s \in {<<>>} \cup (IF master THEN {<<"assigned">>} ELSE {}) :
       Receive("oa", "hallCall", s)
  /\ UNCHANGED <<master, rx, senders>>

-----------------------------------------------------------------------------
Next ==
  \/ \E t \in Threads : Send(t) \/ Finish(t)
  \/ GoSendOrderStatus \/ SenderSends
  \/ MainEvent \/ AssignedHallCall \/ handleOrderStatus
  \/ LocalStatus \/ OrderStatusArrives \/ ForwardOrderStatus
  \/ PeriodicStatus \/ PeerUpdate \/ LostOrNewPeer \/ AwaitedMaster \/ RunMasterElection
  \/ HallCall

Spec == Init /\ [][Next]_vars

(* A sender blocked on a channel is served in its turn, and a select chooses  *)
(* at random among the cases that are ready, so that each one that is ready   *)
(* again and again is chosen some time.  Threads go on and sleeps end.        *)
(* Nothing is assumed of what comes from outside, nor of an awaited master.   *)
Fairness ==
  /\ \A t \in {"main", "monitor"} : SF_vars(Send(t))
  /\ \A t \in {"comm", "oa", "periodic"} : WF_vars(Send(t))
  /\ \A t \in {"main", "comm"} : WF_vars(Finish(t))
  /\ WF_vars(GoSendOrderStatus) /\ WF_vars(SenderSends) /\ WF_vars(PeriodicStatus)
  /\ SF_vars(AssignedHallCall) /\ SF_vars(handleOrderStatus)
  /\ SF_vars(LocalStatus) /\ SF_vars(ForwardOrderStatus)
  /\ SF_vars(HallCall) /\ SF_vars(LostOrNewPeer)

FairSpec == Spec /\ Fairness

-----------------------------------------------------------------------------
TypeOK ==
  /\ master \in BOOLEAN
  /\ chan \in [Channels -> Nat] /\ \A c \in Channels : chan[c] <= CapacityOf[c]
  /\ rx \in Nat /\ senders \in Nat
  /\ todo \in [Threads -> Seq(Channels \cup {"sleep", "broadcast", "go", "peer", "await"})]

(* No more order statuses and hall calls are under way than their channels    *)
(* hold.  The code does not see to it: this is what the network and the       *)
(* passengers have to keep to.                                                *)
LightLoad == StatusesUnderWay <= StatusCapacity /\ CallsUnderWay <= CallCapacity

(* Under a light load the goroutines get back to their selects, again and     *)
(* again: no send waits for ever.  The main loop does so even if the order    *)
(* assignment waits for a master that never comes; then it and peerMonitor,   *)
(* which has the next peer for it, do not.                                    *)
EveryoneReturns ==
  []LightLoad =>
    /\ []<>Selects("main")
    /\ \A t \in {"oa", "monitor"} : []<>(Selects(t) \/ NextOf("oa") = "await")

(* "Continuously broadcasts the elevator status to other elevators"           *)
(* (singleElevator.go:62).                                                    *)
ContinuouslyBroadcasts == []<>(NextOf("comm") = "broadcast")

(* It does under a light load. *)
BroadcastsUnderLightLoad == []LightLoad => ContinuouslyBroadcasts
==============================================================================
