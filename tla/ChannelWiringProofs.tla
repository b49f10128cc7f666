-------------------------- MODULE ChannelWiringProofs --------------------------
(***************************************************************************)
(* Theorems about ChannelWiring, for every capacity of the channels and    *)
(* whatever load arrives.                                                  *)
(***************************************************************************)
EXTENDS ChannelWiring, SequenceTheorems, TLAPS

Ops == Channels \cup {"sleep", "broadcast", "go", "peer", "await"}

(* The cases of the main loop are sequences of such operations. *)
LEMMA Scripts ==
  /\ SimpleEvent \cup ProcessCabButton \cup DoorTimeout \cup OppositeTimeout \subseteq Seq(Ops)
  /\ \A sent \in {<<>>, SendOrderStatus} : handleAssignedHallCall(sent) \subseteq Seq(Ops)
  /\ Status \in Seq(Ops) /\ HallButtonOrRawCall \in Seq(Ops)
  /\ Reassignments \subseteq Seq(Ops)
<1>1. \A a, b \in Seq(Ops) : a \o b \in Seq(Ops)
  BY ConcatProperties
<1>2. /\ <<>> \in Seq(Ops) /\ Status \in Seq(Ops) /\ SendOrderStatus \in Seq(Ops)
      /\ <<"sleep">> \in Seq(Ops) /\ <<"go">> \in Seq(Ops) /\ <<"hallCall">> \in Seq(Ops)
  <2>1. \A x \in Ops : <<x>> \in Seq(Ops)
    OBVIOUS
  <2>2. <<>> \in Seq(Ops)
    BY EmptySeq
  <2> QED
    BY <2>1, <2>2 DEF Status, SendOrderStatus, Ops, Channels
<1>3. Transitions \subseteq Seq(Ops)
  BY <1>2 DEF Transitions
<1>4. Processing \subseteq Seq(Ops)
  BY <1>1, <1>2, <1>3 DEF Processing
<1>5. /\ SimpleEvent \subseteq Seq(Ops) /\ ProcessCabButton \subseteq Seq(Ops)
      /\ OppositeTimeout \subseteq Seq(Ops)
  BY <1>1, <1>2, <1>3, <1>4 DEF SimpleEvent, ProcessCabButton, OppositeTimeout
<1>6. DoorTimeout \subseteq Seq(Ops)
  BY <1>1, <1>2, <1>3 DEF DoorTimeout
<1>7. \A sent \in {<<>>, SendOrderStatus} : handleAssignedHallCall(sent) \subseteq Seq(Ops)
  BY <1>1, <1>2, <1>4 DEF handleAssignedHallCall
<1>8. HallButtonOrRawCall \in Seq(Ops)
  BY <1>1, <1>2 DEF HallButtonOrRawCall
<1>9. Reassignments \subseteq Seq(Ops)
  <2>1. ASSUME NEW n \in 0 .. LostOrders PROVE [i \in 1 .. n |-> "assigned"] \in Seq(Ops)
    BY BoundAssumption DEF Ops, Channels
  <2> QED
    BY <1>2, <2>1 DEF Reassignments
<1> QED
  BY <1>2, <1>5, <1>6, <1>7, <1>8, <1>9

(* A thread that takes a script, and one that goes on with its own.           *)
LEMMA ToDoTypes ==
  ASSUME TypeOK, NEW t \in Threads
  PROVE  /\ \A s \in Seq(Ops) : todo' = [todo EXCEPT ![t] = s] => todo' \in [Threads -> Seq(Ops)]
         /\ ~Selects(t) /\ Done(t) => todo' \in [Threads -> Seq(Ops)]
<1>1. todo \in [Threads -> Seq(Ops)]
  BY DEF TypeOK, Ops
<1>2. ASSUME ~Selects(t), Done(t) PROVE todo' \in [Threads -> Seq(Ops)]
  <2>1. Tail(todo[t]) \in Seq(Ops)
    BY <1>1, <1>2 DEF Selects
  <2> QED
    BY <1>1, <1>2, <2>1 DEF Done
<1> QED
  BY <1>1, <1>2

(* A thread that receives leaves the channels within their capacity.          *)
LEMMA ReceiveTypes ==
  ASSUME TypeOK, NEW t \in Threads, NEW c \in Channels, NEW s \in Seq(Ops), Receive(t, c, s)
  PROVE  /\ chan' \in [Channels -> Nat] /\ \A d \in Channels : chan'[d] <= CapacityOf[d]
         /\ todo' \in [Threads -> Seq(Ops)]
<1>1. /\ chan' = [chan EXCEPT ![c] = @ - 1] /\ chan[c] > 0 /\ todo' = [todo EXCEPT ![t] = s]
  BY DEF Receive, Run
<1>2. \A d \in Channels : CapacityOf[d] \in Nat
  BY CapacityAssumption DEF CapacityOf, Channels
<1>3. chan' \in [Channels -> Nat] /\ \A d \in Channels : chan'[d] <= chan[d]
  BY <1>1 DEF TypeOK
<1>4. \A d \in Channels : chan'[d] <= CapacityOf[d]
  BY <1>2, <1>3 DEF TypeOK
<1> QED
  BY <1>1, <1>3, <1>4, ToDoTypes

(* A value goes into a channel only if there is room. *)
LEMMA PutTypes ==
  ASSUME TypeOK, NEW c \in Channels, Room(c), chan' = [chan EXCEPT ![c] = @ + 1]
  PROVE  chan' \in [Channels -> Nat] /\ \A d \in Channels : chan'[d] <= CapacityOf[d]
<1>1. \A d \in Channels : CapacityOf[d] \in Nat /\ chan[d] \in Nat /\ chan[d] <= CapacityOf[d]
  BY CapacityAssumption DEF CapacityOf, Channels, TypeOK
<1> QED
  BY <1>1 DEF Room, TypeOK

(* Every step keeps TypeOK. *)
LEMMA TypeInductive == TypeOK /\ [Next]_vars => TypeOK'
<1> SUFFICES ASSUME TypeOK, [Next]_vars PROVE TypeOK'
  OBVIOUS
<1> USE DEF Ops
<1>1. ASSUME NEW t \in Threads, Send(t) PROVE TypeOK'
  <2>1. ~Selects(t) /\ NextOf(t) \in Channels /\ Room(NextOf(t)) /\ Done(t)
    BY <1>1 DEF Send, NextOf, Channels
  <2>2. chan' = [chan EXCEPT ![NextOf(t)] = @ + 1] /\ UNCHANGED <<master, rx, senders>>
    BY <1>1 DEF Send
  <2>3. todo' \in [Threads -> Seq(Ops)]
    BY <2>1, ToDoTypes
  <2> QED
    BY <2>1, <2>2, <2>3, PutTypes DEF TypeOK
<1>2. ASSUME NEW t \in Threads, Finish(t) PROVE TypeOK'
  <2>1. ~Selects(t) /\ Done(t) /\ UNCHANGED <<master, chan, rx, senders>>
    BY <1>2 DEF Finish, NextOf
  <2> QED
    BY <2>1, ToDoTypes DEF TypeOK
<1>3. CASE GoSendOrderStatus
  <2>1. ~Selects("main") /\ Done("main") /\ senders' = senders + 1 /\ UNCHANGED <<master, chan, rx>>
    BY <1>3 DEF GoSendOrderStatus, NextOf
  <2> QED
    BY <2>1, ToDoTypes DEF TypeOK, Threads
<1>4. CASE SenderSends
  <2>1. senders' \in Nat /\ UNCHANGED <<master, rx, todo>>
    BY <1>4 DEF SenderSends, TypeOK
  <2> QED
    BY <1>4, <2>1, PutTypes DEF SenderSends, TypeOK, Channels
<1>5. ASSUME NEW t \in Threads, NEW s \in Seq(Ops), Run(t, s), UNCHANGED <<master, chan, senders>>,
             rx' \in Nat
      PROVE  TypeOK'
  BY <1>5, ToDoTypes DEF Run, TypeOK
<1>6. CASE MainEvent
  <2>1. PICK s \in Seq(Ops) : Event(s)
    BY <1>6, Scripts DEF MainEvent
  <2> QED
    BY <1>5, <2>1 DEF Event, TypeOK, Threads
<1>7. CASE AssignedHallCall
  <2>1. PICK s \in Seq(Ops) : Receive("main", "assigned", s) /\ UNCHANGED <<master, rx, senders>>
    BY <1>7, Scripts DEF AssignedHallCall
  <2> QED
    BY <2>1, ReceiveTypes DEF TypeOK, Threads, Channels
<1>8. CASE handleOrderStatus
  BY <1>8, Scripts, ReceiveTypes DEF handleOrderStatus, TypeOK, Threads, Channels
<1>9. CASE LocalStatus
  <2>1. <<"broadcast">> \in Seq(Ops)
    OBVIOUS
  <2> QED
    BY <1>9, <2>1, ReceiveTypes DEF LocalStatus, TypeOK, Threads, Channels
<1>10. CASE OrderStatusArrives
  BY <1>10 DEF OrderStatusArrives, TypeOK
<1>11. CASE ForwardOrderStatus
  <2>1. <<"orderStatus">> \in Seq(Ops) /\ rx' \in Nat
    BY <1>11 DEF ForwardOrderStatus, TypeOK, Channels
  <2> QED
    BY <1>5, <1>11, <2>1 DEF ForwardOrderStatus, Threads
<1>12. CASE PeriodicStatus
  BY <1>5, <1>12, Scripts DEF PeriodicStatus, TypeOK, Threads
<1>13. CASE PeerUpdate
  <2>1. <<"peer">> \o Status \in Seq(Ops)
    BY Scripts, ConcatProperties
  <2> QED
    BY <1>5, <1>13, <2>1 DEF PeerUpdate, TypeOK, Threads
<1>14. CASE LostOrNewPeer
  <2>1. PICK s \in Seq(Ops) : todo' = [todo EXCEPT !["monitor"] = Tail(@), !["oa"] = s]
    <3>1. <<"await">> \in Seq(Ops)
      OBVIOUS
    <3> QED
      BY <1>14, <3>1, Scripts DEF LostOrNewPeer
  <2>2. todo["monitor"] # <<>> /\ todo \in [Threads -> Seq(Ops)]
    BY <1>14 DEF LostOrNewPeer, NextOf, Selects, TypeOK
  <2>3. Tail(todo["monitor"]) \in Seq(Ops)
    BY <2>2 DEF Threads
  <2>4. todo' \in [Threads -> Seq(Ops)]
    BY <2>1, <2>2, <2>3
  <2> QED
    BY <1>14, <2>4 DEF LostOrNewPeer, TypeOK
<1>15. CASE AwaitedMaster
  <2>1. PICK s \in Seq(Ops) : todo' = [todo EXCEPT !["oa"] = s]
    BY <1>15, Scripts DEF AwaitedMaster
  <2> QED
    BY <1>15, <2>1, ToDoTypes DEF AwaitedMaster, TypeOK, Threads
<1>16. CASE RunMasterElection
  BY <1>16 DEF RunMasterElection, TypeOK
<1>17. CASE HallCall
  <2>1. PICK s \in Seq(Ops) : Receive("oa", "hallCall", s) /\ UNCHANGED <<master, rx, senders>>
    <3>1. <<>> \in Seq(Ops) /\ <<"assigned">> \in Seq(Ops)
      BY EmptySeq DEF Channels
    <3> QED
      BY <1>17, <3>1 DEF HallCall
  <2> QED
    BY <2>1, ReceiveTypes DEF TypeOK, Threads, Channels
<1>18. CASE UNCHANGED vars
  BY <1>18 DEF vars, TypeOK
<1> QED
  BY <1>1, <1>2, <1>3, <1>4, <1>6, <1>7, <1>8, <1>9, <1>10, <1>11, <1>12, <1>13, <1>14, <1>15,
     <1>16, <1>17, <1>18 DEF Next

(* Type correctness: no channel ever holds more than main.go gives it room    *)
(* for, and the threads do nothing but what channels are used for.            *)
THEOREM TypeCorrect == Spec => []TypeOK
<1>1. Init => TypeOK
  <2> SUFFICES ASSUME Init PROVE TypeOK
    OBVIOUS
  <2>1. /\ chan \in [Channels -> Nat]
        /\ \A c \in Channels : chan[c] <= CapacityOf[c]
    BY CapacityAssumption DEF Init, Channels, CapacityOf
  <2>2. todo \in [Threads -> Seq(Ops)]
    BY EmptySeq DEF Init
  <2> QED
    BY <2>1, <2>2 DEF Init, TypeOK, Ops
<1> QED
  BY <1>1, TypeInductive, PTL DEF Spec
================================================================================
