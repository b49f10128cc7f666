------------------------ MODULE ReliablePacketsProofs ------------------------
(***************************************************************************)
(* Theorems about ReliablePackets, for any slaves, retries, delays and     *)
(* numbers of messages.                                                    *)
(***************************************************************************)
EXTENDS ReliablePackets, TLAPS

States == {"unused", "loaded", "stored", "waiting", "acked", "failed", "died", "unsent", "own"}

CallType == [state : States, kind : Kinds, sender : Nodes, target : Nodes, seq : Nat,
             retries : Nat, interval : Nat, wait : Nat, closed : BOOLEAN]

(* Every step keeps TypeOK. *)
LEMMA TypeInductive == TypeOK /\ [Next]_vars => TypeOK'
<1> SUFFICES ASSUME TypeOK, [Next]_vars PROVE TypeOK'
  OBVIOUS
<1>0. /\ call \in [Calls -> CallType] /\ counter \in [Nodes -> [Kinds -> Nat]]
      /\ NetworkDelay \in 1 .. NetworkDelay /\ NetworkDelay \in Nat /\ messageTimeout \in Nat
  BY BoundsAssumption DEF TypeOK, CallType, States
<1>1. ASSUME NEW i \in Calls, NEW kind \in Kinds, NEW sender \in Nodes, NEW target \in Nodes,
             LoadCounter(i, kind, sender, target)
      PROVE  TypeOK'
  <2>1. counter[sender][kind] \in Nat
    BY <1>0
  <2>2. call' \in [Calls -> CallType]
    BY <1>0, <1>1, <2>1 DEF LoadCounter, CallType, States
  <2> QED
    BY <1>1, <2>2 DEF LoadCounter, TypeOK, CallType, States
<1>2. ASSUME NEW i \in Calls, StoreCounter(i) PROVE TypeOK'
  <2>1. call[i].seq + 1 \in Nat /\ call[i].sender \in Nodes /\ call[i].kind \in Kinds
    BY <1>0 DEF CallType
  <2>2. call' \in [Calls -> CallType]
    BY <1>0, <1>2 DEF StoreCounter, CallType, States
  <2>3. counter' \in [Nodes -> [Kinds -> Nat]]
    BY <1>0, <1>2, <2>1 DEF StoreCounter
  <2> QED
    BY <1>2, <2>2, <2>3 DEF StoreCounter, TypeOK, CallType, States
<1>3. ASSUME NEW i \in Calls, reliablePacketTransmit(i) PROVE TypeOK'
  <2> DEFINE n == call[i].sender
             seq == counter[n][call[i].kind]
  <2>1. n \in Nodes /\ seq \in Nat
    BY <1>0 DEF CallType
  <2> HIDE DEF n, seq
  <2>2. call' \in [Calls -> CallType]
    BY <1>0, <1>3, <2>1 DEF reliablePacketTransmit, CallType, States, n, seq
  <2>3. pendingAcks' \in [Nodes -> SUBSET [seq : Nat, call : Calls]]
    BY <1>3, <2>1 DEF reliablePacketTransmit, TypeOK, Forget, n, seq
  <2>4. wire' \in [Calls -> 0 .. NetworkDelay]
    BY <1>0, <1>3 DEF reliablePacketTransmit, TypeOK
  <2> QED
    BY <1>3, <2>2, <2>3, <2>4 DEF reliablePacketTransmit, TypeOK, CallType, States
<1>4. ASSUME NEW i \in Calls, Retry(i) PROVE TypeOK'
  <2>1. call[i].retries + 1 \in Nat /\ 2 * call[i].interval \in Nat
    BY <1>0 DEF CallType
  <2>2. call' \in [Calls -> CallType]
    <3> DEFINE c == [call[i] EXCEPT !.retries = call[i].retries + 1,
                                    !.interval = 2 * call[i].interval,
                                    !.wait = 2 * call[i].interval]
    <3>1. c \in CallType
      BY <1>0, <2>1 DEF CallType
    <3>2. call' = [call EXCEPT ![i] = c]
      BY <1>4 DEF Retry
    <3> HIDE DEF c
    <3> QED
      BY <1>0, <3>1, <3>2
  <2>3. wire' \in [Calls -> 0 .. NetworkDelay]
    BY <1>0, <1>4 DEF Retry, TypeOK
  <2> QED
    BY <1>4, <2>2, <2>3 DEF Retry, TypeOK, CallType, States
<1>5. ASSUME NEW i \in Calls, GiveUp(i) PROVE TypeOK'
  <2>1. call' \in [Calls -> CallType]
    BY <1>0, <1>5 DEF GiveUp, CallType, States
  <2>2. pendingAcks' \in [Nodes -> SUBSET [seq : Nat, call : Calls]]
    BY <1>5 DEF GiveUp, TypeOK, Forget
  <2> QED
    BY <1>5, <2>1, <2>2 DEF GiveUp, TypeOK, CallType, States
<1>6. ASSUME NEW i \in Calls, AckReceived(i) PROVE TypeOK'
  <2>1. call' \in [Calls -> CallType]
    BY <1>0, <1>6 DEF AckReceived, CallType, States
  <2> QED
    BY <1>6, <2>1 DEF AckReceived, TypeOK, CallType, States
<1>7. ASSUME NEW n \in Nodes, NEW ack \in ackWire, ReceiveAck(n, ack) PROVE TypeOK'
  <2>1. PICK p \in pendingAcks[n] :
          /\ call' = [call EXCEPT ![p.call].closed = TRUE]
          /\ pendingAcks' = [pendingAcks EXCEPT ![n] = Forget(@, ack.seq)]
    BY <1>7 DEF ReceiveAck
  <2>2. p.call \in Calls
    BY DEF TypeOK
  <2>3. call' \in [Calls -> CallType]
    BY <1>0, <2>1, <2>2 DEF CallType, States
  <2>4. pendingAcks' \in [Nodes -> SUBSET [seq : Nat, call : Calls]]
    BY <2>1 DEF TypeOK, Forget
  <2> QED
    BY <1>7, <2>3, <2>4 DEF ReceiveAck, TypeOK, CallType, States
<1>8. ASSUME NEW n \in Nodes, NEW kind \in Kinds, NEW seq \in Nat, Remember(n, kind, seq)
      PROVE  recent' \in [Nodes -> [Kinds -> SUBSET [seq : Nat, age : 0 .. (messageTimeout + 1)]]]
  <2>1. [seq |-> seq, age |-> 0] \in [seq : Nat, age : 0 .. (messageTimeout + 1)]
    BY <1>0
  <2> QED
    BY <1>8, <2>1 DEF TypeOK, Remember
<1>13. ASSUME NEW seq \in Nat, Acknowledge(seq)
       PROVE  ackWire' \subseteq [seq : Nat, life : 1 .. NetworkDelay]
  BY <1>0, <1>13 DEF Acknowledge, TypeOK
<1>14. ASSUME NEW i \in Calls, receiveMessage(i) PROVE TypeOK'
  <2> DEFINE n == Recipient(i)
             kind == call[i].kind
             seq == call[i].seq
  <2>1. n \in Nodes /\ kind \in Kinds /\ seq \in Nat
    BY <1>0 DEF CallType, Recipient
  <2>2. Remember(n, kind, seq) /\ Acknowledge(seq) /\ inHand' = [inHand EXCEPT ![n] = i]
    BY <1>14 DEF receiveMessage
  <2> HIDE DEF n, kind, seq
  <2>3. inHand' \in [Nodes -> Calls \cup {0}]
    BY <2>2 DEF TypeOK
  <2> QED
    BY <1>8, <1>13, <1>14, <2>1, <2>2, <2>3 DEF receiveMessage, TypeOK
<1>15. ASSUME NEW n \in Nodes, acknowledgeAgain(n) PROVE TypeOK'
  <2>1. call[inHand[n]].seq \in Nat
    BY <1>0, <1>15 DEF acknowledgeAgain, TypeOK, CallType
  <2> QED
    BY <1>13, <1>15, <2>1 DEF acknowledgeAgain, TypeOK
<1>16. ASSUME NEW n \in Nodes, processMessage(n) PROVE TypeOK'
  <2>1. inHand' \in [Nodes -> Calls \cup {0}] /\ handled' \in [Calls -> Handlings]
    BY <1>16 DEF processMessage, TypeOK, Handlings, Again
  <2> QED
    BY <1>16, <2>1 DEF processMessage, TypeOK
<1>17. ASSUME NEW i \in Calls, ownOrderStatus(i) PROVE TypeOK'
  <2> DEFINE kind == call[i].kind
             seq == counter[Master][kind]
  <2>1. Master \in Nodes /\ kind \in Kinds /\ seq \in Nat
    BY <1>0 DEF CallType, Nodes
  <2> HIDE DEF kind, seq
  <2>2. call' = [call EXCEPT ![i] = [@ EXCEPT !.state = "own", !.seq = seq]]
    BY <1>17 DEF ownOrderStatus, kind, seq
  <2>3. call' \in [Calls -> CallType]
    BY <1>0, <2>1, <2>2 DEF CallType, States
  <2>4. recent' = recent \/ Remember(Master, kind, seq)
    BY <1>17 DEF ownOrderStatus, kind, seq
  <2>5. recent' \in [Nodes -> [Kinds -> SUBSET [seq : Nat, age : 0 .. (messageTimeout + 1)]]]
    BY <1>8, <2>1, <2>4 DEF TypeOK
  <2>6. handled' \in [Calls -> Handlings]
    BY <1>17 DEF ownOrderStatus, TypeOK, Handlings
  <2> QED
    BY <1>17, <2>3, <2>5, <2>6 DEF ownOrderStatus, TypeOK, CallType, States
<1>9. ASSUME NEW n \in Nodes, flushRecentMessages(n) PROVE TypeOK'
  <2>1. recent' \in [Nodes -> [Kinds -> SUBSET [seq : Nat, age : 0 .. (messageTimeout + 1)]]]
    BY <1>9 DEF flushRecentMessages, TypeOK
  <2> QED
    BY <1>9, <2>1 DEF flushRecentMessages, TypeOK
<1>10. CASE Tick
  <2>1. call' \in [Calls -> CallType]
    <3>1. ASSUME NEW i \in Calls, Running(i) PROVE call[i].wait - 1 \in Nat
      BY <1>0, <1>10, <3>1 DEF Tick, CallType
    <3> QED
      BY <1>0, <1>10, <3>1 DEF Tick, CallType, States
  <2>2. wire' \in [Calls -> 0 .. NetworkDelay]
    BY <1>0, <1>10 DEF Tick, TypeOK
  <2>3. ackWire' \subseteq [seq : Nat, life : 1 .. NetworkDelay]
    <3>1. ASSUME NEW a \in ackWire, a.life > 1
          PROVE  [a EXCEPT !.life = @ - 1] \in [seq : Nat, life : 1 .. NetworkDelay]
      <4>1. a \in [seq : Nat, life : 1 .. NetworkDelay]
        BY DEF TypeOK
      <4> QED
        BY <1>0, <3>1, <4>1
    <3> QED
      BY <1>10, <3>1 DEF Tick
  <2>4. ASSUME NEW r \in [seq : Nat, age : 0 .. (messageTimeout + 1)], ~Expired(r)
        PROVE  [r EXCEPT !.age = @ + 1] \in [seq : Nat, age : 0 .. (messageTimeout + 1)]
    BY <1>0, <2>4 DEF Expired
  <2>5. recent' \in [Nodes -> [Kinds -> SUBSET [seq : Nat, age : 0 .. (messageTimeout + 1)]]]
    <3>1. ASSUME NEW n \in Nodes, NEW k \in Kinds
          PROVE  recent[n][k] \subseteq [seq : Nat, age : 0 .. (messageTimeout + 1)]
      BY DEF TypeOK
    <3> QED
      BY <1>10, <2>4, <3>1 DEF Tick
  <2> QED
    BY <1>10, <2>1, <2>2, <2>3, <2>5 DEF Tick, TypeOK, CallType, States
<1>11. CASE UNCHANGED vars
  BY <1>11 DEF vars, TypeOK
<1>12. ASSUME NEW n \in Slaves, Restart(n) PROVE TypeOK'
  <2>1. call' \in [Calls -> CallType]
    BY <1>0, <1>12 DEF Restart, Orphaned, CallType, States
  <2>2. handled' \in [Calls -> Handlings] /\ inHand' \in [Nodes -> Calls \cup {0}]
    BY <1>12 DEF Restart, TypeOK, Handlings, Outlived
  <2>3. counter' \in [Nodes -> [Kinds -> Nat]]
    BY <1>0, <1>12, FirstSeqAssumption DEF Restart
  <2>4. recent' \in [Nodes -> [Kinds -> SUBSET [seq : Nat, age : 0 .. (messageTimeout + 1)]]]
    BY <1>12 DEF Restart, TypeOK
  <2> QED
    BY <1>12, <2>1, <2>2, <2>3, <2>4 DEF Restart, TypeOK, CallType, States
<1> QED
  BY <1>1, <1>2, <1>3, <1>4, <1>5, <1>6, <1>7, <1>9, <1>10, <1>11, <1>12, <1>14, <1>15, <1>16,
     <1>17 DEF Next

(* Type correctness: every variable keeps its type in every behaviour. *)
THEOREM TypeCorrect == Spec => []TypeOK
<1>1. Init => TypeOK
  BY FirstSeqAssumption, BoundsAssumption DEF Init, TypeOK, Unused, Nodes, Kinds, Handlings
<1> QED
  BY <1>1, TypeInductive, PTL DEF Spec

-----------------------------------------------------------------------------
(* Every registered ack channel belongs to one running transmission of that   *)
(* process and that number, which is what makes close(ackChan) safe.          *)
PendingInv ==
  /\ \A n \in Nodes : \A p \in pendingAcks[n] :
       /\ Running(p.call) /\ ~call[p.call].closed
       /\ call[p.call].sender = n /\ call[p.call].seq = p.seq
  /\ \A i \in Calls : call[i].closed => i \in Sent

(* A step that neither registers nor closes a channel keeps PendingInv if it  *)
(* leaves the running transmissions with a channel alone.                     *)
LEMMA PendingKept ==
  ASSUME PendingInv, NEW i \in Calls, TypeOK,
         ~(\E n \in Nodes : \E p \in pendingAcks[n] : p.call = i) \/ call'[i].state = "waiting",
         call' \in [Calls -> CallType],
         \A j \in Calls \ {i} : call'[j] = call[j],
         call'[i].closed = call[i].closed,
         call[i].closed => call'[i].state \in {"waiting", "acked", "failed", "died"},
         call[i].state = "waiting" =>
            call'[i].sender = call[i].sender /\ call'[i].seq = call[i].seq,
         pendingAcks' = pendingAcks
  PROVE  PendingInv'
<1>1. ASSUME NEW n \in Nodes, NEW p \in pendingAcks'[n]
      PROVE  /\ Running(p.call)' /\ ~call'[p.call].closed
             /\ call'[p.call].sender = n /\ call'[p.call].seq = p.seq
  <2>1. /\ p \in pendingAcks[n] /\ Running(p.call) /\ ~call[p.call].closed
        /\ call[p.call].sender = n /\ call[p.call].seq = p.seq /\ p.call \in Calls
    BY DEF PendingInv, TypeOK
  <2>2. CASE p.call # i
    BY <2>1, <2>2 DEF Running
  <2>3. CASE p.call = i
    BY <2>1, <2>3 DEF Running
  <2> QED
    BY <2>2, <2>3
<1>2. ASSUME NEW j \in Calls, call'[j].closed PROVE j \in Sent'
  BY <1>2 DEF PendingInv, Sent
<1> QED
  BY <1>1, <1>2 DEF PendingInv

(* Every step keeps PendingInv. *)
LEMMA PendingInductive == TypeOK /\ TypeOK' /\ PendingInv /\ [Next]_vars => PendingInv'
<1> SUFFICES ASSUME TypeOK, TypeOK', PendingInv, [Next]_vars PROVE PendingInv'
  OBVIOUS
<1>0. /\ call \in [Calls -> CallType] /\ call' \in [Calls -> CallType]
      /\ \A n \in Nodes : \A p \in pendingAcks[n] : p.call \in Calls
  BY DEF TypeOK, CallType, States
<1>1. ASSUME NEW i \in Calls, NEW kind \in Kinds, NEW sender \in Nodes, NEW target \in Nodes,
             LoadCounter(i, kind, sender, target)
      PROVE  PendingInv'
  <2>1. ~(\E n \in Nodes : \E p \in pendingAcks[n] : p.call = i) /\ ~call[i].closed
    BY <1>0, <1>1 DEF LoadCounter, PendingInv, Running, Sent, CallType
  <2> QED
    BY <1>0, <1>1, <2>1, PendingKept DEF LoadCounter
<1>2. ASSUME NEW i \in Calls, StoreCounter(i) PROVE PendingInv'
  <2>1. ~(\E n \in Nodes : \E p \in pendingAcks[n] : p.call = i) /\ ~call[i].closed
    BY <1>0, <1>2 DEF StoreCounter, PendingInv, Running, Sent, CallType
  <2> QED
    BY <1>0, <1>2, <2>1, PendingKept DEF StoreCounter
<1>3. ASSUME NEW i \in Calls, reliablePacketTransmit(i) PROVE PendingInv'
  <2> DEFINE n == call[i].sender
             seq == counter[n][call[i].kind]
  <2>1. n \in Nodes /\ ~call[i].closed
        /\ ~(\E m \in Nodes : \E p \in pendingAcks[m] : p.call = i)
    BY <1>0, <1>3 DEF reliablePacketTransmit, PendingInv, Running, Sent, CallType
  <2>2. /\ call'[i].state = "waiting" /\ call'[i].seq = seq /\ call'[i].sender = n
        /\ call'[i].closed = call[i].closed
        /\ \A j \in Calls \ {i} : call'[j] = call[j]
        /\ pendingAcks' = [pendingAcks EXCEPT ![n] = Forget(@, seq) \cup {[seq |-> seq, call |-> i]}]
    BY <1>0, <1>3 DEF reliablePacketTransmit, CallType
  <2> HIDE DEF n, seq
  <2>3. ASSUME NEW m \in Nodes, NEW p \in pendingAcks'[m]
        PROVE  p \in pendingAcks[m] \/ (m = n /\ p = [seq |-> seq, call |-> i])
    BY <2>1, <2>2 DEF Forget, TypeOK
  <2>4. ASSUME NEW m \in Nodes, NEW p \in pendingAcks'[m]
        PROVE  /\ Running(p.call)' /\ ~call'[p.call].closed
               /\ call'[p.call].sender = m /\ call'[p.call].seq = p.seq
    <3>1. CASE p \in pendingAcks[m]
      BY <1>0, <2>1, <2>2, <3>1 DEF PendingInv, Running
    <3>2. CASE m = n /\ p = [seq |-> seq, call |-> i]
      BY <1>0, <2>1, <2>2, <3>2 DEF Running, CallType
    <3> QED
      BY <2>3, <3>1, <3>2
  <2>5. ASSUME NEW j \in Calls, call'[j].closed PROVE j \in Sent'
    BY <2>1, <2>2, <2>5 DEF PendingInv, Sent
  <2> QED
    BY <2>4, <2>5 DEF PendingInv
<1>4. ASSUME NEW i \in Calls, Retry(i) PROVE PendingInv'
  BY <1>0, <1>4, PendingKept DEF Retry, Running, CallType
<1>5. ASSUME NEW i \in Calls, GiveUp(i) PROVE PendingInv'
  <2>1. /\ call[i].sender \in Nodes
        /\ pendingAcks' = [pendingAcks EXCEPT ![call[i].sender] = Forget(@, call[i].seq)]
        /\ call'[i].state = "failed"
        /\ \A j \in Calls \ {i} : call'[j] = call[j]
    BY <1>0, <1>5 DEF GiveUp, CallType
  <2>2. ASSUME NEW m \in Nodes, NEW p \in pendingAcks'[m]
        PROVE  p \in pendingAcks[m] /\ p.call # i /\ p.call \in Calls
    <3>1. p \in pendingAcks[m] /\ (m = call[i].sender => p.seq # call[i].seq)
      BY <2>1 DEF Forget, TypeOK
    <3> QED
      BY <1>0, <3>1 DEF PendingInv
  <2>3. \A j \in Calls : call'[j].closed => j \in Sent'
    BY <2>1 DEF PendingInv, Sent
  <2> QED
    BY <2>1, <2>2, <2>3 DEF PendingInv, Running
<1>6. ASSUME NEW i \in Calls, AckReceived(i) PROVE PendingInv'
  <2>1. ~(\E n \in Nodes : \E p \in pendingAcks[n] : p.call = i)
    BY <1>6 DEF AckReceived, PendingInv
  <2> QED
    BY <1>0, <1>6, <2>1, PendingKept DEF AckReceived, CallType
<1>7. ASSUME NEW n \in Nodes, NEW ack \in ackWire, ReceiveAck(n, ack) PROVE PendingInv'
  <2>1. PICK p \in pendingAcks[n] :
          /\ p.seq = ack.seq
          /\ call' = [call EXCEPT ![p.call].closed = TRUE]
          /\ pendingAcks' = [pendingAcks EXCEPT ![n] = Forget(@, ack.seq)]
    BY <1>7 DEF ReceiveAck
  <2>2. /\ p.call \in Calls /\ Running(p.call)
        /\ call[p.call].sender = n /\ call[p.call].seq = ack.seq
    BY <1>0, <2>1 DEF PendingInv
  <2>3. \A j \in Calls : /\ call'[j].state = call[j].state /\ call'[j].sender = call[j].sender
                         /\ call'[j].seq = call[j].seq
                         /\ j # p.call => call'[j] = call[j]
    BY <1>0, <2>1, <2>2 DEF CallType
  <2>4. ASSUME NEW m \in Nodes, NEW q \in pendingAcks'[m]
        PROVE  q \in pendingAcks[m] /\ q.call # p.call /\ q.call \in Calls
    <3>1. q \in pendingAcks[m] /\ (m = n => q.seq # ack.seq)
      BY <2>1 DEF Forget, TypeOK
    <3> QED
      BY <1>0, <2>2, <3>1 DEF PendingInv
  <2>5. \A j \in Calls : call'[j].closed => j \in Sent'
    BY <2>2, <2>3 DEF PendingInv, Sent, Running
  <2> QED
    BY <2>3, <2>4, <2>5 DEF PendingInv, Running
<1>8. ASSUME UNCHANGED <<call, pendingAcks>> PROVE PendingInv'
  BY <1>8 DEF PendingInv, Running, Sent
<1>9. CASE Tick
  <2>1. \A j \in Calls : /\ call'[j].state = call[j].state /\ call'[j].sender = call[j].sender
                         /\ call'[j].seq = call[j].seq /\ call'[j].closed = call[j].closed
    BY <1>0, <1>9 DEF Tick, CallType
  <2> QED
    BY <1>0, <1>9, <2>1 DEF Tick, PendingInv, Running, Sent
<1>10. ASSUME NEW n \in Slaves, Restart(n) PROVE PendingInv'
  <2>1. \A j \in Calls : /\ call'[j].sender = call[j].sender /\ call'[j].seq = call[j].seq
                         /\ call'[j].closed = call[j].closed
                         /\ call[j].sender # n => call'[j].state = call[j].state
                         /\ j \in Sent => j \in Sent'
    BY <1>0, <1>10 DEF Restart, Orphaned, CallType, Sent
  <2>2. ASSUME NEW m \in Nodes, NEW p \in pendingAcks'[m] PROVE p \in pendingAcks[m] /\ m # n
    BY <1>10 DEF Restart, TypeOK
  <2> QED
    BY <1>0, <2>1, <2>2 DEF PendingInv, Running
<1>11. ASSUME NEW i \in Calls, ownOrderStatus(i) PROVE PendingInv'
  <2>1. ~(\E n \in Nodes : \E p \in pendingAcks[n] : p.call = i) /\ ~call[i].closed
    BY <1>0, <1>11 DEF ownOrderStatus, PendingInv, Running, Sent, CallType
  <2> QED
    BY <1>0, <1>11, <2>1, PendingKept DEF ownOrderStatus, CallType
<1> QED
  BY <1>1, <1>2, <1>3, <1>4, <1>5, <1>6, <1>7, <1>8, <1>9, <1>10, <1>11
     DEF Next, receiveMessage, acknowledgeAgain, processMessage, flushRecentMessages, vars

(* No ack channel is ever closed twice, whatever sequence numbers collide:    *)
(* the channels in pendingAcks are open and waited for.                       *)
THEOREM PendingTheorem == Spec => []PendingIsOpen
<1>1. Init => PendingInv
  BY DEF Init, PendingInv, Unused
<1>2. PendingInv => PendingIsOpen
  BY DEF PendingInv, PendingIsOpen
<1> QED
  BY <1>1, <1>2, TypeCorrect, PendingInductive, PTL DEF Spec

-----------------------------------------------------------------------------
(* Where acks come from: a message that was sent and taken up. *)
AckInv ==
  /\ \A i \in Calls : call[i].closed => \E j \in Sent : call[j].seq = call[i].seq /\ Taken(j)
  /\ \A a \in ackWire : \E j \in Sent : call[j].seq = a.seq /\ Taken(j)
  /\ \A i \in Calls : wire[i] > 0 => i \in Sent
  /\ \A n \in Nodes : inHand[n] # 0 => inHand[n] \in Sent /\ Recipient(inHand[n]) = n

(* Steps that keep what was sent and taken up and close no channel.           *)
LEMMA AckKept ==
  ASSUME AckInv,
         \A i \in Sent : /\ i \in Sent' /\ call'[i].seq = call[i].seq
                         /\ call'[i].target = call[i].target
                         /\ Taken(i) => Taken(i)',
         \A i \in Calls : call'[i].closed => call[i].closed /\ call'[i].seq = call[i].seq,
         \A a \in ackWire' : \/ \E b \in ackWire : b.seq = a.seq
                             \/ \E j \in Sent' : call'[j].seq = a.seq /\ Taken(j)',
         \A i \in Calls : wire'[i] > 0 => wire[i] > 0 \/ i \in Sent',
         \A n \in Nodes : inHand'[n] # 0 =>
            inHand'[n] = inHand[n] \/ (inHand'[n] \in Sent' /\ call'[inHand'[n]].target = n)
  PROVE  AckInv'
<1>1. \A a \in ackWire' : \E j \in Sent' : call'[j].seq = a.seq /\ Taken(j)'
  BY DEF AckInv
<1>2. \A i \in Calls : wire'[i] > 0 => i \in Sent'
  BY DEF AckInv
<1>3. \A i \in Calls : call'[i].closed => \E j \in Sent' : call'[j].seq = call'[i].seq /\ Taken(j)'
  BY DEF AckInv
<1>4. \A n \in Nodes : inHand'[n] # 0 => inHand'[n] \in Sent' /\ call'[inHand'[n]].target = n
  BY DEF AckInv, Recipient
<1> QED
  BY <1>1, <1>2, <1>3, <1>4 DEF AckInv, Recipient

(* Every step keeps AckInv. *)
LEMMA AckInductive ==
  TypeOK /\ TypeOK' /\ PendingInv /\ AckInv /\ [Next]_vars => AckInv'
<1> SUFFICES ASSUME TypeOK, TypeOK', PendingInv, AckInv, [Next]_vars PROVE AckInv'
  OBVIOUS
<1>0. /\ call \in [Calls -> CallType] /\ call' \in [Calls -> CallType]
      /\ handled \in [Calls -> Handlings] /\ wire \in [Calls -> 0 .. NetworkDelay]
      /\ Sent \subseteq Calls /\ inHand \in [Nodes -> Calls \cup {0}]
      /\ \A i \in Calls : call[i].target \in Nodes
  BY DEF TypeOK, CallType, States, Sent
<1>15. 0 \notin Calls
  BY BoundsAssumption DEF Calls
<1>1. ASSUME NEW i \in Calls, i \notin Sent, call'[i].closed = call[i].closed,
             \A j \in Calls \ {i} : call'[j] = call[j],
             UNCHANGED <<ackWire, inHand, handled>>,
             \A j \in Calls \ {i} : wire'[j] = wire[j],
             wire'[i] = wire[i] \/ call'[i].state = "waiting"
      PROVE  AckInv'
  <2>1. \A j \in Sent : j # i /\ j \in Sent'
    BY <1>1 DEF Sent
  <2>2. wire'[i] > 0 => wire[i] > 0 \/ i \in Sent'
    BY <1>1 DEF Sent
  <2>3. \A j \in Sent : Taken(j) => Taken(j)'
    BY <1>0, <1>1, <2>1 DEF Taken, Recipient
  <2>4. ~call[i].closed
    BY <1>1 DEF PendingInv
  <2> QED
    BY <1>0, <1>1, <2>1, <2>2, <2>3, <2>4, AckKept
<1>2. ASSUME NEW i \in Calls, NEW kind \in Kinds, NEW sender \in Nodes, NEW target \in Nodes,
             LoadCounter(i, kind, sender, target)
      PROVE  AckInv'
  BY <1>0, <1>1, <1>2 DEF LoadCounter, Sent, CallType
<1>3. ASSUME NEW i \in Calls, StoreCounter(i) PROVE AckInv'
  BY <1>0, <1>1, <1>3 DEF StoreCounter, Sent, CallType
<1>4. ASSUME NEW i \in Calls, reliablePacketTransmit(i) PROVE AckInv'
  BY <1>0, <1>1, <1>4 DEF reliablePacketTransmit, Sent, CallType
<1>5. ASSUME NEW i \in Calls, Retry(i) \/ GiveUp(i) \/ AckReceived(i) PROVE AckInv'
  <2>0. i \in Sent /\ UNCHANGED <<ackWire, inHand, handled>>
    BY <1>5 DEF Retry, GiveUp, AckReceived, Running, Sent
  <2>4. /\ call'[i].seq = call[i].seq /\ call'[i].closed = call[i].closed
        /\ call'[i].target = call[i].target
        /\ call'[i].state \in {"waiting", "acked", "failed"}
        /\ \A j \in Calls \ {i} : call'[j] = call[j]
    <3>1. CASE Retry(i)
      BY <1>0, <3>1 DEF Retry, Running, CallType
    <3>2. CASE GiveUp(i)
      BY <1>0, <3>2 DEF GiveUp, Running, CallType
    <3>3. CASE AckReceived(i)
      BY <1>0, <3>3 DEF AckReceived, Running, CallType
    <3> QED
      BY <1>5, <3>1, <3>2, <3>3
  <2>1. /\ i \in Sent /\ i \in Sent' /\ call'[i].seq = call[i].seq
        /\ call'[i].target = call[i].target /\ call'[i].closed = call[i].closed
        /\ \A j \in Calls \ {i} : call'[j] = call[j]
        /\ UNCHANGED <<ackWire, inHand, handled>>
    BY <2>0, <2>4 DEF Sent
  <2>2. \A j \in Calls \ {i} : wire'[j] = wire[j]
    BY <1>0, <1>5 DEF Retry, GiveUp, AckReceived
  <2>3. Sent \subseteq Sent'
    BY <2>1 DEF Sent
  <2>5. \A j \in Sent : Taken(j) => Taken(j)'
    BY <1>0, <2>1 DEF Taken, Recipient
  <2> QED
    BY <1>0, <2>1, <2>2, <2>3, <2>5, AckKept
<1>6. ASSUME NEW n \in Nodes, NEW ack \in ackWire, ReceiveAck(n, ack) PROVE AckInv'
  <2>1. PICK p \in pendingAcks[n] :
          p.seq = ack.seq /\ call' = [call EXCEPT ![p.call].closed = TRUE]
    BY <1>6 DEF ReceiveAck
  <2>2. p.call \in Calls /\ p.call \in Sent /\ call[p.call].seq = ack.seq
    BY <2>1 DEF PendingInv, Running, Sent, TypeOK
  <2>3. \A j \in Calls : /\ call'[j].state = call[j].state /\ call'[j].seq = call[j].seq
                         /\ call'[j].target = call[j].target
                         /\ j # p.call => call'[j].closed = call[j].closed
    BY <1>0, <2>1, <2>2 DEF CallType
  <2>4. Sent' = Sent /\ UNCHANGED <<ackWire, wire, inHand, handled>>
    BY <1>6, <2>3 DEF ReceiveAck, Sent
  <2>5. \A j \in Sent : Taken(j)' = Taken(j)
    BY <1>0, <2>3, <2>4 DEF Taken, Recipient
  <2>6. PICK j \in Sent : call[j].seq = ack.seq /\ Taken(j)
    BY DEF AckInv
  <2>7. ASSUME NEW i \in Calls, call'[i].closed
        PROVE  \E k \in Sent' : call'[k].seq = call'[i].seq /\ Taken(k)'
    <3>1. CASE i = p.call
      BY <1>0, <2>2, <2>3, <2>4, <2>5, <2>6, <3>1
    <3>2. CASE i # p.call
      <4>1. PICK k \in Sent : call[k].seq = call[i].seq /\ Taken(k)
        BY <2>3, <2>7, <3>2 DEF AckInv
      <4> QED
        BY <1>0, <2>3, <2>4, <2>5, <4>1
    <3> QED
      BY <3>1, <3>2
  <2>8. \A a \in ackWire' : \E k \in Sent' : call'[k].seq = a.seq /\ Taken(k)'
    BY <1>0, <2>3, <2>4, <2>5 DEF AckInv
  <2> QED
    BY <1>0, <2>3, <2>4, <2>7, <2>8 DEF AckInv, Recipient
<1>7. ASSUME NEW i \in Calls, receiveMessage(i) PROVE AckInv'
  <2>1. /\ i \in Sent /\ UNCHANGED <<call, wire, handled>> /\ Sent' = Sent
        /\ inHand[call[i].target] = 0
        /\ inHand' = [inHand EXCEPT ![call[i].target] = i]
        /\ ackWire' = {a \in ackWire : a.seq # call[i].seq}
                        \cup {[seq |-> call[i].seq, life |-> NetworkDelay]}
    BY <1>7 DEF receiveMessage, AckInv, Sent, Recipient, Acknowledge
  <2>2. Taken(i)' /\ \A j \in Sent : Taken(j) => Taken(j)'
    BY <1>0, <1>15, <2>1 DEF Taken, Recipient
  <2>3. \A a \in ackWire' : a \in ackWire \/ a.seq = call[i].seq
    BY <2>1
  <2>4. \A n \in Nodes : inHand'[n] = inHand[n] \/ (inHand'[n] = i /\ Recipient(i)' = n)
    BY <1>0, <2>1 DEF Recipient
  <2> QED
    BY <1>0, <2>1, <2>2, <2>3, <2>4, AckKept
<1>12. ASSUME NEW n \in Nodes, acknowledgeAgain(n) PROVE AckInv'
  <2>1. /\ inHand[n] \in Sent /\ Taken(inHand[n])
        /\ UNCHANGED <<call, wire, inHand, handled>>
        /\ ackWire' = {a \in ackWire : a.seq # call[inHand[n]].seq}
                        \cup {[seq |-> call[inHand[n]].seq, life |-> NetworkDelay]}
    BY <1>12 DEF acknowledgeAgain, AckInv, Acknowledge, Taken
  <2>2. Sent' = Sent /\ \A j \in Sent : Taken(j)' = Taken(j)
    BY <2>1 DEF Sent, Taken, Recipient
  <2>3. \A a \in ackWire' : a \in ackWire \/ a.seq = call[inHand[n]].seq
    BY <2>1
  <2> QED
    BY <1>0, <2>1, <2>2, <2>3, AckKept
<1>13. ASSUME NEW n \in Nodes, processMessage(n) PROVE AckInv'
  <2>1. /\ inHand[n] \in Calls /\ Recipient(inHand[n]) = n
        /\ UNCHANGED <<call, wire, ackWire>>
        /\ inHand' = [inHand EXCEPT ![n] = 0]
        /\ handled' = [handled EXCEPT ![inHand[n]] = Again(@)]
    BY <1>0, <1>13 DEF processMessage, AckInv
  <2>2. Sent' = Sent
    BY <2>1 DEF Sent
  <2>3. ASSUME NEW j \in Sent, Taken(j) PROVE Taken(j)'
    <3>1. CASE j = inHand[n]
      BY <1>0, <2>1, <3>1 DEF Taken, Again
    <3>2. CASE j # inHand[n] /\ handled[j] # "never"
      BY <1>0, <2>1, <3>2 DEF Taken
    <3>3. CASE j # inHand[n] /\ inHand[Recipient(j)] = j
      BY <1>0, <2>1, <3>3 DEF Taken, Recipient
    <3> QED
      BY <2>3, <3>1, <3>2, <3>3 DEF Taken
  <2>4. \A m \in Nodes : inHand'[m] = inHand[m] \/ inHand'[m] = 0
    BY <1>0, <2>1
  <2> QED
    BY <1>0, <2>1, <2>2, <2>3, <2>4, AckKept
<1>14. ASSUME NEW i \in Calls, ownOrderStatus(i) PROVE AckInv'
  <2>1. /\ i \notin Sent /\ \A j \in Calls \ {i} : call'[j] = call[j]
        /\ call'[i].closed = call[i].closed
        /\ \A j \in Calls \ {i} : handled'[j] = handled[j]
        /\ UNCHANGED <<wire, ackWire, inHand>>
    BY <1>0, <1>14 DEF ownOrderStatus, Sent, CallType
  <2>2. ~call[i].closed
    BY <2>1 DEF PendingInv
  <2>3. \A j \in Sent : j # i /\ j \in Sent'
    BY <2>1 DEF Sent
  <2>4. \A j \in Sent : Taken(j) => Taken(j)'
    BY <1>0, <2>1, <2>3 DEF Taken, Recipient
  <2> QED
    BY <1>0, <2>1, <2>2, <2>3, <2>4, AckKept
<1>8. ASSUME UNCHANGED <<call, wire, ackWire, inHand, handled>> PROVE AckInv'
  BY <1>8 DEF AckInv, Sent, Taken, Recipient
<1>9. CASE Tick
  <2>1. \A j \in Calls : /\ call'[j].state = call[j].state /\ call'[j].seq = call[j].seq
                         /\ call'[j].target = call[j].target /\ call'[j].closed = call[j].closed
    BY <1>0, <1>9 DEF Tick, CallType
  <2>2. \A j \in Calls : wire'[j] > 0 => wire[j] > 0
    BY <1>0, <1>9 DEF Tick
  <2>3. \A a \in ackWire' : \E b \in ackWire : b.seq = a.seq
    <3>1. \A b \in ackWire : [b EXCEPT !.life = @ - 1].seq = b.seq
      BY DEF TypeOK
    <3> QED
      BY <1>9, <3>1 DEF Tick
  <2>4. Sent' = Sent /\ UNCHANGED <<inHand, handled>>
    BY <1>9, <2>1 DEF Tick, Sent
  <2>5. \A j \in Sent : Taken(j) => Taken(j)'
    BY <1>0, <2>1, <2>4 DEF Taken, Recipient
  <2> QED
    BY <1>0, <2>1, <2>2, <2>3, <2>4, <2>5, AckKept
<1>11. ASSUME NEW n \in Slaves, Restart(n) PROVE AckInv'
  <2>1. \A j \in Calls : /\ call'[j].seq = call[j].seq /\ call'[j].closed = call[j].closed
                         /\ call'[j].target = call[j].target
                         /\ j \in Sent => j \in Sent'
    BY <1>0, <1>11 DEF Restart, Orphaned, CallType, Sent
  <2>2. /\ inHand' = [inHand EXCEPT ![n] = 0] /\ UNCHANGED <<wire, ackWire>>
        /\ handled' = [i \in Calls |->
             IF call[i].target = n THEN Outlived(handled[i], inHand[n] = i) ELSE handled[i]]
    BY <1>11 DEF Restart, Recipient
  <2>3. ASSUME NEW j \in Sent, Taken(j) PROVE Taken(j)'
    <3>1. CASE call[j].target = n
      BY <1>0, <2>1, <2>2, <2>3, <3>1 DEF Taken, Recipient, Outlived
    <3>2. CASE call[j].target # n
      BY <1>0, <2>1, <2>2, <2>3, <3>2 DEF Taken, Recipient
    <3> QED
      BY <3>1, <3>2
  <2>4. \A m \in Nodes : inHand'[m] = inHand[m] \/ inHand'[m] = 0
    BY <1>0, <2>2
  <2> QED
    BY <1>0, <2>1, <2>2, <2>3, <2>4, AckKept
<1> QED
  BY <1>2, <1>3, <1>4, <1>5, <1>6, <1>7, <1>8, <1>9, <1>11, <1>12, <1>13, <1>14
     DEF Next, flushRecentMessages, vars

(* A sender is told of an ack only when a message of that number has been     *)
(* taken up by the process it was sent to.                                    *)
THEOREM AckTheorem == Spec => []AckMeansTaken
<1>1. Init => AckInv
  BY DEF Init, AckInv, Sent, Unused
<1>2. Init => PendingInv
  BY DEF Init, PendingInv, Unused
<1>3. AckInv => AckMeansTaken
  BY DEF AckInv, AckMeansTaken, Sent
<1> QED
  BY <1>1, <1>2, <1>3, TypeCorrect, PendingInductive, AckInductive, PTL DEF Spec

-----------------------------------------------------------------------------
(* The recipient of i remembers it, since a time that leaves no room for      *)
(* another copy after it has been forgotten: the last copy was sent           *)
(* interval - 1 after the first one.                                          *)
Remembered(i) ==
  \E r \in recent[call[i].target][call[i].kind] :
    /\ r.seq = call[i].seq
    /\ wire[i] > 0 => r.age + wire[i] <= call[i].interval - 1 + NetworkDelay
    /\ Running(i) => r.age <= 2 * call[i].interval - 1 - call[i].wait

InHand(i) == \E n \in Nodes : inHand[n] = i

OnceAt(b, i) ==
  /\ i \notin Sent => wire[i] = 0 /\ call[i].retries = 0 /\ ~InHand(i)
  /\ i \notin Sent /\ call[i].state # "own" => handled[i] = "never"
  /\ i \in Sent => /\ call[i].retries \in 0 .. (messageMaxRetries - 1)
                   /\ call[i].interval = b[call[i].retries]
                   /\ call[i].wait <= call[i].interval
  /\ Running(i) /\ wire[i] > 0 => wire[i] + call[i].interval <= NetworkDelay + call[i].wait
  /\ handled[i] # "twice"
  /\ \A n \in Nodes : inHand[n] = i => n = call[i].target /\ handled[i] # "once"
  /\ (handled[i] = "once" \/ InHand(i)) /\ (wire[i] > 0 \/ (Running(i) /\ call[i].retries + 1 < messageMaxRetries))
       => Remembered(i)

OnceInv(b) == \A i \in Calls : OnceAt(b, i)

(* The ages and lives that an entry of a duplicate map and the message it     *)
(* stands for can have.                                                       *)
LEMMA NotExpired ==
  ASSUME NEW b, Backoff(b), TypeOK, NEW i \in Calls, OnceAt(b, i),
         wire[i] > 0 \/ (Running(i) /\ call[i].retries + 1 < messageMaxRetries),
         NEW r \in [seq : Nat, age : 0 .. (messageTimeout + 1)],
         wire[i] > 0 => r.age + wire[i] <= call[i].interval - 1 + NetworkDelay,
         Running(i) => r.age <= 2 * call[i].interval - 1 - call[i].wait
  PROVE  ~Expired(r)
<1>1. /\ {messageMaxRetries, messageTimeout, NetworkDelay} \subseteq Nat \ {0}
      /\ call[i] \in CallType /\ wire[i] \in 0 .. NetworkDelay
  BY BoundsAssumption DEF TypeOK, CallType, States
<1>2. i \in Sent
  BY <1>1 DEF OnceAt, Running, Sent
<1>3. /\ call[i].retries \in 0 .. (messageMaxRetries - 1)
      /\ call[i].interval = b[call[i].retries] /\ call[i].interval \in Nat /\ call[i].wait \in Nat
      /\ call[i].interval \in 1 .. (messageTimeout + 2 - NetworkDelay)
  BY <1>1, <1>2 DEF OnceAt, Backoff, CallType
<1>4. CASE wire[i] > 0
  BY <1>1, <1>3, <1>4 DEF Expired
<1>5. CASE Running(i) /\ call[i].retries + 1 < messageMaxRetries
  <2>1. call[i].retries + 1 \in 1 .. (messageMaxRetries - 1)
        /\ call[i].retries + 1 - 1 = call[i].retries
    BY <1>1, <1>3, <1>5
  <2>2. b[call[i].retries + 1] = 2 * call[i].interval
        /\ b[call[i].retries + 1] \in 1 .. (messageTimeout + 2 - NetworkDelay)
    BY <1>3, <2>1 DEF Backoff
  <2> QED BY <1>1, <1>3, <1>5, <2>2 DEF Expired
<1> QED BY <1>4, <1>5

(* Steps that leave a message, its copies and what its recipient knows of it  *)
(* alone.                                                                     *)
LEMMA OnceKept ==
  ASSUME NEW b, NEW i \in Calls, OnceAt(b, i), TypeOK,
         call'[i] = call[i], wire'[i] = wire[i], handled'[i] = handled[i],
         \A n \in Nodes : inHand'[n] = i <=> inHand[n] = i,
         recent[call[i].target][call[i].kind] \subseteq recent'[call[i].target][call[i].kind]
  PROVE  OnceAt(b, i)'
<1>1. (i \in Sent <=> i \in Sent') /\ (Running(i) <=> Running(i)')
  BY DEF Sent, Running
<1>2. Remembered(i) => Remembered(i)'
  BY <1>1 DEF Remembered
<1>3. (InHand(i)' <=> InHand(i)) /\ (i \in Calls => call[i].target \in Nodes)
  BY DEF InHand, TypeOK
<1> QED BY <1>1, <1>2, <1>3 DEF OnceAt

(* Every step keeps OnceInv, in which b are the retry intervals. *)
LEMMA OnceInductive ==
  ASSUME NEW b, Backoff(b), TypeOK, TypeOK', OnceInv(b), [Next]_vars
  PROVE  OnceInv(b)'
<1> SUFFICES ASSUME NEW i \in Calls PROVE OnceAt(b, i)'
  BY DEF OnceInv
<1>0. /\ {messageMaxRetries, messageTimeout, NetworkDelay} \subseteq Nat \ {0}
      /\ call \in [Calls -> CallType] /\ call' \in [Calls -> CallType]
      /\ wire \in [Calls -> 0 .. NetworkDelay] /\ handled \in [Calls -> Handlings]
      /\ recent \in [Nodes -> [Kinds -> SUBSET [seq : Nat, age : 0 .. (messageTimeout + 1)]]]
      /\ call[i] \in CallType /\ wire[i] \in 0 .. NetworkDelay
      /\ call[i].target \in Nodes /\ call[i].kind \in Kinds
      /\ inHand \in [Nodes -> Calls \cup {0}]
      /\ OnceAt(b, i)
  BY BoundsAssumption DEF TypeOK, CallType, States, OnceInv
<1>15. 0 \notin Calls
  BY BoundsAssumption DEF Calls
<1>1. ASSUME NEW j \in Calls, NEW kind \in Kinds, NEW sender \in Nodes, NEW target \in Nodes,
             LoadCounter(j, kind, sender, target)
      PROVE  OnceAt(b, i)'
  <2>1. CASE i # j
    BY <1>0, <1>1, <2>1, OnceKept DEF LoadCounter
  <2>2. CASE i = j
    <3>1. call[i].state = "unused" /\ call'[i].state = "loaded" /\ call'[i].retries = call[i].retries
          /\ UNCHANGED <<wire, inHand, handled>>
      BY <1>0, <1>1, <2>2 DEF LoadCounter, CallType
    <3> QED BY <1>0, <3>1 DEF OnceAt, Sent, Running, InHand
  <2> QED BY <2>1, <2>2
<1>2. ASSUME NEW j \in Calls, StoreCounter(j) PROVE OnceAt(b, i)'
  <2>1. CASE i # j
    BY <1>0, <1>2, <2>1, OnceKept DEF StoreCounter
  <2>2. CASE i = j
    <3>1. call[i].state = "loaded" /\ call'[i].state = "stored" /\ call'[i].retries = call[i].retries
          /\ UNCHANGED <<wire, inHand, handled>>
      BY <1>0, <1>2, <2>2 DEF StoreCounter, CallType
    <3> QED BY <1>0, <3>1 DEF OnceAt, Sent, Running, InHand
  <2> QED BY <2>1, <2>2
<1>3. ASSUME NEW j \in Calls, reliablePacketTransmit(j) PROVE OnceAt(b, i)'
  <2>1. CASE i # j
    BY <1>0, <1>3, <2>1, OnceKept DEF reliablePacketTransmit
  <2>2. CASE i = j
    <3>1. /\ call[i].state = "stored" /\ call'[i].state = "waiting"
          /\ call'[i].retries = call[i].retries /\ call'[i].interval = 1 /\ call'[i].wait = 1
          /\ wire'[i] = NetworkDelay /\ UNCHANGED <<inHand, handled>>
      BY <1>0, <1>3, <2>2 DEF reliablePacketTransmit, CallType
    <3>2. i \notin Sent /\ i \in Sent' /\ handled[i] = "never" /\ call[i].retries = 0
      BY <1>0, <3>1 DEF OnceAt, Sent
    <3>3. b[0] = 1 /\ 0 \in 0 .. (messageMaxRetries - 1)
      BY <1>0 DEF Backoff
    <3> QED BY <1>0, <3>1, <3>2, <3>3 DEF OnceAt, InHand
  <2> QED BY <2>1, <2>2
<1>4. ASSUME NEW j \in Calls, Retry(j) PROVE OnceAt(b, i)'
  <2>1. CASE i # j
    BY <1>0, <1>4, <2>1, OnceKept DEF Retry
  <2>2. CASE i = j
    <3>1. /\ Running(i) /\ Running(i)' /\ i \in Sent /\ i \in Sent'
          /\ call[i].wait = 0 /\ call[i].retries + 1 < messageMaxRetries
          /\ call'[i].retries = call[i].retries + 1
          /\ call'[i].interval = 2 * call[i].interval /\ call'[i].wait = 2 * call[i].interval
          /\ call'[i].seq = call[i].seq /\ call'[i].target = call[i].target
          /\ call'[i].kind = call[i].kind
          /\ wire'[i] = NetworkDelay /\ UNCHANGED <<inHand, handled, recent>>
      BY <1>0, <1>4, <2>2 DEF Retry, CallType, Running, Sent
    <3>2. /\ call[i].retries \in Nat /\ call[i].interval \in Nat /\ call[i].wait \in Nat
          /\ call[i].interval = b[call[i].retries]
      BY <1>0, <3>1 DEF OnceAt, CallType
    <3>3. /\ call[i].retries + 1 \in 1 .. (messageMaxRetries - 1)
          /\ call[i].retries + 1 - 1 = call[i].retries
          /\ call[i].retries + 1 \in 0 .. (messageMaxRetries - 1)
      BY <1>0, <3>1, <3>2
    <3>4. b[call[i].retries + 1] = 2 * call[i].interval
      BY <3>2, <3>3 DEF Backoff
    <3>5. Remembered(i) => Remembered(i)'
      <4>1. \A r \in recent[call[i].target][call[i].kind] : r.age \in Nat
        BY <1>0
      <4> QED BY <1>0, <3>1, <3>2, <4>1 DEF Remembered
    <3> QED BY <1>0, <3>1, <3>2, <3>3, <3>4, <3>5 DEF OnceAt, InHand
  <2> QED BY <2>1, <2>2
<1>5. ASSUME NEW j \in Calls, GiveUp(j) \/ AckReceived(j) PROVE OnceAt(b, i)'
  <2>1. CASE i # j
    BY <1>0, <1>5, <2>1, OnceKept DEF GiveUp, AckReceived
  <2>2. CASE i = j
    <3>1. /\ i \in Sent /\ i \in Sent' /\ ~Running(i)' /\ UNCHANGED <<wire, inHand, handled, recent>>
          /\ call'[i].retries = call[i].retries /\ call'[i].interval = call[i].interval
          /\ call'[i].seq = call[i].seq /\ call'[i].target = call[i].target
          /\ call'[i].kind = call[i].kind
          /\ call'[i].wait = call[i].wait \/ call'[i].wait = 0
      <4>1. CASE GiveUp(i)
        BY <1>0, <4>1 DEF GiveUp, CallType, Running, Sent
      <4>2. CASE AckReceived(i)
        BY <1>0, <4>2 DEF AckReceived, CallType, Running, Sent
      <4> QED BY <1>5, <2>2, <4>1, <4>2
    <3>2. Remembered(i) => Remembered(i)'
      BY <3>1 DEF Remembered
    <3>3. call[i].interval \in Nat
      BY <1>0 DEF CallType
    <3> QED BY <1>0, <3>1, <3>2, <3>3 DEF OnceAt, InHand
  <2> QED BY <2>1, <2>2
<1>6. ASSUME NEW n \in Nodes, NEW ack \in ackWire, ReceiveAck(n, ack) PROVE OnceAt(b, i)'
  <2>1. PICK p \in pendingAcks[n] : call' = [call EXCEPT ![p.call].closed = TRUE]
    BY <1>6 DEF ReceiveAck
  <2>2. /\ call'[i].state = call[i].state /\ call'[i].seq = call[i].seq
        /\ call'[i].retries = call[i].retries /\ call'[i].interval = call[i].interval
        /\ call'[i].wait = call[i].wait
        /\ call'[i].target = call[i].target /\ call'[i].kind = call[i].kind
        /\ UNCHANGED <<wire, inHand, handled, recent>>
    BY <1>0, <1>6, <2>1 DEF ReceiveAck, CallType
  <2> QED BY <1>0, <2>2 DEF OnceAt, Remembered, Sent, Running, InHand
<1>7. ASSUME NEW j \in Calls, receiveMessage(j) PROVE OnceAt(b, i)'
  <2> DEFINE n == call[j].target
             kind == call[j].kind
             seq == call[j].seq
  <2>1. n \in Nodes /\ kind \in Kinds /\ seq \in Nat
    BY <1>0 DEF CallType
  <2>2. /\ inHand[n] = 0 /\ wire[j] > 0 /\ ~Known(n, kind, seq)
        /\ recent' = [recent EXCEPT ![n][kind] = @ \cup {[seq |-> seq, age |-> 0]}]
        /\ inHand' = [inHand EXCEPT ![n] = j]
        /\ UNCHANGED <<call, wire, handled>>
    BY <1>7 DEF receiveMessage, Recipient, Remember
  <2>3. CASE i # j
    <3>1. recent[call[i].target][call[i].kind] \subseteq recent'[call[i].target][call[i].kind]
      BY <1>0, <2>1, <2>2
    <3>2. call'[i] = call[i] /\ wire'[i] = wire[i] /\ handled'[i] = handled[i]
      BY <1>0, <2>2, <2>3
    <3>3. \A m \in Nodes : inHand'[m] = i <=> inHand[m] = i
      BY <1>0, <1>15, <2>1, <2>2, <2>3
    <3> QED BY <1>0, <3>1, <3>2, <3>3, OnceKept
  <2>4. CASE i = j
    <3>1. [seq |-> seq, age |-> 0] \in recent'[call'[i].target][call'[i].kind]
      BY <1>0, <2>1, <2>2, <2>4
    <3>2. handled[i] # "once" /\ handled'[i] = handled[i]
      BY <1>0, <2>2, <2>4 DEF OnceAt, Remembered, Known
    <3>3. \A m \in Nodes : inHand'[m] = i => m = call'[i].target
      BY <1>0, <2>1, <2>2, <2>4 DEF OnceAt
    <3>4. i \in Sent /\ i \in Sent' /\ call'[i] = call[i] /\ wire'[i] = wire[i]
          /\ Running(i)' = Running(i)
      BY <1>0, <2>2, <2>4 DEF OnceAt, Sent, Running
    <3>5. /\ call[i].interval \in 1 .. (messageTimeout + 2 - NetworkDelay)
          /\ call[i].wait \in Nat /\ call[i].wait <= call[i].interval
      BY <1>0, <3>4 DEF OnceAt, Backoff, CallType
    <3>6. Remembered(i)'
      <4> DEFINE entry == [seq |-> seq, age |-> 0]
      <4>1. entry.seq = call[i].seq /\ entry.age = 0
        BY <2>4
      <4>2. entry \in recent'[call'[i].target][call'[i].kind]
        BY <3>1
      <4> HIDE DEF entry
      <4>3. entry.age + wire[i] <= call[i].interval - 1 + NetworkDelay
        BY <1>0, <3>5, <4>1
      <4>4. entry.age <= 2 * call[i].interval - 1 - call[i].wait
        BY <1>0, <3>5, <4>1
      <4> QED BY <3>4, <4>1, <4>2, <4>3, <4>4 DEF Remembered
    <3> QED BY <1>0, <3>2, <3>3, <3>4, <3>6 DEF OnceAt
  <2> QED BY <2>3, <2>4
<1>12. ASSUME NEW n \in Nodes, processMessage(n) PROVE OnceAt(b, i)'
  <2>1. /\ inHand[n] \in Calls
        /\ inHand' = [inHand EXCEPT ![n] = 0]
        /\ handled' = [handled EXCEPT ![inHand[n]] = Again(@)]
        /\ UNCHANGED <<call, wire, recent>>
    BY <1>0, <1>12 DEF processMessage
  <2>2. CASE i # inHand[n]
    <3>1. \A m \in Nodes : inHand'[m] = i <=> inHand[m] = i
      BY <1>0, <1>15, <2>1, <2>2
    <3> QED BY <1>0, <2>1, <2>2, <3>1, OnceKept
  <2>3. CASE i = inHand[n]
    <3>1. InHand(i) /\ handled[i] \notin {"once", "twice"} /\ n = call[i].target
      BY <1>0, <2>3 DEF InHand, OnceAt
    <3>2. handled'[i] = "once"
      BY <1>0, <2>1, <2>3, <3>1 DEF Again
    <3>3. ~InHand(i)'
      BY <1>0, <1>15, <2>1, <2>3, <3>1 DEF InHand, OnceAt
    <3>4. i \in Sent /\ i \in Sent' /\ Running(i)' = Running(i)
      BY <1>0, <2>1, <3>1 DEF OnceAt, Sent, Running
    <3>5. Remembered(i) => Remembered(i)'
      BY <2>1, <3>4 DEF Remembered
    <3> QED BY <1>0, <1>15, <2>1, <3>1, <3>2, <3>3, <3>4, <3>5 DEF OnceAt
  <2> QED BY <2>2, <2>3
<1>13. ASSUME NEW n \in Nodes, acknowledgeAgain(n) PROVE OnceAt(b, i)'
  BY <1>0, <1>13, OnceKept DEF acknowledgeAgain
<1>14. ASSUME NEW j \in Calls, ownOrderStatus(j) PROVE OnceAt(b, i)'
  <2>1. CASE i # j
    <3>1. recent' = recent \/ Remember(Master, call[j].kind, counter[Master][call[j].kind])
      BY <1>14 DEF ownOrderStatus
    <3>2. recent[call[i].target][call[i].kind] \subseteq recent'[call[i].target][call[i].kind]
      BY <1>0, <1>15, <3>1 DEF Remember
    <3> QED BY <1>0, <1>14, <2>1, <3>2, OnceKept DEF ownOrderStatus
  <2>2. CASE i = j
    <3>1. /\ call[i].state = "stored" /\ call'[i].state = "own"
          /\ call'[i].retries = call[i].retries /\ UNCHANGED <<wire, inHand>>
          /\ handled'[i] = handled[i] \/ handled'[i] = "once"
      BY <1>0, <1>14, <2>2 DEF ownOrderStatus, CallType
    <3> QED BY <1>0, <3>1 DEF OnceAt, Sent, Running, InHand
  <2> QED BY <2>1, <2>2
<1>8. ASSUME NEW n \in Nodes, flushRecentMessages(n) PROVE OnceAt(b, i)'
  <2>1. UNCHANGED <<call, wire, inHand, handled>>
        /\ \A r \in recent[call[i].target][call[i].kind] :
             ~Expired(r) => r \in recent'[call[i].target][call[i].kind]
    BY <1>0, <1>8 DEF flushRecentMessages
  <2>2. Running(i)' = Running(i) /\ (i \in Sent' <=> i \in Sent) /\ InHand(i)' = InHand(i)
    BY <2>1 DEF Running, Sent, InHand
  <2>3. ASSUME wire[i] > 0 \/ (Running(i) /\ call[i].retries + 1 < messageMaxRetries), Remembered(i)
        PROVE  Remembered(i)'
    <3>1. PICK r \in recent[call[i].target][call[i].kind] :
             /\ r.seq = call[i].seq
             /\ wire[i] > 0 => r.age + wire[i] <= call[i].interval - 1 + NetworkDelay
             /\ Running(i) => r.age <= 2 * call[i].interval - 1 - call[i].wait
      BY <2>3 DEF Remembered
    <3>2. r \in [seq : Nat, age : 0 .. (messageTimeout + 1)]
      BY <1>0
    <3>3. ~Expired(r)
      BY <1>0, <2>3, <3>1, <3>2, NotExpired
    <3> QED BY <2>1, <2>2, <3>1, <3>3 DEF Remembered
  <2> QED BY <1>0, <2>1, <2>2, <2>3 DEF OnceAt
<1>9. CASE Tick
  <2>1. /\ call'[i].state = call[i].state /\ call'[i].seq = call[i].seq
        /\ call'[i].retries = call[i].retries /\ call'[i].interval = call[i].interval
        /\ call'[i].target = call[i].target /\ call'[i].kind = call[i].kind
        /\ call'[i].wait = IF Running(i) THEN call[i].wait - 1 ELSE call[i].wait
        /\ Running(i) => call[i].wait > 0
        /\ wire'[i] = IF wire[i] > 0 THEN wire[i] - 1 ELSE 0
        /\ UNCHANGED <<inHand, handled>>
    BY <1>0, <1>9 DEF Tick, CallType, Running
  <2>2. Running(i)' = Running(i) /\ (i \in Sent' <=> i \in Sent) /\ InHand(i)' = InHand(i)
    BY <2>1 DEF Running, Sent, InHand
  <2>3. /\ call[i].interval \in Nat /\ call[i].wait \in Nat /\ call[i].retries \in Nat
    BY <1>0 DEF CallType
  <2>4. ASSUME wire'[i] > 0 \/ (Running(i) /\ call[i].retries + 1 < messageMaxRetries), Remembered(i)
        PROVE  Remembered(i)'
    <3>1. PICK r \in recent[call[i].target][call[i].kind] :
             /\ r.seq = call[i].seq
             /\ wire[i] > 0 => r.age + wire[i] <= call[i].interval - 1 + NetworkDelay
             /\ Running(i) => r.age <= 2 * call[i].interval - 1 - call[i].wait
      BY <2>4 DEF Remembered
    <3>2. r \in [seq : Nat, age : 0 .. (messageTimeout + 1)]
      BY <1>0
    <3>3. ~Expired(r)
      BY <1>0, <2>1, <2>4, <3>1, <3>2, NotExpired
    <3> DEFINE older == [r EXCEPT !.age = @ + 1]
    <3>4. older \in recent'[call[i].target][call[i].kind]
      BY <1>0, <1>9, <3>3 DEF Tick
    <3>5. older.seq = r.seq /\ older.age = r.age + 1 /\ r.age \in Nat
      BY <3>2
    <3> HIDE DEF older
    <3>6. wire'[i] > 0 => older.age + wire'[i] <= call'[i].interval - 1 + NetworkDelay
      BY <1>0, <2>1, <2>3, <3>1, <3>5
    <3>7. Running(i) => older.age <= 2 * call'[i].interval - 1 - call'[i].wait
      BY <1>0, <2>1, <2>3, <3>1, <3>5
    <3> QED BY <2>1, <2>2, <3>1, <3>4, <3>5, <3>6, <3>7 DEF Remembered
  <2> QED BY <1>0, <2>1, <2>2, <2>3, <2>4 DEF OnceAt
<1>10. ASSUME NEW n \in Slaves, Restart(n) PROVE OnceAt(b, i)'
  <2>1. /\ call'[i].seq = call[i].seq /\ call'[i].retries = call[i].retries
        /\ call'[i].interval = call[i].interval /\ call'[i].wait = call[i].wait
        /\ call'[i].target = call[i].target /\ call'[i].kind = call[i].kind
        /\ UNCHANGED wire
        /\ i \in Sent' <=> i \in Sent
        /\ Running(i)' => Running(i)
    BY <1>0, <1>10 DEF Restart, Orphaned, CallType, Running, Sent
  <2>2. /\ handled'[i] = "once" => handled[i] = "once" /\ call[i].target # n
        /\ handled'[i] # "twice"
        /\ handled[i] = "never" /\ ~InHand(i) => handled'[i] = "never"
    BY <1>0, <1>10 DEF Restart, Recipient, Outlived, OnceAt, InHand, Nodes
  <2>3. call[i].target # n => recent'[call[i].target] = recent[call[i].target]
    BY <1>0, <1>10 DEF Restart
  <2>4. call[i].target # n /\ Remembered(i) => Remembered(i)'
    BY <2>1, <2>3 DEF Remembered
  <2>5. /\ InHand(i)' => InHand(i) /\ call[i].target # n
        /\ \A m \in Nodes : inHand'[m] = i => inHand[m] = i
    BY <1>0, <1>15, <1>10 DEF Restart, InHand, OnceAt
  <2>6. call'[i].state = "own" <=> call[i].state = "own"
    BY <1>0, <1>10 DEF Restart, Orphaned
  <2> QED BY <1>0, <2>1, <2>2, <2>4, <2>5, <2>6 DEF OnceAt
<1>11. CASE UNCHANGED vars
  BY <1>0, <1>11, OnceKept DEF vars
<1> QED
  BY <1>1, <1>2, <1>3, <1>4, <1>5, <1>6, <1>7, <1>8, <1>9, <1>10, <1>11, <1>12, <1>13, <1>14
     DEF Next

(* No process handles a message twice, however often it is sent and in        *)
(* whatever order its copies arrive, when the last copy is gone before the    *)
(* duplicate map forgets the first.                                           *)
THEOREM OnceTheorem == CopiesDieFirst => (Spec => []AtMostOnce)
<1> SUFFICES ASSUME CopiesDieFirst PROVE Spec => []AtMostOnce
  OBVIOUS
<1>1. PICK b : Backoff(b)
  BY DEF CopiesDieFirst
<1>2. Init => OnceInv(b)
  BY DEF Init, OnceInv, OnceAt, Sent, Running, Unused, InHand, Calls
<1>3. TypeOK /\ TypeOK' /\ OnceInv(b) /\ [Next]_vars => OnceInv(b)'
  BY <1>1, OnceInductive
<1>4. OnceInv(b) => AtMostOnce
  BY DEF OnceInv, OnceAt, AtMostOnce
<1> QED
  BY <1>2, <1>3, <1>4, TypeCorrect, PTL DEF Spec
==============================================================================
