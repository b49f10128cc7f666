--------------------------- MODULE ReliablePackets ---------------------------
(***************************************************************************)
(* The four kinds of messages between the elevators: the Send functions    *)
(* and reliablePacketTransmit of communication/sending.go, the ack case of *)
(* the loop in communication.go, and the duplicate maps of the receiving   *)
(* handlers in singleElevator/orderHandler.go, over a UDP broadcast        *)
(* network that loses, delays and duplicates.  The unit of time is the     *)
(* first retry interval, 200 ms.                                           *)
(***************************************************************************)
EXTENDS Integers

CONSTANTS
  Master, Slaves,      \* config.MasterID and the other elevators
  FirstSeq,            \* where the counter of each kind starts
  messageMaxRetries,
  messageTimeout,      \* age after which a duplicate map forgets a message
  NetworkDelay,        \* how long a copy can be under way, the receiver's
                       \* channel included
  MaxSends             \* bound on the messages sent

Kinds == {"Assignment", "RawHallCall", "OrderStatus", "LightOrder"}
Nodes == Slaves \cup {Master}
Calls == 1 .. MaxSends

ASSUME NodesAssumption == Master \notin Slaves
ASSUME FirstSeqAssumption == FirstSeq \in [Kinds -> Nat]
ASSUME BoundsAssumption ==
  {messageMaxRetries, messageTimeout, NetworkDelay, MaxSends} \subseteq Nat \ {0}

VARIABLES
  counter,      \* the four sequence counters of every process
  call,         \* the calls of a Send function and their goroutines
  pendingAcks,  \* per process, the ack channels by sequence number
  wire,         \* per call, how long its last copy stays under way
  ackWire,      \* the acks under way, by sequence number
  recent,       \* the recent...Messages maps of every process, with ages
  inHand,       \* per process, the message its loop is acknowledging, or 0
  handled       \* history: whether a message has been processed

vars == <<counter, call, pendingAcks, wire, ackWire, recent, inHand, handled>>

Unused == [state |-> "unused", kind |-> "Assignment", sender |-> Master, target |-> Master,
           seq |-> 0, retries |-> 0, interval |-> 0, wait |-> 0, closed |-> FALSE]

(* A message has been processed once or twice by the present process of its    *)
(* recipient, or only by one that has been restarted since, or that one died  *)
(* with the message in hand.                                                  *)
Handlings == {"never", "once", "twice", "forgotten", "lost"}

Again(h) == IF h \in {"once", "twice"} THEN "twice" ELSE "once"

Running(i) == call[i].state = "waiting"
Sent == {i \in Calls : call[i].state \in {"waiting", "acked", "failed", "died"}}

(* Who sends what to whom.  The master sends its order statuses to itself. *)
Route(kind, sender, target) ==
  CASE kind \in {"Assignment", "LightOrder"} -> sender = Master /\ target \in Slaves
    [] kind = "RawHallCall"                 -> sender \in Slaves /\ target = Master
    [] kind = "OrderStatus"                 -> target = Master

Init ==
  /\ counter = [n \in Nodes |-> FirstSeq]
  /\ call = [i \in Calls |-> Unused]
  /\ pendingAcks = [n \in Nodes |-> {}]
  /\ wire = [i \in Calls |-> 0]
  /\ ackWire = {}
  /\ recent = [n \in Nodes |-> [k \in Kinds |-> {}]]
  /\ inHand = [n \in Nodes |-> 0]
  /\ handled = [i \in Calls |-> "never"]

-----------------------------------------------------------------------------
(* A Send function: counter++ is a load and a store, and the message then     *)
(* takes its number from the counter once more.  Assignments, raw hall calls  *)
(* and order statuses are sent from goroutines of their own with nothing to   *)
(* order the three accesses; light orders from one loop.                      *)
LoadCounter(i, kind, sender, target) ==
  /\ call[i].state = "unused" /\ \A j \in 1 .. (i - 1) : call[j].state # "unused"
  /\ Route(kind, sender, target)
  /\ kind = "LightOrder" =>
       \A j \in Calls : call[j].kind = kind => call[j].state \notin {"loaded", "stored"}
  /\ call' = [call EXCEPT ![i] =
       [@ EXCEPT !.state = "loaded", !.kind = kind, !.sender = sender, !.target = target,
                 !.seq = counter[sender][kind]]]
  /\ UNCHANGED <<counter, pendingAcks, wire, ackWire, recent, inHand, handled>>

StoreCounter(i) ==
  /\ call[i].state = "loaded"
  /\ counter' = [counter EXCEPT ![call[i].sender][call[i].kind] = call[i].seq + 1]
  /\ call' = [call EXCEPT ![i].state = "stored"]
  /\ UNCHANGED <<pendingAcks, wire, ackWire, recent, inHand, handled>>

Forget(pending, seq) == {p \in pending : p.seq # seq}

(* reliablePacketTransmit registers its ack channel and sends the message. *)
reliablePacketTransmit(i) ==
  LET n == call[i].sender
      seq == counter[n][call[i].kind]
  IN  /\ call[i].state = "stored" /\ n # call[i].target
      /\ call' = [call EXCEPT ![i] =
           [@ EXCEPT !.state = "waiting", !.seq = seq, !.interval = 1, !.wait = 1]]
      /\ pendingAcks' = [pendingAcks EXCEPT ![n] =
           Forget(@, seq) \cup {[seq |-> seq, call |-> i]}]
      /\ wire' = [wire EXCEPT ![i] = NetworkDelay]
      /\ UNCHANGED <<counter, ackWire, recent, inHand, handled>>

(* Slip: the retries are not counted. *)
RetryForever(i) ==
  /\ Running(i) /\ call[i].wait = 0
  /\ call' = [call EXCEPT ![i].wait = call[i].interval]
  /\ wire' = [wire EXCEPT ![i] = NetworkDelay]
  /\ UNCHANGED <<counter, pendingAcks, ackWire, recent, inHand, handled>>

(* The timeout of its select, which may win over an ack: send again with the  *)
(* interval doubled, or give up.                                              *)
Retry(i) ==
  /\ Running(i) /\ call[i].wait = 0 /\ call[i].retries + 1 < messageMaxRetries
  /\ call' = [call EXCEPT ![i] =
       [@ EXCEPT !.retries = call[i].retries + 1, !.interval = 2 * call[i].interval,
                 !.wait = 2 * call[i].interval]]
  /\ wire' = [wire EXCEPT ![i] = NetworkDelay]
  /\ UNCHANGED <<counter, pendingAcks, ackWire, recent, inHand, handled>>

GiveUp(i) ==
  /\ Running(i) /\ call[i].wait = 0 /\ call[i].retries + 1 >= messageMaxRetries
  /\ call' = [call EXCEPT ![i].state = "failed"]
  /\ pendingAcks' = [pendingAcks EXCEPT ![call[i].sender] = Forget(@, call[i].seq)]
  /\ UNCHANGED <<counter, wire, ackWire, recent, inHand, handled>>

AckReceived(i) ==
  /\ Running(i) /\ call[i].closed
  /\ call' = [call EXCEPT ![i] = [@ EXCEPT !.state = "acked", !.wait = 0]]
  /\ UNCHANGED <<counter, pendingAcks, wire, ackWire, recent, inHand, handled>>

(* Slip: the ack case leaves the channel it closes in pendingAcks. *)
ReceiveAckKeeping(n, ack) ==
  /\ ack \in ackWire
  /\ \E p \in pendingAcks[n] :
       p.seq = ack.seq /\ call' = [call EXCEPT ![p.call].closed = TRUE]
  /\ UNCHANGED <<counter, pendingAcks, wire, ackWire, recent, inHand, handled>>

(* The ack case of the communication loop: whoever waits for the sequence     *)
(* number of the ack, whatever its TargetID.                                  *)
ReceiveAck(n, ack) ==
  /\ ack \in ackWire
  /\ \E p \in pendingAcks[n] :
       /\ p.seq = ack.seq
       /\ call' = [call EXCEPT ![p.call].closed = TRUE]
       /\ pendingAcks' = [pendingAcks EXCEPT ![n] = Forget(@, ack.seq)]
  /\ UNCHANGED <<counter, wire, ackWire, recent, inHand, handled>>

-----------------------------------------------------------------------------
(* The handlers compare TargetID with LocalID, or LocalID with MasterID. *)
Recipient(i) == call[i].target

Known(n, kind, seq) == \E r \in recent[n][kind] : r.seq = seq

Remember(n, kind, seq) ==
  recent' = [recent EXCEPT ![n][kind] = @ \cup {[seq |-> seq, age |-> 0]}]

Acknowledge(seq) ==
  ackWire' = {a \in ackWire : a.seq # seq} \cup {[seq |-> seq, life |-> NetworkDelay]}

(* Slip: TargetID is compared only after the acks, before the processing. *)
receiveMessageOfOthers(i) ==
  \E n \in Nodes :
    /\ inHand[n] = 0 /\ wire[i] > 0 /\ ~Known(n, call[i].kind, call[i].seq)
    /\ Remember(n, call[i].kind, call[i].seq)
    /\ Acknowledge(call[i].seq)
    /\ inHand' = IF n = Recipient(i) THEN [inHand EXCEPT ![n] = i] ELSE inHand
    /\ UNCHANGED <<counter, call, pendingAcks, wire, handled>>

(* The main loop of the recipient takes up a copy: a known sequence number is *)
(* ignored, any other is remembered and acknowledged.                         *)
receiveMessage(i) ==
  LET n == Recipient(i)
      kind == call[i].kind
      seq == call[i].seq
  IN  /\ inHand[n] = 0 /\ wire[i] > 0 /\ ~Known(n, kind, seq)
      /\ Remember(n, kind, seq)
      /\ Acknowledge(seq)
      /\ inHand' = [inHand EXCEPT ![n] = i]
      /\ UNCHANGED <<counter, call, pendingAcks, wire, handled>>

(* The other two or nine acks, each after a sleep: how many is not counted. *)
acknowledgeAgain(n) ==
  /\ inHand[n] # 0
  /\ Acknowledge(call[inHand[n]].seq)
  /\ UNCHANGED <<counter, call, pendingAcks, wire, recent, inHand, handled>>

(* Only when all acks are sent the message is processed: the hall call handed *)
(* on, the order put into the queue, the lamp set.                            *)
processMessage(n) ==
  /\ inHand[n] # 0
  /\ inHand' = [inHand EXCEPT ![n] = 0]
  /\ handled' = [handled EXCEPT ![inHand[n]] = Again(@)]
  /\ UNCHANGED <<counter, call, pendingAcks, wire, ackWire, recent>>

(* An order status of the master itself goes through orderStatusChan: no ack, *)
(* no retries, but the duplicate map of the slaves' order statuses.           *)
ownOrderStatus(i) ==
  LET seq == counter[Master][call[i].kind]
  IN  /\ call[i].state = "stored" /\ call[i].sender = call[i].target
      /\ inHand[Master] = 0
      /\ call' = [call EXCEPT ![i] = [@ EXCEPT !.state = "own", !.seq = seq]]
      /\ \/ Known(Master, call[i].kind, seq) /\ UNCHANGED <<recent, handled>>
         \/ /\ ~Known(Master, call[i].kind, seq)
            /\ Remember(Master, call[i].kind, seq)
            /\ handled' = [handled EXCEPT ![i] = "once"]
      /\ UNCHANGED <<counter, pendingAcks, wire, ackWire, inHand>>

(* Slip: flushRecentMessages forgets everything it finds. *)
ExpiredAtOnce(r) == r.age > 0

(* Slip: it never runs. *)
ExpiredNever(r) == FALSE

Expired(r) == r.age > messageTimeout

(* flushRecentMessages, at any time: the phase of its period is not known. *)
flushRecentMessages(n) ==
  /\ \E k \in Kinds : \E r \in recent[n][k] : Expired(r)
  /\ recent' = [recent EXCEPT ![n] = [k \in Kinds |-> {r \in recent[n][k] : ~Expired(r)}]]
  /\ UNCHANGED <<counter, call, pendingAcks, wire, ackWire, inHand, handled>>

(* Time passes when the senders have done what is due.  Copies and acks that  *)
(* are still under way at the end of their life are lost, and ages stop       *)
(* counting when they are past messageTimeout.                                *)
Tick ==
  /\ \A i \in Calls :
       /\ call[i].state \notin {"loaded", "stored"}
       /\ Running(i) => call[i].wait > 0 /\ ~call[i].closed
  /\ call' = [i \in Calls |-> IF Running(i) THEN [call[i] EXCEPT !.wait = @ - 1] ELSE call[i]]
  /\ wire' = [i \in Calls |-> IF wire[i] > 0 THEN wire[i] - 1 ELSE 0]
  /\ ackWire' = {[a EXCEPT !.life = @ - 1] : a \in {b \in ackWire : b.life > 1}}
  /\ recent' = [n \in Nodes |-> [k \in Kinds |->
       {IF Expired(r) THEN r ELSE [r EXCEPT !.age = @ + 1] : r \in recent[n][k]}]]
  /\ UNCHANGED <<counter, pendingAcks, inHand, handled>>

(* What becomes of a message whose sender dies. *)
Orphaned(state) ==
  IF state = "waiting" THEN "died" ELSE IF state \in {"loaded", "stored"} THEN "unsent" ELSE state

(* What becomes of a message whose recipient dies. *)
Outlived(handling, dropped) ==
  CASE handling = "once"              -> "forgotten"
    [] handling = "never" /\ dropped  -> "lost"
    [] OTHER                          -> handling

(* The process of a slave dies and its supervisor starts another: counters     *)
(* and maps are as at the beginning and its goroutines are gone.  (With       *)
(* another process of the master there would be another master.)              *)
Restart(n) ==
  /\ counter' = [counter EXCEPT ![n] = FirstSeq]
  /\ call' = [i \in Calls |->
       IF call[i].sender = n THEN [call[i] EXCEPT !.state = Orphaned(@)] ELSE call[i]]
  /\ pendingAcks' = [pendingAcks EXCEPT ![n] = {}]
  /\ recent' = [recent EXCEPT ![n] = [k \in Kinds |-> {}]]
  /\ inHand' = [inHand EXCEPT ![n] = 0]
  /\ handled' = [i \in Calls |->
       IF Recipient(i) = n THEN Outlived(handled[i], inHand[n] = i) ELSE handled[i]]
  /\ UNCHANGED <<wire, ackWire>>

Next ==
  \/ \E i \in Calls :
       \/ \E kind \in Kinds, sender \in Nodes, target \in Nodes :
            LoadCounter(i, kind, sender, target)
       \/ StoreCounter(i) \/ reliablePacketTransmit(i)
       \/ Retry(i) \/ GiveUp(i) \/ AckReceived(i)
       \/ receiveMessage(i) \/ ownOrderStatus(i)
  \/ \E n \in Nodes :
       \/ acknowledgeAgain(n) \/ processMessage(n) \/ flushRecentMessages(n)
       \/ \E ack \in ackWire : ReceiveAck(n, ack)
  \/ \E n \in Slaves : Restart(n)
  \/ Tick

Spec == Init /\ [][Next]_vars

(* The goroutine of a message runs on, and so do the main loop in its handler *)
(* and time.                                                                  *)
Send(i) ==
  \/ StoreCounter(i) \/ reliablePacketTransmit(i) \/ ownOrderStatus(i)
  \/ Retry(i) \/ GiveUp(i) \/ AckReceived(i)

Fairness ==
  /\ \A i \in Calls : WF_vars(Send(i))
  /\ \A n \in Nodes : WF_vars(processMessage(n))
  /\ WF_vars(Tick)

FairSpec == Spec /\ Fairness

-----------------------------------------------------------------------------
TypeOK ==
  /\ counter \in [Nodes -> [Kinds -> Nat]]
  /\ call \in [Calls -> [state : {"unused", "loaded", "stored", "waiting", "acked", "failed",
                                  "died", "unsent", "own"},
                         kind : Kinds, sender : Nodes, target : Nodes, seq : Nat, retries : Nat,
                         interval : Nat, wait : Nat, closed : BOOLEAN]]
  /\ pendingAcks \in [Nodes -> SUBSET [seq : Nat, call : Calls]]
  /\ wire \in [Calls -> 0 .. NetworkDelay]
  /\ ackWire \subseteq [seq : Nat, life : 1 .. NetworkDelay]
  /\ recent \in [Nodes -> [Kinds -> SUBSET [seq : Nat, age : 0 .. (messageTimeout + 1)]]]
  /\ inHand \in [Nodes -> Calls \cup {0}]
  /\ handled \in [Calls -> Handlings]

(* The retry intervals, each the double of the one before and so one more     *)
(* than the sum of those before, are so short that the last copy of a message *)
(* is gone before a duplicate map that has seen the first one forgets it.     *)
Backoff(interval) ==
  /\ interval \in [0 .. (messageMaxRetries - 1) -> 1 .. (messageTimeout + 2 - NetworkDelay)]
  /\ interval[0] = 1
  /\ \A r \in 1 .. (messageMaxRetries - 1) : interval[r] = 2 * interval[r - 1]

CopiesDieFirst ==
  \E interval \in [0 .. (messageMaxRetries - 1) -> 1 .. (messageTimeout + 2 - NetworkDelay)] :
    Backoff(interval)

(* No process handles a message twice, provided that CopiesDieFirst.          *)
AtMostOnce == \A i \in Calls : handled[i] # "twice"

(* A channel in pendingAcks is open and somebody waits for it, so that        *)
(* close(ackChan) never panics, whatever numbers collide.                     *)
PendingIsOpen ==
  \A n \in Nodes : \A p \in pendingAcks[n] : Running(p.call) /\ ~call[p.call].closed

(* Its recipient has processed a message, is acknowledging it, or died while  *)
(* it was.                                                                    *)
Taken(i) == handled[i] # "never" \/ inHand[Recipient(i)] = i

(* No ack comes from nowhere: when a sender takes a message for acknowledged, *)
(* a message of that number has been taken up by the one it was sent to, over *)
(* copies, acks that arrive late or at the wrong process, numbers that        *)
(* collide and restarts.  It is not yet processed: the acks go first, and a   *)
(* process that dies after them loses it with nobody to send it again.        *)
AckMeansTaken ==
  \A i \in Sent : call[i].closed => \E j \in Sent : call[j].seq = call[i].seq /\ Taken(j)

(* Every message is given up or acknowledged in the end, unless its sender     *)
(* dies.                                                                      *)
TransmissionEnds ==
  \A i \in Calls :
    call[i].state # "unused" ~> call[i].state \in {"acked", "failed", "died", "unsent", "own"}

==============================================================================
