------------------------------ MODULE PeersProofs ------------------------------
(***************************************************************************)
(* Proofs about Peers, for any number of processes and any times that      *)
(* PromptAssumption allows.  The inductive invariant says, for a process   *)
(* that is up and for one that is down, how far its last read can lag      *)
(* behind what it sent: not at all when nothing of it waits in the socket, *)
(* and no longer than the backlog when something does.                     *)
(***************************************************************************)
EXTENDS Peers, TLAPS

(* Of a process that is up. *)
ReadInTime(p) ==
  p \in up \ {Local} =>
    /\ p \notin socket => lastSeen[p] <= silent[p] \/ since[p] <= silent[p]
    /\ p \in socket => lastSeen[p] <= Period + backlog \/ since[p] <= Period + backlog

LostInBacklog ==
  update # None => \A p \in update.lost \cap up : since[p] <= Period + backlog

(* Of a process that is down: once it is overdue the next iteration removes   *)
(* it, so that only a blocked receiver lets more time pass.                   *)
ReadSinceDown(p) ==
  p \in Ids \ up =>
    /\ p \in socket => since[p] <= backlog
    /\ p \in known \ socket =>
         IF lastSeen[p] <= Timeout THEN since[p] <= lastSeen[p] + MaxBacklog
         ELSE since[p] <= Timeout + MaxBacklog + (IF update = None THEN MaxBacklog ELSE backlog)

(* What the consumer does not know yet is in the update. *)
ViewFollows ==
  IF update = None THEN view = known
  ELSE known = (view \cup update.new) \ update.lost

PInv(p) == ReadInTime(p) /\ ReadSinceDown(p)

IInv ==
  /\ TypeOK /\ Local \in up
  /\ \A p \in Ids : PInv(p)
  /\ LostInBacklog /\ ViewFollows

-----------------------------------------------------------------------------
(* A count stays within its limit. *)
LEMMA OlderType ==
  ASSUME NEW limit \in Nat, NEW n \in 0 .. limit
  PROVE  /\ Older(n, limit) \in 0 .. limit
         /\ Older(n, limit) <= n + 1 /\ Older(n, limit) >= n
         /\ n < limit => Older(n, limit) = n + 1
BY DEF Older

(* LongAgo is a number that no bound of the invariants reaches. *)
LEMMA LongAgoType == LongAgo \in Nat /\ LongAgo > Timeout + 2 * MaxBacklog /\ LongAgo > Period
BY TimesAssumption, PromptAssumption DEF LongAgo

(* None is no update. *)
LEMMA UpdateIsNotNone == \A x \in Updates : x # None
BY NoneAssumption

-----------------------------------------------------------------------------
(* The invariant holds at the start. *)
LEMMA InitInv == Init => IInv
<1> SUFFICES ASSUME Init PROVE IInv
  OBVIOUS
<1> USE TimesAssumption, LocalAssumption, LongAgoType
<1>1. TypeOK /\ Local \in up
  BY DEF Init, TypeOK, Others
<1>2. ASSUME NEW p \in Ids PROVE PInv(p)
  BY DEF Init, PInv, ReadInTime, ReadSinceDown
<1>3. LostInBacklog /\ ViewFollows
  BY DEF Init, LostInBacklog, ViewFollows
<1> QED BY <1>1, <1>2, <1>3 DEF IInv

(* A process that goes down: whatever was sent is recent. *)
LEMMA GoDownInv == ASSUME IInv, NEW q \in Ids, GoDown(q) PROVE IInv'
<1> USE TimesAssumption, LocalAssumption, LongAgoType DEF GoDown, received, processes
<1>1. TypeOK' /\ (Local \in up)'
  BY DEF IInv, TypeOK
<1>2. ASSUME NEW p \in Ids PROVE PInv(p)'
  BY DEF IInv, TypeOK, PInv, ReadInTime, ReadSinceDown
<1>3. LostInBacklog' /\ ViewFollows'
  BY DEF IInv, TypeOK, LostInBacklog, ViewFollows
<1> QED BY <1>1, <1>2, <1>3 DEF IInv

(* A process that comes up has been up for no time. *)
LEMMA ComeUpInv == ASSUME IInv, NEW q \in Ids, ComeUp(q) PROVE IInv'
<1> USE TimesAssumption, LocalAssumption, LongAgoType DEF ComeUp, received, processes
<1>1. TypeOK' /\ (Local \in up)'
  BY DEF IInv, TypeOK
<1>2. ASSUME NEW p \in Ids PROVE PInv(p)'
  BY DEF IInv, TypeOK, PInv, ReadInTime, ReadSinceDown
<1>3. LostInBacklog'
  BY UpdateIsNotNone DEF IInv, TypeOK, LostInBacklog, Updates
<1>4. ViewFollows'
  BY DEF IInv, ViewFollows
<1> QED BY <1>1, <1>2, <1>3, <1>4 DEF IInv

(* A datagram enters the socket within a period of the one before. *)
LEMMA TransmitterInv == ASSUME IInv, NEW q \in Ids, Transmitter(q) PROVE IInv'
<1> USE TimesAssumption, LocalAssumption, LongAgoType DEF Transmitter, received, processes
<1>1. TypeOK' /\ (Local \in up)'
  BY DEF IInv, TypeOK
<1>2. ASSUME NEW p \in Ids PROVE PInv(p)'
  BY DEF IInv, TypeOK, PInv, ReadInTime, ReadSinceDown
<1>3. LostInBacklog' /\ ViewFollows'
  BY DEF IInv, TypeOK, LostInBacklog, ViewFollows
<1> QED BY <1>1, <1>2, <1>3 DEF IInv

(* An iteration removes every process that is overdue, and reads the ones in  *)
(* ids.  It ends the backlog only with an empty socket.                       *)
LEMMA ReceiverInv ==
  ASSUME IInv, NEW ids \in SUBSET Ids, ids \subseteq socket, Receiver(ids)
  PROVE  IInv'
<1> USE TimesAssumption, LocalAssumption, LongAgoType
<1> DEFINE new == ids \ known
           lost == Dead(ids)
<1>1. /\ update = None /\ socket' = socket \ ids
      /\ known' = (known \cup new) \ lost
      /\ lastSeen' = [p \in Ids |-> IF p \in lost THEN 0 ELSE Seen(ids)[p]]
      /\ update' = IF new \cup lost = {} THEN None ELSE [new |-> new, lost |-> lost]
      /\ UNCHANGED <<view, up, since, silent>>
  BY DEF Receiver, processes
<1>2. /\ backlog' \in 0 .. MaxBacklog
      /\ backlog' = backlog \/ (update' = None /\ socket' = {})
  BY DEF Receiver, Backlog, IInv, TypeOK
<1>3. lost \in SUBSET Ids /\ Local \notin lost /\ new \in SUBSET Ids
  BY DEF Dead, IInv, TypeOK
<1>4. \A p \in Ids : /\ Seen(ids)[p] \in 0 .. Timeout + 1
                     /\ Seen(ids)[p] = IF p \in ids THEN 0 ELSE lastSeen[p]
  <2>1. Timeout \in Nat /\ lastSeen \in [Ids -> 0 .. Timeout + 1]
    BY DEF IInv, TypeOK
  <2> QED BY <2>1 DEF Seen
<1>5. \A p \in Ids \ {Local} : p \in known => (p \in lost <=> Seen(ids)[p] > Timeout)
  BY DEF Dead
<1>6. \A p \in lost : p \in known /\ p \notin ids /\ lastSeen[p] > Timeout
  <2> SUFFICES ASSUME NEW p \in lost
               PROVE  p \in known /\ p \notin ids /\ lastSeen[p] > Timeout
    OBVIOUS
  <2>1. p \in known /\ p \in Ids /\ Seen(ids)[p] > Timeout
    BY DEF Dead, IInv, TypeOK
  <2> QED BY <1>4, <2>1
<1>7. [new |-> new, lost |-> lost] \in Updates
  BY <1>3 DEF Updates
<1> HIDE DEF new, lost
<1>8. TypeOK' /\ (Local \in up)'
  <2>1. lastSeen' \in [Ids -> 0 .. Timeout + 1]
    BY <1>1, <1>4
  <2>2. update' \in Updates \cup {None}
    BY <1>1, <1>7
  <2> QED BY <1>1, <1>2, <1>3, <2>1, <2>2 DEF IInv, TypeOK
<1>9. ASSUME NEW p \in Ids PROVE PInv(p)'
  <2>1. ReadInTime(p)'
    BY <1>1, <1>2, <1>4, <1>9 DEF IInv, TypeOK, PInv, ReadInTime
  <2>2. ReadSinceDown(p)'
    <3> SUFFICES ASSUME p \in Ids \ up PROVE ReadSinceDown(p)'
      BY <1>1 DEF ReadSinceDown
    <3>1. p \in socket' => since'[p] <= backlog'
      BY <1>1, <1>2, <1>9 DEF IInv, TypeOK, PInv, ReadSinceDown
    <3>2. ASSUME p \in known' \ socket'
          PROVE  lastSeen'[p] <= Timeout /\ since'[p] <= lastSeen'[p] + MaxBacklog
      <4>1. p \notin lost /\ lastSeen'[p] = Seen(ids)[p] /\ p # Local
        BY <1>1, <3>2 DEF IInv
      <4>2. CASE p \in ids
        BY <1>1, <1>4, <4>1, <4>2 DEF IInv, TypeOK, PInv, ReadSinceDown
      <4>3. CASE p \notin ids
        <5>1. p \in known \ socket
          BY <1>1, <3>2, <4>3 DEF new
        <5>2. lastSeen[p] <= Timeout /\ lastSeen'[p] = lastSeen[p]
          BY <1>4, <1>5, <4>1, <4>3, <5>1 DEF IInv, TypeOK
        <5> QED BY <1>1, <5>1, <5>2 DEF IInv, PInv, ReadSinceDown
      <4> QED BY <4>2, <4>3
    <3> QED BY <3>1, <3>2 DEF ReadSinceDown
  <2> QED BY <2>1, <2>2 DEF PInv
<1>10. LostInBacklog'
  <2> SUFFICES ASSUME update' # None, NEW p \in update'.lost \cap up
               PROVE  since[p] <= Period + backlog'
    BY <1>1 DEF LostInBacklog
  <2>1. p \in lost /\ p \in Ids /\ backlog' = backlog
    BY <1>1, <1>2, <1>3
  <2>2. lastSeen[p] > Timeout /\ p # Local /\ ReadInTime(p)
    BY <1>3, <1>6, <2>1 DEF IInv, PInv
  <2> QED BY <2>1, <2>2, PromptAssumption DEF IInv, TypeOK, ReadInTime
<1>11. ViewFollows'
  <2>1. CASE new \cup lost = {}
    BY <1>1, <2>1 DEF IInv, ViewFollows
  <2>2. CASE new \cup lost # {}
    <3>1. new \cap lost = {}
      BY <1>6 DEF new
    <3>2. update' # None /\ update'.new = new /\ update'.lost = lost
      BY <1>1, <1>7, <2>2, UpdateIsNotNone
    <3> QED BY <1>1, <3>1, <3>2 DEF IInv, ViewFollows
  <2> QED BY <2>1, <2>2
<1> QED BY <1>8, <1>9, <1>10, <1>11 DEF IInv

(* The consumer takes the update. *)
LEMMA TakeInv == ASSUME IInv, Take PROVE IInv'
<1> USE TimesAssumption, LocalAssumption, LongAgoType DEF Take, received, processes
<1>1. /\ backlog' \in 0 .. MaxBacklog
      /\ backlog' = backlog \/ socket' = {}
  BY DEF Backlog, IInv, TypeOK
<1>2. TypeOK' /\ (Local \in up)'
  BY <1>1 DEF IInv, TypeOK, Updates
<1>3. ASSUME NEW p \in Ids PROVE PInv(p)'
  BY <1>1, <1>3 DEF IInv, TypeOK, PInv, ReadInTime, ReadSinceDown
<1>4. LostInBacklog' /\ ViewFollows'
  BY DEF IInv, LostInBacklog, ViewFollows
<1> QED BY <1>2, <1>3, <1>4 DEF IInv

(* Time passes for a blocked receiver, and the backlog grows, or for one that *)
(* has nothing to do: nobody is overdue.                                      *)
LEMMA TickInv == ASSUME IInv, Tick PROVE IInv'
<1> USE TimesAssumption, LocalAssumption, LongAgoType
<1>0. /\ Timeout + 1 \in Nat /\ Period \in Nat /\ LongAgo \in Nat
      /\ since \in [Ids -> 0 .. LongAgo] /\ silent \in [Ids -> 0 .. Period]
      /\ lastSeen \in [Ids -> 0 .. Timeout + 1]
  BY DEF IInv, TypeOK
<1>a. ASSUME NEW p \in Ids
      PROVE  since'[p] \in 0 .. LongAgo /\ since'[p] <= since[p] + 1
  <2>1. since'[p] = Older(since[p], LongAgo) /\ since[p] \in 0 .. LongAgo
    BY <1>0 DEF Tick
  <2> QED BY <1>0, <2>1, OlderType
<1>b. ASSUME NEW p \in Ids
      PROVE  silent'[p] \in 0 .. Period /\ (p \in up => silent'[p] = silent[p] + 1)
  <2>1. /\ silent'[p] = Older(silent[p], Period) /\ silent[p] \in 0 .. Period
        /\ p \in up => silent[p] < Period
    BY <1>0 DEF Tick
  <2> QED BY <1>0, <2>1, OlderType
<1>c. ASSUME NEW p \in Ids
      PROVE  /\ p \notin known => lastSeen'[p] = 0
             /\ p \in known =>
                  /\ lastSeen'[p] \in 0 .. Timeout + 1
                  /\ lastSeen'[p] <= lastSeen[p] + 1 /\ lastSeen'[p] >= lastSeen[p]
                  /\ lastSeen[p] <= Timeout => lastSeen'[p] = lastSeen[p] + 1
  <2>1. /\ lastSeen'[p] = IF p \in known THEN Older(lastSeen[p], Timeout + 1) ELSE 0
        /\ lastSeen[p] \in 0 .. Timeout + 1
    BY <1>0 DEF Tick
  <2>2. LET n == Older(lastSeen[p], Timeout + 1)
        IN  /\ n \in 0 .. Timeout + 1 /\ n <= lastSeen[p] + 1 /\ n >= lastSeen[p]
            /\ lastSeen[p] < Timeout + 1 => n = lastSeen[p] + 1
    BY <1>0, <2>1, OlderType
  <2> QED BY <1>0, <2>1, <2>2
<1>1. /\ \A p \in Ids : /\ since'[p] \in 0 .. LongAgo /\ since'[p] <= since[p] + 1
                        /\ silent'[p] \in 0 .. Period
                        /\ p \in up => silent'[p] = silent[p] + 1
      /\ \A p \in known : /\ lastSeen'[p] \in 0 .. Timeout + 1
                          /\ lastSeen'[p] <= lastSeen[p] + 1 /\ lastSeen'[p] >= lastSeen[p]
                          /\ lastSeen[p] <= Timeout => lastSeen'[p] = lastSeen[p] + 1
      /\ \A p \in Ids \ known : lastSeen'[p] = 0
      /\ known \subseteq Ids
      /\ UNCHANGED <<known, socket, update, view, up>>
  BY <1>a, <1>b, <1>c DEF IInv, TypeOK, Tick
<1>2. /\ since' \in [Ids -> 0 .. LongAgo] /\ silent' \in [Ids -> 0 .. Period]
      /\ lastSeen' \in [Ids -> 0 .. Timeout + 1]
  <2>1. \A p \in Ids : lastSeen'[p] \in 0 .. Timeout + 1
    BY <1>0, <1>c
  <2>2. /\ since' = [p \in Ids |-> since'[p]] /\ silent' = [p \in Ids |-> silent'[p]]
        /\ lastSeen' = [p \in Ids |-> lastSeen'[p]]
    BY DEF Tick
  <2> QED BY <1>1, <2>1, <2>2
<1>3. CASE update # None /\ backlog < MaxBacklog
  <2>1. backlog' = backlog + 1 /\ backlog' \in 0 .. MaxBacklog
    BY <1>3 DEF IInv, TypeOK, Tick
  <2>2. TypeOK' /\ (Local \in up)'
    BY <1>1, <1>2, <2>1 DEF IInv, TypeOK
  <2>3. ASSUME NEW p \in Ids PROVE PInv(p)'
    <3>1. ReadInTime(p)'
      BY <1>1, <2>1, <2>3 DEF IInv, TypeOK, PInv, ReadInTime
    <3>2. ReadSinceDown(p)'
      BY <1>1, <1>3, <2>1, <2>3 DEF IInv, TypeOK, PInv, ReadSinceDown
    <3> QED BY <3>1, <3>2 DEF PInv
  <2>4. LostInBacklog'
    BY <1>1, <1>3, <2>1 DEF IInv, TypeOK, LostInBacklog, Updates
  <2>5. ViewFollows'
    BY <1>1 DEF IInv, ViewFollows
  <2> QED BY <2>2, <2>3, <2>4, <2>5 DEF IInv
<1>4. CASE Idle
  <2>1. update = None /\ socket = {} /\ backlog' = 0 /\ \A p \in known \ {Local} : lastSeen[p] <= Timeout
    BY <1>4 DEF Idle, Dead, Seen, IInv, TypeOK, Tick
  <2>2. TypeOK' /\ (Local \in up)'
    BY <1>1, <1>2, <2>1 DEF IInv, TypeOK
  <2>3. ASSUME NEW p \in Ids PROVE PInv(p)'
    <3>1. ReadInTime(p)'
      BY <1>1, <2>1, <2>3 DEF IInv, TypeOK, PInv, ReadInTime
    <3>2. ReadSinceDown(p)'
      BY <1>1, <2>1, <2>3 DEF IInv, TypeOK, PInv, ReadSinceDown
    <3> QED BY <3>1, <3>2 DEF PInv
  <2>4. LostInBacklog' /\ ViewFollows'
    BY <1>1, <2>1 DEF IInv, LostInBacklog, ViewFollows
  <2> QED BY <2>2, <2>3, <2>4 DEF IInv
<1> QED BY <1>3, <1>4 DEF Tick

(* The invariant is inductive. *)
LEMMA NextInv == IInv /\ [Next]_vars => IInv'
<1> SUFFICES ASSUME IInv, [Next]_vars PROVE IInv'
  OBVIOUS
<1>1. CASE \E p \in Ids : GoDown(p) \/ ComeUp(p) \/ Transmitter(p)
  BY <1>1, GoDownInv, ComeUpInv, TransmitterInv
<1>2. CASE ReadOne
  BY <1>2, ReceiverInv DEF ReadOne, IInv, TypeOK
<1>3. CASE ReadNothing
  BY <1>3, ReceiverInv DEF ReadNothing
<1>4. CASE Take
  BY <1>4, TakeInv
<1>5. CASE Tick
  BY <1>5, TickInv
<1>6. CASE UNCHANGED vars
  BY <1>6 DEF vars, received, processes, IInv, TypeOK, PInv, ReadInTime, ReadSinceDown,
              LostInBacklog, ViewFollows
<1> QED BY <1>1, <1>2, <1>3, <1>4, <1>5, <1>6 DEF Next

(* Every reachable state satisfies the invariant. *)
THEOREM Invariance == Spec => []IInv
BY InitInv, NextInv, PTL DEF Spec

(* The receiver's variables keep their types, whatever processes do. *)
THEOREM TypeCorrect == Spec => []TypeOK
<1>1. IInv => TypeOK
  BY DEF IInv
<1> QED BY <1>1, Invariance, PTL

(* A process that has been up for longer than a period and a backlog is not   *)
(* in the lost peers of any update.                                           *)
THEOREM NoFalseLoss == Spec => []LostWasAway
<1>1. IInv => LostWasAway
  <2> SUFFICES ASSUME IInv, update # None, NEW p \in update.lost \cap up
               PROVE  since[p] <= Period + MaxBacklog
    BY DEF LostWasAway
  <2>1. since[p] <= Period + backlog /\ backlog \in 0 .. MaxBacklog /\ since[p] \in Nat
    BY DEF IInv, TypeOK, LostInBacklog
  <2> QED BY <2>1, TimesAssumption
<1> QED BY <1>1, Invariance, PTL

(* A process that is down is removed from lastSeen at most two backlogs after *)
(* the timeout.                                                               *)
THEOREM Detection == Spec => []DetectedInTime
<1>1. IInv => DetectedInTime
  <2> SUFFICES ASSUME IInv, NEW p \in known \ up
               PROVE  since[p] <= Timeout + 2 * MaxBacklog
    BY DEF DetectedInTime
  <2>1. p \in Ids \ up /\ since[p] \in Nat /\ lastSeen[p] \in Nat /\ backlog \in 0 .. MaxBacklog
    BY LongAgoType DEF IInv, TypeOK
  <2>2. ReadSinceDown(p)
    BY <2>1 DEF IInv, PInv
  <2> QED BY <2>1, <2>2, TimesAssumption DEF ReadSinceDown
<1> QED BY <1>1, Invariance, PTL

(* The differences that the updates carry add up to lastSeen. *)
THEOREM DifferencesAddUp == Spec => []ViewIsCurrent
<1>1. IInv => ViewIsCurrent
  BY DEF IInv, ViewFollows, ViewIsCurrent
<1> QED BY <1>1, Invariance, PTL
================================================================================
