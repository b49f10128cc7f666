--------------------------------- MODULE Peers ---------------------------------
(***************************************************************************)
(* How a process notices that others come and go: peers.go.  The consumer  *)
(* of the updates is an environment that may be slow.  Time goes in ticks: *)
(* a process that is up is heard at least once every Period of them, one   *)
(* that is down is not heard.                                              *)
(***************************************************************************)
EXTENDS Integers

CONSTANTS
  Ids,         \* of the processes
  Local,       \* config.LocalID
  Timeout,     \* after which a peer that is not heard is lost
  Period,      \* longest silence of a process that is up
  MaxBacklog,  \* longest time in which the receiver finds no empty socket
  None         \* no update

Updates == [new : SUBSET Ids, lost : SUBSET Ids]

ASSUME LocalAssumption == Local \in Ids
ASSUME TimesAssumption == {Timeout, Period, MaxBacklog} \subseteq Nat \ {0}
ASSUME PromptAssumption == Period + MaxBacklog <= Timeout
ASSUME NoneAssumption == \A x \in Updates : x # None

Others == Ids \ {Local}

(* Durations are counted up to the first one that is too long to matter. *)
LongAgo == Timeout + 2 * MaxBacklog + 2
Older(n, limit) == IF n < limit THEN n + 1 ELSE limit

VARIABLES
  known,     \* the keys of lastSeen
  lastSeen,  \* how long ago each of them was read; 0 for the others
  socket,    \* the IDs that wait in the socket, copies of an ID being one
  update,    \* the PeerUpdate that blocks the receiver, or None
  view,      \* the peers as the consumer makes them out from the updates
  up,        \* the processes that transmit
  since,     \* how long ago each of the others came up or went down
  silent,    \* how long ago each process was heard, or came up
  backlog    \* how long ago the receiver was last found with an empty socket

received == <<known, lastSeen, socket>>
processes == <<up, since, silent>>
vars == <<received, update, view, processes, backlog>>

Init ==
  /\ known = {} /\ lastSeen = [p \in Ids |-> 0]
  /\ socket = {} /\ update = None /\ view = {}
  /\ up \in {{Local} \cup ps : ps \in SUBSET Others}
  /\ since = [p \in Ids |-> LongAgo]
  /\ silent = [p \in Ids |-> Period]
  /\ backlog = 0

-----------------------------------------------------------------------------
(* The other processes, this one, and the network. *)
GoDown(p) ==
  /\ p \in up \ {Local} /\ since[p] > 0
  /\ up' = up \ {p} /\ since' = [since EXCEPT ![p] = 0]
  /\ UNCHANGED <<received, update, view, silent, backlog>>

ComeUp(p) ==
  /\ p \notin up /\ since[p] > 0
  /\ up' = up \cup {p} /\ since' = [since EXCEPT ![p] = 0]
  /\ silent' = [silent EXCEPT ![p] = 0]
  /\ UNCHANGED <<received, update, view, backlog>>

(* One of the three copies that Transmitter sends; more in a tick change      *)
(* nothing.                                                                   *)
Transmitter(p) ==
  /\ p \in up /\ silent[p] > 0
  /\ socket' = socket \cup {p} /\ silent' = [silent EXCEPT ![p] = 0]
  /\ UNCHANGED <<known, lastSeen, update, view, up, since, backlog>>

-----------------------------------------------------------------------------
(* What lastSeen says after a read. *)

(* Slip: the time is only noted for a new ID. *)
SeenNew(ids) == [p \in Ids |-> IF p \in ids \ known THEN 0 ELSE lastSeen[p]]

Seen(ids) == [p \in Ids |-> IF p \in ids THEN 0 ELSE lastSeen[p]]

(* Slip: only the ID that was read is looked at. *)
DeadOfRead(ids) == {p \in (known \cap ids) \ {Local} : Seen(ids)[p] > Timeout}

Dead(ids) == {p \in known \ {Local} : Seen(ids)[p] > Timeout}

(* A receiver that waits at an empty socket has no backlog. *)
Backlog == IF update' = None /\ socket' = {} THEN 0 ELSE backlog

(* One iteration of Receiver, with the IDs it reads: one, or none when the    *)
(* socket is empty.  It adds a new ID, removes the dead ones, and blocks on   *)
(* the update, if there is any.                                               *)
(* Slip: an iteration that only removes IDs does not count as updated. *)
ReceiverQuietLoss(ids) ==
  /\ update = None
  /\ LET new == ids \ known
         lost == Dead(ids)
     IN  /\ socket' = socket \ ids
         /\ known' = (known \cup new) \ lost
         /\ lastSeen' = [p \in Ids |-> IF p \in lost THEN 0 ELSE Seen(ids)[p]]
         /\ update' = IF new = {} THEN None ELSE [new |-> new, lost |-> lost]
  /\ backlog' = Backlog
  /\ UNCHANGED <<view, processes>>

Receiver(ids) ==
  /\ update = None
  /\ LET new == ids \ known
         lost == Dead(ids)
     IN  /\ socket' = socket \ ids
         /\ known' = (known \cup new) \ lost
         /\ lastSeen' = [p \in Ids |-> IF p \in lost THEN 0 ELSE Seen(ids)[p]]
         /\ update' = IF new \cup lost = {} THEN None ELSE [new |-> new, lost |-> lost]
  /\ backlog' = Backlog
  /\ UNCHANGED <<view, processes>>

ReadOne == \E p \in socket : Receiver({p})

(* Slip: the empty ID of a read that timed out is not told from the others. *)
ReadEmpty == socket = {} /\ Receiver({None})

ReadNothing == socket = {} /\ Receiver({})

(* The consumer takes the update. *)
Take ==
  /\ update # None /\ update' = None
  /\ view' = (view \cup update.new) \ update.lost
  /\ UNCHANGED <<received, processes>>
  /\ backlog' = Backlog

-----------------------------------------------------------------------------
(* Time passes while the receiver is blocked, or waits with nothing to do.    *)
Idle == update = None /\ socket = {} /\ Dead({}) = {}

Tick ==
  /\ Idle \/ (update # None /\ backlog < MaxBacklog)
  /\ \A p \in up : silent[p] < Period
  /\ lastSeen' = [p \in Ids |-> IF p \in known THEN Older(lastSeen[p], Timeout + 1) ELSE 0]
  /\ since' = [p \in Ids |-> Older(since[p], LongAgo)]
  /\ silent' = [p \in Ids |-> Older(silent[p], Period)]
  /\ backlog' = IF update = None THEN 0 ELSE backlog + 1
  /\ UNCHANGED <<known, socket, update, view, up>>

Next ==
  \/ \E p \in Ids : GoDown(p) \/ ComeUp(p) \/ Transmitter(p)
  \/ ReadOne \/ ReadNothing \/ Take \/ Tick

Spec == Init /\ [][Next]_vars

(* Processes that are up transmit, the receiver and its consumer run on, time *)
(* passes.                                                                    *)
Fairness ==
  /\ \A p \in Ids : WF_vars(Transmitter(p))
  /\ WF_vars(ReadOne) /\ WF_vars(ReadNothing) /\ WF_vars(Take) /\ WF_vars(Tick)

FairSpec == Spec /\ Fairness

-----------------------------------------------------------------------------
TypeOK ==
  /\ known \subseteq Ids /\ lastSeen \in [Ids -> 0 .. Timeout + 1]
  /\ socket \subseteq Ids /\ update \in Updates \cup {None} /\ view \subseteq Ids
  /\ up \subseteq Ids
  /\ since \in [Ids -> 0 .. LongAgo] /\ silent \in [Ids -> 0 .. Period]
  /\ backlog \in 0 .. MaxBacklog

(* A process that has been up for long enough is never taken for lost. *)
LostWasAway ==
  update # None =>
    \A p \in update.lost \cap up : since[p] <= Period + MaxBacklog

(* A process that is down is noticed in time, however its last datagrams and  *)
(* the consumer delay it.                                                     *)
DetectedInTime ==
  \A p \in known \ up : since[p] <= Timeout + 2 * MaxBacklog

(* The consumer, which only gets the differences, has the whole picture.      *)
ViewIsCurrent == update = None => view = known

(* Whoever stays up is a peer for good, and whoever stays down is none.       *)
PeersSettle ==
  \A p \in Others :
    /\ <>[](p \in up) => <>[](p \in view)
    /\ <>[](p \notin up) => <>[](p \notin view)
================================================================================
