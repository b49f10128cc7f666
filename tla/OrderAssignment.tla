---------------------------- MODULE OrderAssignment ----------------------------
(***************************************************************************)
(* How one process keeps track of the others, elects the master and gives  *)
(* out orders: peerMonitor.go, communication/statusUpdates.go with the two *)
(* status cases of communication.go, masterElection.go and                 *)
(* orderAssignment.go.  Other processes and the network are its            *)
(* environment.  A queue is the set of its orders, and the cost that picks *)
(* an elevator is arbitrary here (module Cost).                            *)
(***************************************************************************)
EXTENDS Integers, Sequences

CONSTANTS
  Elevators,      \* IDs, ordered like the strings they stand for
  Local,          \* config.LocalID
  HallOrders, CabOrders,
  Queues,         \* the queues that statuses can carry
  None,           \* no entry in a map, no map, no master
  PromptHandover, \* TRUE if a peer update finds the status map and the master
                  \* taken that were sent before it
  MaxUpdates, MaxStatuses, MaxCalls  \* bounds on the environment

Orders == HallOrders \cup CabOrders
StatusMap == [Elevators -> {None} \cup SUBSET Orders]

ASSUME ElevatorsAssumption == Elevators \subseteq Nat /\ Local \in Elevators
ASSUME OrdersAssumption == Queues \subseteq SUBSET Orders
ASSUME NoneAssumption ==
  None \notin Elevators /\ \A x \in (SUBSET Orders) \cup StatusMap : x # None
ASSUME ModelAssumption ==
  /\ PromptHandover \in BOOLEAN
  /\ {MaxUpdates, MaxStatuses, MaxCalls} \subseteq Nat

VARIABLES
  \* communication
  statuses,     \* elevatorStatuses
  backups,      \* backupElevatorStatuses
  copy,         \* the copyMap on its way into elevatorStatusesChan
  \* peerMonitor
  report,       \* the lost and the new peers it has yet to report
  \* masterElection
  masterID,     \* config.MasterID
  masterChan,   \* its value and those of the electors blocked behind it
  electors,     \* the goroutines that wait for a status map
  \* orderAssignment
  latest,       \* latestElevatorStatuses
  oa,           \* where the goroutine is, and for which elevator
  out,          \* what the last step assigned, restored or forwarded
  \* environment and bounds
  known,        \* the peers of the last update
  updates, received, calls,
  \* history
  owed,         \* hall orders, in the latest status map, of elevators that were
                \* lost while no election was under way and not handled yet
  copyLost,     \* elevators lost since the copy on its way was made,
  lostSince,    \* and since the latest status map was
  ghosts,       \* elevators a status of which was accepted when they were no peers
  heard,        \* peers that have sent a status since they came
  cabs,         \* cab orders in the last status of an elevator before its loss
  flapped       \* elevators lost again before they had sent a status

commVars == <<statuses, backups, copy>>
electionVars == <<masterID, masterChan, electors>>
bounds == <<updates, received, calls>>
viewHistory == <<copyLost, lostSince, ghosts>>
cabHistory == <<heard, cabs, flapped>>
history == <<owed, viewHistory, cabHistory>>
vars == <<commVars, report, electionVars, latest, oa, out, known, bounds, history>>

Listed(map) == {e \in Elevators : map[e] # None}
Lowest(ids) == CHOOSE e \in ids : \A f \in ids : e <= f
NoReport == [lost |-> {}, new |-> {}]
Selecting == oa.at = "select"
Select == [at |-> "select", elevator |-> None]

Init ==
  /\ statuses = [e \in Elevators |-> None] /\ backups = [e \in Elevators |-> None]
  /\ copy = None /\ report = NoReport
  /\ masterID = None /\ masterChan = <<>>
  /\ electors = 1   \* main starts one
  /\ latest = None /\ oa = Select /\ out = {}
  /\ known = {} /\ updates = 0 /\ received = 0 /\ calls = 0
  /\ owed = {} /\ copyLost = {} /\ lostSince = {} /\ ghosts = {}
  /\ heard = {} /\ cabs = [e \in Elevators |-> {}] /\ flapped = {}

-----------------------------------------------------------------------------
(* communication *)

(* The status of this elevator, and one that arrives from another: nobody     *)
(* asks whether its sender is a peer, so that it may be late or early.        *)
BroadcastElevatorStatus(q) ==
  /\ received < MaxStatuses /\ received' = received + 1
  /\ statuses' = [statuses EXCEPT ![Local] = q]
  /\ out' = {}
  /\ UNCHANGED <<backups, copy, report, electionVars, latest, oa, known, updates, calls, history>>

ReceiveStatus(e, q) ==
  /\ e # Local
  /\ received < MaxStatuses /\ received' = received + 1
  /\ statuses' = [statuses EXCEPT ![e] = q]
  /\ heard' = heard \cup {e}
  /\ ghosts' = ghosts \cup ({e} \ known)
  /\ out' = {}
  /\ UNCHANGED <<backups, copy, report, electionVars, latest, oa, known, updates, calls,
                 owed, copyLost, lostSince, cabs, flapped>>

(* startPeriodicLocalStatusUpdates: copies, then waits for a receiver. *)
CopyStatuses ==
  /\ copy = None
  /\ copy' = statuses
  /\ out' = {}
  /\ UNCHANGED <<statuses, backups, report, electionVars, latest, oa, known, bounds, history>>

(* Slip: the lost elevators stay in the map. *)
UpdateElevatorStatesKeeping(new, lost) ==
  /\ backups' = [e \in Elevators |->
       IF e \in lost /\ statuses[e] # None THEN statuses[e] ELSE backups[e]]
  /\ statuses' = [e \in Elevators |->
       IF e \in new /\ statuses[e] = None THEN {} ELSE statuses[e]]

(* Slip: the backup is made after the entry has been deleted. *)
UpdateElevatorStatesLateBackup(new, lost) ==
  /\ statuses' = [e \in Elevators |->
       IF e \in lost THEN None
       ELSE IF e \in new /\ statuses[e] = None THEN {} ELSE statuses[e]]
  /\ UNCHANGED backups

(* Lost elevators are backed up and deleted, new ones get an empty entry. *)
UpdateElevatorStates(new, lost) ==
  /\ backups' = [e \in Elevators |->
       IF e \in lost /\ statuses[e] # None THEN statuses[e] ELSE backups[e]]
  /\ statuses' = [e \in Elevators |->
       IF e \in lost THEN None
       ELSE IF e \in new /\ statuses[e] = None THEN {} ELSE statuses[e]]

-----------------------------------------------------------------------------
(* peerMonitor: an update of peers.Receiver, with at most one new peer.  It   *)
(* reports the lost ones, which are sorted, and then the new one.             *)
(* Slip: the cab calls are not skipped. *)
AllOrdersOf(map, e) == IF map = None THEN {} ELSE IF map[e] = None THEN {} ELSE map[e]

HallOrdersOf(map, e) ==
  IF map = None THEN {} ELSE IF map[e] = None THEN {} ELSE map[e] \cap HallOrders

monitorPeers(new, lost) ==
  /\ report = NoReport /\ updates < MaxUpdates /\ updates' = updates + 1
  /\ PromptHandover => copy = None /\ masterChan = <<>>
  /\ known' = (known \cup new) \ lost
  /\ UpdateElevatorStates(new, lost)
  /\ report' = [lost |-> lost, new |-> new]
  /\ owed' = IF electors > 0 \/ ~Selecting THEN owed
             ELSE owed \cup UNION {{e} \X HallOrdersOf(latest, e) : e \in lost}
  /\ copyLost' = IF copy = None THEN {} ELSE copyLost \cup lost
  /\ lostSince' = lostSince \cup lost
  /\ heard' = heard \ lost
  /\ cabs' = [e \in Elevators |->
       IF e \in lost \cap heard THEN statuses[e] \cap CabOrders ELSE cabs[e]]
  /\ flapped' = (flapped \ (lost \cap heard)) \cup (lost \ heard)
  /\ out' = {}
  /\ UNCHANGED <<copy, electionVars, latest, oa, received, calls, ghosts>>

PeerUpdate ==
  \E new \in {{}} \cup {{e} : e \in Elevators \ known}, lost \in SUBSET (known \ {Local}) :
    new \cup lost # {} /\ monitorPeers(new, lost)

NextLost(e) == e \in report.lost /\ e = Lowest(report.lost)
NextNew(e) == e \in report.new /\ report.lost = {}

-----------------------------------------------------------------------------
(* masterElection *)
determineMaster(map) == Lowest(Listed(map) \cup {Local})

(* RunMasterElection: an elector that receives a map either finds the master  *)
(* unchanged and returns, or sends the new one and waits for another map.  It *)
(* blocks while masterChan holds another value.                               *)
RunMasterElection ==
  LET new == determineMaster(copy)
  IN  /\ electors > 0 /\ copy # None
      /\ copy' = None /\ copyLost' = {}
      /\ \/ /\ new = masterID
            /\ electors' = electors - 1
            /\ UNCHANGED <<masterID, masterChan>>
         \/ /\ new # masterID
            /\ masterID' = new /\ masterChan' = Append(masterChan, new)
            /\ electors' = IF masterChan = <<>> THEN electors ELSE electors - 1
      /\ out' = {}
      /\ UNCHANGED <<statuses, backups, report, latest, oa, known, bounds,
                     owed, lostSince, ghosts, cabHistory>>

(* A receive from masterChan, which lets in the next blocked elector. *)
ReceiveMaster ==
  /\ masterChan # <<>>
  /\ masterID' = Head(masterChan) /\ masterChan' = Tail(masterChan)
  /\ electors' = IF Len(masterChan) > 1 THEN electors + 1 ELSE electors

-----------------------------------------------------------------------------
(* orderAssignment *)
Assign(o, e) == [kind |-> "assign", order |-> o, target |-> e]
Forward(o) == [kind |-> "forward", order |-> o, target |-> masterID]

(* What findBestElevator can return. *)
Candidates(map, exclude) ==
  LET ids == IF map = None THEN {} ELSE Listed(map) \ {exclude}
  IN  IF ids = {} THEN {None} ELSE ids

UpdateLatest ==
  /\ Selecting /\ copy # None
  /\ latest' = copy /\ copy' = None
  /\ lostSince' = copyLost /\ copyLost' = {}
  /\ out' = {}
  /\ UNCHANGED <<statuses, backups, report, electionVars, oa, known, bounds,
                 owed, ghosts, cabHistory>>

NewMaster ==
  /\ Selecting /\ ReceiveMaster
  /\ out' = {}
  /\ UNCHANGED <<commVars, report, latest, oa, known, bounds, history>>

(* getReassignedHallOrders and the loop over its result.  Another process     *)
(* does it if another one is the master and a peer.                            *)
ReassignHallOrders(e, master) ==
  LET orders == HallOrdersOf(latest, e)
  IN  /\ oa' = Select
      /\ IF master = Local
         THEN \E best \in [orders -> Candidates(latest, e)] :
                out' = {Assign(o, best[o]) : o \in orders}
         ELSE out' = {}
      /\ owed' = {d \in owed : d[1] # e}

(* case lostElevator: if it was the master, a new one is awaited first. *)
LostPeer(e) ==
  /\ Selecting /\ NextLost(e) /\ report' = [report EXCEPT !.lost = @ \ {e}]
  /\ \/ /\ e = masterID
        /\ electors' = electors + 1
        /\ oa' = [at |-> "awaitMaster", elevator |-> e]
        /\ out' = {} /\ UNCHANGED owed
     \/ /\ e # masterID
        /\ ReassignHallOrders(e, masterID)
        /\ UNCHANGED electors
  /\ UNCHANGED <<commVars, masterID, masterChan, latest, known, bounds, viewHistory, cabHistory>>

AwaitedMaster ==
  /\ oa.at = "awaitMaster" /\ ReceiveMaster
  /\ ReassignHallOrders(oa.elevator, Head(masterChan))
  /\ UNCHANGED <<commVars, report, latest, known, bounds, viewHistory, cabHistory>>

(* Slip: no election for a new peer. *)
NewPeerUnelected(e) ==
  /\ Selecting /\ NextNew(e) /\ report' = [report EXCEPT !.new = @ \ {e}]
  /\ oa' = [at |-> "restore", elevator |-> e]
  /\ out' = {}
  /\ UNCHANGED <<commVars, electionVars, latest, known, bounds, history>>

(* case newElevator: start an election; then the master, if it still is,      *)
(* sends the cab calls of its backup.                                         *)
NewPeer(e) ==
  /\ Selecting /\ NextNew(e) /\ report' = [report EXCEPT !.new = @ \ {e}]
  /\ electors' = electors + 1
  /\ oa' = [at |-> "restore", elevator |-> e]
  /\ out' = {}
  /\ UNCHANGED <<commVars, masterID, masterChan, latest, known, bounds, history>>

getReassignedCabCalls(e) ==
  IF backups[e] = None THEN {} ELSE backups[e] \cap CabOrders

RestoreCabCalls ==
  /\ oa.at = "restore" /\ oa' = Select
  /\ out' = IF masterID = Local /\ latest # None
            THEN {Assign(o, oa.elevator) : o \in getReassignedCabCalls(oa.elevator)}
            ELSE {}
  /\ UNCHANGED <<commVars, report, electionVars, latest, known, bounds, history>>

(* case hallCall: the master assigns it, any other forwards it. *)
HallCall(o) ==
  /\ Selecting /\ calls < MaxCalls /\ calls' = calls + 1
  /\ IF masterID = Local
     THEN \E best \in Candidates(latest, None) : out' = {Assign(o, best)}
     ELSE out' = {Forward(o)}
  /\ UNCHANGED <<commVars, report, electionVars, latest, oa, known, updates, received, history>>

-----------------------------------------------------------------------------
Next ==
  \/ \E q \in Queues : BroadcastElevatorStatus(q) \/ \E e \in Elevators : ReceiveStatus(e, q)
  \/ CopyStatuses \/ PeerUpdate
  \/ RunMasterElection
  \/ UpdateLatest \/ NewMaster \/ AwaitedMaster \/ RestoreCabCalls
  \/ \E e \in Elevators : LostPeer(e) \/ NewPeer(e)
  \/ \E o \in HallOrders : HallCall(o)

Spec == Init /\ [][Next]_vars

(* The goroutines run on.  An elector and the order assignment wait for the   *)
(* same status maps; a Go channel serves waiting receivers in turn, so that   *)
(* neither is passed over for ever.  Nothing is assumed of the environment.   *)
Fairness ==
  /\ WF_vars(CopyStatuses)
  /\ SF_vars(RunMasterElection) /\ SF_vars(UpdateLatest)
  /\ WF_vars(NewMaster) /\ WF_vars(AwaitedMaster) /\ WF_vars(RestoreCabCalls)
  /\ \A e \in Elevators : WF_vars(LostPeer(e)) /\ WF_vars(NewPeer(e))

FairSpec == Spec /\ Fairness

-----------------------------------------------------------------------------
Actions == [kind : {"assign", "forward"}, order : Orders, target : Elevators \cup {None}]

TypeOK ==
  /\ statuses \in StatusMap /\ backups \in StatusMap
  /\ copy \in {None} \cup StatusMap /\ latest \in {None} \cup StatusMap
  /\ report \in [lost : SUBSET Elevators, new : SUBSET Elevators]
  /\ masterID \in Elevators \cup {None} /\ masterChan \in Seq(Elevators)
  /\ electors \in Nat
  /\ oa \in [at : {"select", "awaitMaster", "restore"}, elevator : Elevators \cup {None}]
  /\ out \subseteq Actions
  /\ known \subseteq Elevators
  /\ updates \in 0 .. MaxUpdates /\ received \in 0 .. MaxStatuses /\ calls \in 0 .. MaxCalls
  /\ owed \subseteq Elevators \X HallOrders
  /\ {copyLost, lostSince, ghosts, heard, flapped} \subseteq SUBSET Elevators
  /\ cabs \in [Elevators -> SUBSET CabOrders]

(* While the order assignment waits for a new master there is somebody to     *)
(* send one: an elector that still waits for a map, or a value in masterChan. *)
(* Not so when the lost master is back before the election: an elector that   *)
(* finds config.MasterID unchanged returns without sending it; nor when a      *)
(* late status has put it back into the map, which has the same effect.       *)
MasterIsBack == oa.at = "awaitMaster" /\ oa.elevator \in known

AwaitedMasterComes ==
  oa.at = "awaitMaster" =>
     electors > 0 \/ masterChan # <<>> \/ MasterIsBack \/ ghosts # {}

(* When an election is over the master is the lowest ID among the peers and   *)
(* this elevator, whatever was lost or came while it was held, unless one     *)
(* that is no peer has got into the status map.                               *)
AtRest == Selecting /\ report = NoReport /\ electors = 0 /\ masterChan = <<>>

MasterAtRestIsLowest ==
  AtRest /\ ghosts = {} => masterID = Lowest(known \cup {Local})

(* An order goes to this elevator, to a peer, to one that was lost after the  *)
(* status map in use was copied, or to one that a status was accepted from    *)
(* when it was no peer.  It goes to nobody when that map lists neither this   *)
(* elevator nor a peer, or only the lost master, back before another is found.*)
AssignedToPeers ==
  [][\A a \in out' : a.kind = "assign" =>
       \/ a.target \in known \cup {Local} \cup lostSince \cup ghosts
       \/ /\ a.target = None
          /\ \/ latest = None
             \/ Listed(latest) \cap (known \cup {Local}) \subseteq {oa.elevator}]_vars

(* An elevator that returns to a process that is the master gets back the cab *)
(* calls of its last status before the loss, unless it was lost once more     *)
(* before it had sent any status: that overwrites the backup.                 *)
CabCallsComeBack ==
  [][oa.at = "restore" /\ masterID = Local /\ latest # None /\ oa.elevator \notin flapped =>
       cabs[oa.elevator] \subseteq {a.order : a \in out'} \/ oa' = oa]_vars

(* Elections end, and leave the lowest ID as the master, once the peers no    *)
(* longer change.                                                             *)
MasterSettles == <>[](masterID = Lowest(known \cup {Local}) \/ ghosts # {})

-----------------------------------------------------------------------------
(* What README.md and the comments say, and the code does not do.             *)

(* "A reelection is held every time a new peer enters the network"            *)
(* (README:37): the order assignment gets to every new peer that peerMonitor  *)
(* reports, and starts an elector.                                            *)
ReelectionOnNewPeer ==
  \A e \in Elevators : NextNew(e) ~> oa = [at |-> "restore", elevator |-> e]

(* "Detect network failures and reassign lost orders automatically"           *)
(* (README:8): when the master has handled a loss, every hall order that the  *)
(* lost elevator had when it was lost has been assigned to an elevator that   *)
(* is left, if the map lists one (and no late status has confused the map).   *)
HallOrdersReassigned ==
  [][\A d \in owed \ owed' :
       masterID' = Local /\ ghosts = {} /\ Listed(latest) \cap (known \cup {Local}) # {} =>
         \E a \in out' : a.order = d[2] /\ a.target \in known \cup {Local}]_vars
==============================================================================
