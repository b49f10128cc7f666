------------------------ MODULE OrderAssignmentProofs ------------------------
(***************************************************************************)
(* Theorems about OrderAssignment, for any number of elevators, any orders *)
(* and any bounds.  TypeCorrect, AssignTheorem and CabTheorem assume       *)
(* nothing else; AwaitTheorem and MasterTheorem assume, like the run       *)
(* assignment, that hand-overs are prompt.                                 *)
(***************************************************************************)
EXTENDS OrderAssignment, FiniteSetTheorems, TLAPS

(* A set of elevators has a lowest ID. *)
LEMMA LowestIsLeast ==
  ASSUME NEW S \in SUBSET Elevators, S # {}
  PROVE  Lowest(S) \in S /\ \A f \in S : Lowest(S) <= f
<1> DEFINE below == {0 .. e : e \in S}
<1>1. S \subseteq Nat
  BY ElevatorsAssumption
<1>2. below \subseteq FiniteSubsetsOf(Nat) /\ below # {}
  <2>1. \A e \in S : e \in Nat /\ 0 .. e \in SUBSET Nat /\ IsFiniteSet(0 .. e)
    BY <1>1, FS_Interval
  <2> QED BY <2>1 DEF FiniteSubsetsOf
<1>3. PICK x \in below : \A y \in below : ~(<<y, x>> \in StrictSubsetOrdering(Nat))
  <2> HIDE DEF below
  <2> QED BY <1>2, FS_StrictSubsetOrderingWellFounded, WFMin
<1>4. PICK e \in S : x = 0 .. e
  BY <1>3
<1>5. ASSUME NEW f \in S, f < e PROVE FALSE
  <2>1. 0 .. f \subseteq 0 .. e /\ e \in 0 .. e /\ e \notin 0 .. f
    BY <1>1, <1>5
  <2>2. 0 .. f \in SUBSET Nat /\ 0 .. e \in SUBSET Nat /\ 0 .. f # 0 .. e
    BY <1>1, <2>1
  <2>3. <<0 .. f, 0 .. e>> \in StrictSubsetOrdering(Nat)
    BY <2>1, <2>2 DEF StrictSubsetOrdering
  <2> QED BY <1>3, <1>4, <2>3
<1>6. \A f \in S : e <= f
  BY <1>1, <1>5
<1> QED BY <1>6 DEF Lowest

(* What the helpers return. *)
LEMMA HelperTypes ==
  ASSUME NEW map \in {None} \cup StatusMap, NEW e \in Elevators
  PROVE  /\ HallOrdersOf(map, e) \subseteq HallOrders
         /\ map # None => determineMaster(map) \in Elevators
         /\ Candidates(map, e) \subseteq Elevators \cup {None}
         /\ Candidates(map, None) \subseteq Elevators \cup {None}
<1>1. HallOrdersOf(map, e) \subseteq HallOrders
  BY DEF HallOrdersOf
<1>2. determineMaster(map) \in Elevators
  BY LowestIsLeast, ElevatorsAssumption DEF determineMaster, Listed
<1>3. Candidates(map, e) \subseteq Elevators \cup {None}
  BY DEF Candidates, Listed
<1>4. Candidates(map, None) \subseteq Elevators \cup {None}
  BY DEF Candidates, Listed
<1> QED BY <1>1, <1>2, <1>3, <1>4

(* What LostPeer and AwaitedMaster do to the orders is well typed. *)
LEMMA ReassignTypes ==
  ASSUME TypeOK, NEW e \in Elevators, NEW master, ReassignHallOrders(e, master)
  PROVE  /\ oa' = Select /\ out' \subseteq Actions /\ owed' \subseteq owed
<1>1. out' \subseteq Actions
  <2>1. CASE master = Local
    <3>1. PICK best \in [HallOrdersOf(latest, e) -> Candidates(latest, e)] :
            out' = {Assign(o, best[o]) : o \in HallOrdersOf(latest, e)}
      BY <2>1 DEF ReassignHallOrders
    <3>2. \A o \in HallOrdersOf(latest, e) : o \in Orders /\ best[o] \in Elevators \cup {None}
      BY HelperTypes DEF TypeOK, Orders
    <3> QED BY <3>1, <3>2 DEF Assign, Actions
  <2>2. CASE master # Local
    BY <2>2 DEF ReassignHallOrders
  <2> QED BY <2>1, <2>2
<1> QED BY <1>1 DEF ReassignHallOrders

(* What a peer update does to the status maps is well typed. *)
LEMMA UpdateTypes ==
  ASSUME TypeOK, NEW new, NEW lost, UpdateElevatorStates(new, lost)
  PROVE  statuses' \in StatusMap /\ backups' \in StatusMap
<1>1. \A e \in Elevators : /\ statuses[e] \in {None} \cup SUBSET Orders
                           /\ backups[e] \in {None} \cup SUBSET Orders
  BY DEF TypeOK, StatusMap
<1> QED BY <1>1 DEF UpdateElevatorStates, StatusMap

(* Every step keeps TypeOK. *)
LEMMA TypeInductive == TypeOK /\ [Next]_vars => TypeOK'
<1> SUFFICES ASSUME TypeOK, [Next]_vars PROVE TypeOK'
  OBVIOUS
<1> USE DEF commVars, electionVars, bounds, viewHistory, cabHistory, history
<1>1. ASSUME NEW q \in Queues, BroadcastElevatorStatus(q) PROVE TypeOK'
  <2>1. statuses' \in StatusMap
    BY <1>1, OrdersAssumption DEF BroadcastElevatorStatus, TypeOK, StatusMap
  <2> QED BY <1>1, <2>1, ModelAssumption DEF BroadcastElevatorStatus, TypeOK
<1>2. ASSUME NEW q \in Queues, NEW e \in Elevators, ReceiveStatus(e, q) PROVE TypeOK'
  <2>1. statuses' \in StatusMap
    BY <1>2, OrdersAssumption DEF ReceiveStatus, TypeOK, StatusMap
  <2> QED BY <1>2, <2>1, ModelAssumption DEF ReceiveStatus, TypeOK
<1>3. CASE CopyStatuses
  BY <1>3 DEF CopyStatuses, TypeOK
<1>4. ASSUME NEW new \in SUBSET Elevators, NEW lost \in SUBSET Elevators, monitorPeers(new, lost)
      PROVE  TypeOK'
  <2>1. statuses' \in StatusMap /\ backups' \in StatusMap
    BY <1>4, UpdateTypes DEF monitorPeers
  <2>2. owed' \subseteq Elevators \X HallOrders
    <3>1. \A e \in lost : {e} \X HallOrdersOf(latest, e) \subseteq Elevators \X HallOrders
      BY HelperTypes DEF TypeOK
    <3> QED BY <1>4, <3>1 DEF monitorPeers, TypeOK
  <2>3. cabs' \in [Elevators -> SUBSET CabOrders]
    BY <1>4 DEF monitorPeers, TypeOK
  <2> QED BY <1>4, <2>1, <2>2, <2>3, ModelAssumption DEF monitorPeers, TypeOK
<1>5. CASE RunMasterElection
  <2>1. copy \in StatusMap /\ determineMaster(copy) \in Elevators /\ electors - 1 \in Nat
    <3>1. copy \in StatusMap /\ copy # None /\ electors \in Nat /\ electors > 0
      BY <1>5 DEF RunMasterElection, TypeOK
    <3> QED BY <3>1, HelperTypes, ElevatorsAssumption
  <2>2. masterID' \in Elevators \cup {None} /\ masterChan' \in Seq(Elevators) /\ electors' \in Nat
    <3>1. CASE determineMaster(copy) = masterID
      BY <1>5, <2>1, <3>1 DEF RunMasterElection, TypeOK
    <3>2. CASE determineMaster(copy) # masterID
      <4>1. masterChan' = Append(masterChan, determineMaster(copy))
            /\ masterID' = determineMaster(copy) /\ electors' \in {electors, electors - 1}
        BY <1>5, <3>2 DEF RunMasterElection
      <4> QED BY <2>1, <4>1 DEF TypeOK
    <3> QED BY <3>1, <3>2
  <2> QED BY <1>5, <2>2 DEF RunMasterElection, TypeOK
<1>6. CASE UpdateLatest
  BY <1>6 DEF UpdateLatest, TypeOK
<1>7. ASSUME ReceiveMaster
      PROVE  /\ masterID' \in Elevators \cup {None} /\ masterChan' \in Seq(Elevators)
             /\ electors' \in Nat /\ Head(masterChan) \in Elevators
  BY <1>7 DEF ReceiveMaster, TypeOK
<1>8. CASE NewMaster
  BY <1>7, <1>8 DEF NewMaster, TypeOK
<1>9. ASSUME NEW e \in Elevators, LostPeer(e) PROVE TypeOK'
  <2>1. CASE e = masterID
    BY <1>9, <2>1 DEF LostPeer, TypeOK
  <2>2. CASE e # masterID
    <3>1. ReassignHallOrders(e, masterID) /\ UNCHANGED electors
      BY <1>9, <2>2 DEF LostPeer
    <3> QED BY <1>9, <3>1, ReassignTypes DEF LostPeer, TypeOK, Select
  <2> QED BY <2>1, <2>2
<1>10. CASE AwaitedMaster
  <2>1. CASE oa.elevator \in Elevators
    BY <1>7, <1>10, <2>1, ReassignTypes DEF AwaitedMaster, TypeOK, Select
  <2>2. CASE oa.elevator = None
    <3>1. HallOrdersOf(latest, None) \subseteq HallOrders
      BY DEF HallOrdersOf
    <3>2. Candidates(latest, None) \subseteq Elevators \cup {None}
      BY HelperTypes, ElevatorsAssumption DEF TypeOK
    <3>3. out' \subseteq Actions
      <4>1. CASE Head(masterChan) = Local
        <5>1. PICK best \in [HallOrdersOf(latest, None) -> Candidates(latest, None)] :
                out' = {Assign(o, best[o]) : o \in HallOrdersOf(latest, None)}
          BY <1>10, <2>2, <4>1 DEF AwaitedMaster, ReassignHallOrders
        <5> QED BY <3>1, <3>2, <5>1 DEF Assign, Actions, Orders
      <4>2. CASE Head(masterChan) # Local
        BY <1>10, <4>2 DEF AwaitedMaster, ReassignHallOrders
      <4> QED BY <4>1, <4>2
    <3> QED BY <1>7, <1>10, <3>3 DEF AwaitedMaster, ReassignHallOrders, TypeOK, Select
  <2> QED BY <2>1, <2>2 DEF TypeOK
<1>11. ASSUME NEW e \in Elevators, NewPeer(e) PROVE TypeOK'
  BY <1>11 DEF NewPeer, TypeOK
<1>12. CASE RestoreCabCalls
  <2>1. out' \subseteq Actions
    BY <1>12 DEF RestoreCabCalls, getReassignedCabCalls, Assign, Actions, Orders, TypeOK
  <2> QED BY <1>12, <2>1 DEF RestoreCabCalls, TypeOK, Select
<1>13. ASSUME NEW o \in HallOrders, HallCall(o) PROVE TypeOK'
  <2>1. out' \subseteq Actions
    <3>1. Candidates(latest, None) \subseteq Elevators \cup {None}
      BY HelperTypes, ElevatorsAssumption DEF TypeOK
    <3> QED BY <1>13, <3>1 DEF HallCall, Assign, Forward, Actions, Orders, TypeOK
  <2> QED BY <1>13, <2>1, ModelAssumption DEF HallCall, TypeOK
<1>14. CASE UNCHANGED vars
  BY <1>14 DEF vars, TypeOK
<1>15. CASE PeerUpdate
  <2>1. PICK new \in {{}} \cup {{e} : e \in Elevators \ known}, lost \in SUBSET (known \ {Local}) :
          monitorPeers(new, lost)
    BY <1>15 DEF PeerUpdate
  <2>2. new \in SUBSET Elevators /\ lost \in SUBSET Elevators
    BY DEF TypeOK
  <2> QED BY <1>4, <2>1, <2>2
<1> QED
  BY <1>1, <1>2, <1>3, <1>5, <1>6, <1>8, <1>9, <1>10, <1>11, <1>12, <1>13, <1>14, <1>15 DEF Next

(* Type correctness: every variable keeps its type in every behaviour. *)
THEOREM TypeCorrect == Spec => []TypeOK
<1>1. Init => TypeOK
  BY ModelAssumption, ElevatorsAssumption DEF Init, TypeOK, StatusMap, NoReport, Select
<1> QED
  BY <1>1, TypeInductive, PTL DEF Spec

-----------------------------------------------------------------------------
(* The view of the peers: the status map and its copies list the peers of the *)
(* last update, and what is reported are changes up to that update.           *)
Peers == known \cup {Local}

ViewInv ==
  /\ Listed(statuses) \cup {Local} = Peers
  /\ copy # None => Listed(copy) \cup {Local} = Peers
  /\ report.lost \cap Peers = {} /\ report.new \subseteq known

(* Steps that leave the peers and the status map alone.                       *)
LEMMA ViewKept ==
  ASSUME ViewInv, UNCHANGED <<statuses, known>>, copy' \in {copy, None, statuses},
         report'.lost \subseteq report.lost, report'.new \subseteq report.new
  PROVE  ViewInv'
BY DEF ViewInv, Peers, Listed

(* A status is an entry of the map. *)
LEMMA StatusIsListed ==
  ASSUME TypeOK, NEW e \in Elevators, NEW q \in Queues, statuses' = [statuses EXCEPT ![e] = q]
  PROVE  Listed(statuses') = Listed(statuses) \cup {e}
<1>1. q # None /\ \A f \in Elevators : statuses'[f] = IF f = e THEN q ELSE statuses[f]
  BY NoneAssumption, OrdersAssumption DEF TypeOK, StatusMap
<1> QED BY <1>1 DEF Listed

(* Ghosts are not forgotten. *)
LEMMA GhostsStay ==
  ASSUME [Next]_vars
  PROVE  ghosts \subseteq ghosts'
BY DEF Next, BroadcastElevatorStatus, ReceiveStatus, CopyStatuses, PeerUpdate, monitorPeers,
       RunMasterElection, UpdateLatest, NewMaster, AwaitedMaster, RestoreCabCalls, LostPeer,
       NewPeer, HallCall, vars, history, viewHistory

(* Every step but a status of no peer keeps the view. *)
LEMMA ViewInductive ==
  ASSUME PromptHandover, ghosts' = {}, TypeOK, ViewInv, [Next]_vars
  PROVE  ViewInv'
<1>1. ASSUME NEW q \in Queues, NEW e \in Elevators,
             (BroadcastElevatorStatus(q) /\ e = Local) \/ ReceiveStatus(e, q)
      PROVE  ViewInv'
  <2>1. /\ statuses' = [statuses EXCEPT ![e] = q] /\ UNCHANGED <<copy, report, known>>
        /\ e \in Peers
    BY <1>1 DEF BroadcastElevatorStatus, ReceiveStatus, commVars, Peers
  <2>2. Listed(statuses') = Listed(statuses) \cup {e}
    BY <2>1, StatusIsListed
  <2> QED BY <2>1, <2>2 DEF ViewInv, Peers, Listed
<1>2. CASE PeerUpdate
  <2>1. PICK new \in {{}} \cup {{e} : e \in Elevators \ known}, lost \in SUBSET (known \ {Local}) :
          monitorPeers(new, lost)
    BY <1>2 DEF PeerUpdate
  <2>2. /\ copy' = None /\ known' = (known \cup new) \ lost /\ report' = [lost |-> lost, new |-> new]
        /\ \A e \in Elevators :
             statuses'[e] = IF e \in lost THEN None
                            ELSE IF e \in new /\ statuses[e] = None THEN {} ELSE statuses[e]
    BY <2>1 DEF monitorPeers, UpdateElevatorStates
  <2>3. {} # None /\ known \subseteq Elevators /\ new \subseteq Elevators \ known
        /\ lost \subseteq known \ {Local}
    BY NoneAssumption DEF TypeOK
  <2>4. Listed(statuses') = (Listed(statuses) \cup new) \ lost
    BY <2>2, <2>3 DEF Listed
  <2> QED BY <2>2, <2>3, <2>4 DEF ViewInv, Peers, Listed
<1>3. CASE CopyStatuses \/ RunMasterElection \/ UpdateLatest
  BY <1>3, ViewKept DEF CopyStatuses, RunMasterElection, UpdateLatest, commVars
<1>4. ASSUME NEW e \in Elevators, LostPeer(e) \/ NewPeer(e) PROVE ViewInv'
  <2>1. report'.lost \subseteq report.lost /\ report'.new \subseteq report.new
    BY <1>4 DEF LostPeer, NewPeer, TypeOK
  <2> QED BY <1>4, <2>1, ViewKept DEF LostPeer, NewPeer, commVars
<1>5. ASSUME UNCHANGED <<commVars, report, known>> PROVE ViewInv'
  BY <1>5, ViewKept DEF commVars
<1>6. CASE NewMaster \/ AwaitedMaster \/ RestoreCabCalls \/ UNCHANGED vars
           \/ \E o \in HallOrders : HallCall(o)
  BY <1>5, <1>6 DEF NewMaster, AwaitedMaster, RestoreCabCalls, HallCall, vars
<1> QED BY <1>1, <1>2, <1>3, <1>4, <1>6, ElevatorsAssumption DEF Next

(* The elector finds the lowest of the peers in any map it receives.          *)
LEMMA ElectedIsLowest ==
  ASSUME ViewInv, copy # None
  PROVE  determineMaster(copy) = Lowest(Peers)
BY DEF ViewInv, determineMaster

(* The lowest of the peers is one of them. *)
LEMMA LowestPeer ==
  ASSUME TypeOK
  PROVE  Lowest(Peers) \in Peers /\ \A f \in Peers : Lowest(Peers) <= f
BY LowestIsLeast, ElevatorsAssumption DEF Peers, TypeOK

-----------------------------------------------------------------------------
(* The elections.  An elector ends when it finds the master unchanged.  The   *)
(* peers whose loss or arrival the order assignment has handled may differ    *)
(* from the present ones, and the master of one of both is found.             *)
Handled == ((known \cup report.lost) \ report.new) \cup {Local}

MasterFits == masterID \in {Lowest(Peers), Lowest(Handled)}

ElectionInv ==
  /\ masterChan # <<>> => masterChan = <<Lowest(Peers)>> /\ masterID = Lowest(Peers)
  /\ electors = 0 /\ masterChan = <<>> => MasterFits

(* A lost elevator that is not the master does not change who it is. *)
LEMMA LossKeepsMaster ==
  ASSUME TypeOK, ViewInv, MasterFits, NEW e \in report.lost, e # masterID,
         report' = [report EXCEPT !.lost = @ \ {e}], UNCHANGED <<known, masterID>>
  PROVE  MasterFits'
<1>1. e \notin Peers /\ e \notin report.new
  BY DEF ViewInv, Peers
<1>2. Handled' = Handled \ {e} /\ Peers' = Peers
  <2>1. report'.lost = report.lost \ {e} /\ report'.new = report.new
    BY DEF TypeOK
  <2> QED BY <1>1, <2>1 DEF Handled, Peers
<1>3. Handled \subseteq Elevators /\ Local \in Handled /\ Local # e
  BY <1>1, ElevatorsAssumption DEF Handled, Peers, TypeOK
<1>4. CASE masterID = Lowest(Handled)
  <2>1. /\ Lowest(Handled) \in Handled \ {e}
        /\ \A f \in Handled \ {e} : Lowest(Handled) <= f
    BY <1>3, <1>4, LowestIsLeast
  <2>2. /\ Lowest(Handled \ {e}) \in Handled \ {e}
        /\ \A f \in Handled \ {e} : Lowest(Handled \ {e}) <= f
    BY <1>3, LowestIsLeast
  <2>3. Handled \subseteq Nat
    BY <1>3, ElevatorsAssumption
  <2>4. Lowest(Handled \ {e}) = Lowest(Handled)
    BY <2>1, <2>2, <2>3
  <2> QED BY <1>2, <1>4, <2>4 DEF MasterFits
<1>5. CASE masterID = Lowest(Peers)
  BY <1>2, <1>5 DEF MasterFits
<1> QED BY <1>4, <1>5 DEF MasterFits

(* A peer update leaves the peers that have been handled as they were. *)
LEMMA UpdateKeepsMaster ==
  ASSUME TypeOK, PromptHandover, ViewInv,
         NEW new \in {{}} \cup {{e} : e \in Elevators \ known}, NEW lost \in SUBSET (known \ {Local}),
         monitorPeers(new, lost)
  PROVE  /\ report = NoReport /\ masterChan = <<>> /\ Handled' = Peers /\ Handled = Peers
         /\ MasterFits => MasterFits'
<1>1. /\ report = NoReport /\ masterChan = <<>> /\ masterID' = masterID
      /\ known' = (known \cup new) \ lost /\ report' = [lost |-> lost, new |-> new]
  BY DEF monitorPeers, electionVars
<1>2. report.lost = {} /\ report.new = {} /\ report'.lost = lost /\ report'.new = new
  BY <1>1 DEF NoReport
<1>3. new \cap known = {}
  OBVIOUS
<1>4. Handled' = Peers /\ Handled = Peers
  BY <1>1, <1>2, <1>3 DEF Handled, Peers
<1> QED BY <1>1, <1>4 DEF MasterFits

(* Every receive from masterChan finds the lowest of the peers.               *)
LEMMA ReceiveMasterFits ==
  ASSUME TypeOK, ElectionInv, ReceiveMaster
  PROVE  /\ Head(masterChan) = Lowest(Peers) /\ masterID' = Lowest(Peers)
         /\ masterChan' = <<>> /\ electors' = electors
BY DEF ReceiveMaster, ElectionInv

(* What an elector does. *)
LEMMA ElectionStep ==
  ASSUME TypeOK, TypeOK', ViewInv, ElectionInv, RunMasterElection
  PROVE  /\ masterID' = Lowest(Peers) /\ UNCHANGED <<known, report>>
         /\ \/ masterID = Lowest(Peers) /\ masterChan' = masterChan
            \/ /\ masterID # Lowest(Peers) /\ masterChan = <<>>
               /\ masterChan' = <<Lowest(Peers)>> /\ electors' = electors /\ electors > 0
<1>1. determineMaster(copy) = Lowest(Peers)
  BY ElectedIsLowest DEF RunMasterElection
<1>2. CASE masterID = Lowest(Peers)
  BY <1>1, <1>2 DEF RunMasterElection
<1>3. CASE masterID # Lowest(Peers)
  <2>1. masterChan = <<>>
    BY <1>3 DEF ElectionInv
  <2>2. /\ masterID' = Lowest(Peers) /\ masterChan' = Append(<<>>, Lowest(Peers))
        /\ electors' = electors /\ electors > 0 /\ UNCHANGED <<known, report>>
    BY <1>1, <1>3, <2>1 DEF RunMasterElection
  <2> QED BY <1>3, <2>1, <2>2
<1> QED BY <1>2, <1>3

(* Every step keeps ElectionInv. *)
LEMMA ElectionInductive ==
  ASSUME PromptHandover, TypeOK, TypeOK', ViewInv, ElectionInv, [Next]_vars
  PROVE  ElectionInv'
<1>1. ASSUME UNCHANGED <<electionVars, report, known>> PROVE ElectionInv'
  BY <1>1 DEF ElectionInv, MasterFits, Peers, Handled, electionVars
<1>2. CASE \/ \E q \in Queues : BroadcastElevatorStatus(q) \/ \E e \in Elevators : ReceiveStatus(e, q)
           \/ CopyStatuses \/ UpdateLatest \/ RestoreCabCalls
           \/ \E o \in HallOrders : HallCall(o)
           \/ UNCHANGED vars
  BY <1>1, <1>2 DEF BroadcastElevatorStatus, ReceiveStatus, CopyStatuses, UpdateLatest,
                    RestoreCabCalls, HallCall, vars
<1>3. CASE PeerUpdate
  <2>1. PICK new \in {{}} \cup {{e} : e \in Elevators \ known}, lost \in SUBSET (known \ {Local}) :
          monitorPeers(new, lost)
    BY <1>3 DEF PeerUpdate
  <2>2. masterChan = <<>> /\ (MasterFits => MasterFits') /\ UNCHANGED electionVars
    BY <2>1, UpdateKeepsMaster DEF monitorPeers
  <2> QED BY <2>2 DEF ElectionInv, electionVars
<1>4. CASE RunMasterElection
  <2>1. Peers' = Peers
    BY <1>4, ElectionStep DEF Peers
  <2> QED BY <1>4, <2>1, ElectionStep DEF ElectionInv, MasterFits
<1>5. CASE NewMaster \/ AwaitedMaster
  <2>1. ReceiveMaster /\ UNCHANGED known
    BY <1>5 DEF NewMaster, AwaitedMaster
  <2>2. Peers' = Peers
    BY <2>1 DEF Peers
  <2> QED BY <2>1, <2>2, ReceiveMasterFits DEF ElectionInv, MasterFits
<1>6. ASSUME NEW e \in Elevators, LostPeer(e) PROVE ElectionInv'
  <2>1. /\ e \in report.lost /\ report' = [report EXCEPT !.lost = @ \ {e}]
        /\ UNCHANGED <<known, masterID, masterChan>>
    BY <1>6 DEF LostPeer, NextLost
  <2>2. Peers' = Peers
    BY <2>1 DEF Peers
  <2>3. CASE e = masterID
    <3>1. electors' = electors + 1 /\ electors \in Nat
      BY <1>6, <2>3 DEF LostPeer, TypeOK
    <3> QED BY <2>1, <2>2, <3>1 DEF ElectionInv
  <2>4. CASE e # masterID
    <3>1. electors' = electors
      BY <1>6, <2>4 DEF LostPeer
    <3>2. MasterFits => MasterFits'
      BY <2>1, <2>4, LossKeepsMaster
    <3> QED BY <2>1, <2>2, <3>1, <3>2 DEF ElectionInv
  <2> QED BY <2>3, <2>4
<1>7. ASSUME NEW e \in Elevators, NewPeer(e) PROVE ElectionInv'
  <2>1. /\ electors' = electors + 1 /\ electors \in Nat /\ UNCHANGED <<known, masterID, masterChan>>
    BY <1>7 DEF NewPeer, TypeOK
  <2>2. Peers' = Peers
    BY <2>1 DEF Peers
  <2> QED BY <2>1, <2>2 DEF ElectionInv
<1> QED BY <1>2, <1>3, <1>4, <1>5, <1>6, <1>7 DEF Next

-----------------------------------------------------------------------------
(* The wait for a new master: as long as the lost one has not returned, an    *)
(* elector will find another.                                                 *)
AwaitInv ==
  oa.at = "awaitMaster" =>
    /\ oa.elevator # Local
    /\ oa.elevator \in known => oa.elevator \in report.new
    /\ oa.elevator \notin known /\ masterChan = <<>> => masterID = oa.elevator /\ electors > 0

(* Every step keeps AwaitInv. *)
LEMMA AwaitInductive ==
  ASSUME PromptHandover, TypeOK, TypeOK', ViewInv, ElectionInv, AwaitInv, [Next]_vars
  PROVE  AwaitInv'
<1>1. ASSUME UNCHANGED <<electionVars, report, known, oa>> PROVE AwaitInv'
  BY <1>1 DEF AwaitInv, electionVars
<1>2. CASE \/ \E q \in Queues : BroadcastElevatorStatus(q) \/ \E e \in Elevators : ReceiveStatus(e, q)
           \/ CopyStatuses \/ UpdateLatest
           \/ \E o \in HallOrders : HallCall(o)
           \/ UNCHANGED vars
  BY <1>1, <1>2 DEF BroadcastElevatorStatus, ReceiveStatus, CopyStatuses, UpdateLatest, HallCall, vars
<1>3. CASE PeerUpdate
  <2>1. PICK new \in {{}} \cup {{e} : e \in Elevators \ known}, lost \in SUBSET (known \ {Local}) :
          monitorPeers(new, lost)
    BY <1>3 DEF PeerUpdate
  <2>2. /\ report = NoReport /\ report'.new = new /\ known' \subseteq known \cup new
        /\ masterChan = <<>> /\ UNCHANGED <<electionVars, oa>>
    BY <2>1, UpdateKeepsMaster DEF monitorPeers
  <2> QED BY <2>2 DEF AwaitInv, NoReport, electionVars
<1>4. CASE RunMasterElection
  <2>1. oa' = oa
    BY <1>4 DEF RunMasterElection
  <2>2. Lowest(Peers) \in Peers
    BY LowestPeer
  <2>3. oa.at = "awaitMaster" /\ oa.elevator \notin known => oa.elevator \notin Peers
    BY DEF AwaitInv, Peers
  <2> QED BY <1>4, <2>1, <2>2, <2>3, ElectionStep DEF AwaitInv
<1>5. CASE NewMaster \/ AwaitedMaster \/ RestoreCabCalls \/ \E e \in Elevators : NewPeer(e)
  <2>1. oa'.at # "awaitMaster"
    BY <1>5 DEF NewMaster, AwaitedMaster, RestoreCabCalls, NewPeer, ReassignHallOrders, Select, Selecting
  <2> QED BY <2>1 DEF AwaitInv
<1>6. ASSUME NEW e \in Elevators, LostPeer(e) PROVE AwaitInv'
  <2>1. e \in report.lost /\ e \notin Peers /\ UNCHANGED <<known, masterID>>
    BY <1>6 DEF LostPeer, NextLost, ViewInv
  <2>2. CASE e = masterID
    <3>1. electors' > 0 /\ oa' = [at |-> "awaitMaster", elevator |-> e]
      BY <1>6, <2>2 DEF LostPeer, TypeOK
    <3> QED BY <2>1, <2>2, <3>1 DEF AwaitInv, Peers
  <2>3. CASE e # masterID
    BY <1>6, <2>3 DEF LostPeer, ReassignHallOrders, Select, AwaitInv
  <2> QED BY <2>2, <2>3
<1> QED BY <1>2, <1>3, <1>4, <1>5, <1>6 DEF Next

-----------------------------------------------------------------------------
(* Whom orders are given to: the status map, its copy on the way and the      *)
(* latest map list peers, elevators that were lost since each of them was     *)
(* made, and elevators that are no peers and sent a status all the same.      *)
AssignInv ==
  /\ Listed(statuses) \subseteq Peers \cup ghosts
  /\ copy # None => Listed(copy) \subseteq Peers \cup copyLost \cup ghosts
  /\ latest # None => Listed(latest) \subseteq Peers \cup lostSince \cup ghosts
  /\ report.lost \cap Peers = {} /\ report.new \subseteq known
  /\ oa.at = "restore" => oa.elevator \in Peers \cup lostSince

(* Steps that leave alone what AssignInv is about. *)
LEMMA AssignKept ==
  ASSUME AssignInv, UNCHANGED <<statuses, copy, known, latest, viewHistory>>,
         report'.lost \subseteq report.lost, report'.new \subseteq report.new,
         oa'.at = "restore" => oa' = oa \/ oa'.elevator \in known
  PROVE  AssignInv'
BY DEF AssignInv, Peers, Listed, viewHistory

(* A status lists a peer, this elevator or a ghost. *)
LEMMA StatusKeepsAssign ==
  ASSUME TypeOK, AssignInv, NEW q \in Queues, NEW e \in Elevators,
         (BroadcastElevatorStatus(q) /\ e = Local) \/ ReceiveStatus(e, q)
  PROVE  AssignInv'
<1>1. /\ statuses' = [statuses EXCEPT ![e] = q]
      /\ UNCHANGED <<copy, report, latest, oa, known, copyLost, lostSince>>
      /\ ghosts \subseteq ghosts' /\ e \in Peers \cup ghosts'
  BY DEF BroadcastElevatorStatus, ReceiveStatus, viewHistory, history, Peers
<1>2. Listed(statuses') = Listed(statuses) \cup {e}
  BY <1>1, StatusIsListed
<1> QED BY <1>1, <1>2 DEF AssignInv, Peers, Listed

(* An update takes the lost ones out of the map; they stay in its copies.     *)
LEMMA UpdateKeepsAssign ==
  ASSUME TypeOK, AssignInv,
         NEW new \in {{}} \cup {{e} : e \in Elevators \ known}, NEW lost \in SUBSET (known \ {Local}),
         monitorPeers(new, lost)
  PROVE  AssignInv'
<1>1. /\ known' = (known \cup new) \ lost /\ report' = [lost |-> lost, new |-> new]
      /\ lostSince' = lostSince \cup lost /\ ghosts' = ghosts
      /\ copy # None => copyLost' = copyLost \cup lost
      /\ UNCHANGED <<copy, latest, oa>>
      /\ \A e \in Elevators :
           statuses'[e] = IF e \in lost THEN None
                          ELSE IF e \in new /\ statuses[e] = None THEN {} ELSE statuses[e]
  BY DEF monitorPeers, UpdateElevatorStates
<1>2. new \cap lost = {} /\ Local \notin lost
  OBVIOUS
<1>3. Listed(statuses') \subseteq (Listed(statuses) \cup new) \ lost
  BY <1>1 DEF Listed
<1>4. Peers' = (Peers \cup new) \ lost
  BY <1>1, <1>2 DEF Peers
<1>5. report'.lost \cap Peers' = {} /\ report'.new \subseteq known'
  BY <1>1, <1>2, <1>4
<1> QED BY <1>1, <1>3, <1>4, <1>5 DEF AssignInv, Listed

(* Every step keeps AssignInv. *)
LEMMA AssignInductive ==
  ASSUME TypeOK, TypeOK', AssignInv, [Next]_vars
  PROVE  AssignInv'
<1>1. CASE \/ NewMaster \/ AwaitedMaster \/ RestoreCabCalls \/ UNCHANGED vars
           \/ \E o \in HallOrders : HallCall(o)
  <2>1. UNCHANGED <<statuses, copy, known, latest, viewHistory, report>>
        /\ (oa'.at = "restore" => oa' = oa)
    BY <1>1 DEF NewMaster, AwaitedMaster, RestoreCabCalls, HallCall, ReassignHallOrders, Select,
                vars, commVars, history
  <2> QED BY <2>1, AssignKept
<1>2. CASE \E q \in Queues : BroadcastElevatorStatus(q) \/ \E e \in Elevators : ReceiveStatus(e, q)
  BY <1>2, StatusKeepsAssign, ElevatorsAssumption
<1>3. CASE CopyStatuses
  <2>1. /\ copy' = statuses
        /\ UNCHANGED <<statuses, report, latest, oa, known, copyLost, lostSince, ghosts>>
    BY <1>3 DEF CopyStatuses, history, viewHistory
  <2> QED BY <2>1 DEF AssignInv, Peers, Listed
<1>4. CASE PeerUpdate
  BY <1>4, UpdateKeepsAssign DEF PeerUpdate
<1>5. CASE RunMasterElection
  <2>1. copy' = None /\ UNCHANGED <<statuses, report, latest, oa, known, lostSince, ghosts>>
    BY <1>5 DEF RunMasterElection
  <2> QED BY <2>1 DEF AssignInv, Peers, Listed
<1>6. CASE UpdateLatest
  <2>1. /\ latest' = copy /\ copy # None /\ copy' = None /\ lostSince' = copyLost
        /\ oa.at = "select" /\ UNCHANGED <<statuses, report, oa, known, ghosts>>
    BY <1>6 DEF UpdateLatest, Selecting
  <2> QED BY <2>1 DEF AssignInv, Peers, Listed
<1>7. ASSUME NEW e \in Elevators, LostPeer(e) \/ NewPeer(e) PROVE AssignInv'
  <2>1. report'.lost \subseteq report.lost /\ report'.new \subseteq report.new
    BY <1>7 DEF LostPeer, NewPeer, TypeOK
  <2>2. UNCHANGED <<statuses, copy, known, latest, viewHistory>>
    BY <1>7 DEF LostPeer, NewPeer, commVars, history
  <2>3. oa'.at = "restore" => oa'.elevator \in known
    BY <1>7 DEF LostPeer, NewPeer, NextNew, ReassignHallOrders, Select, AssignInv
  <2> QED BY <2>1, <2>2, <2>3, AssignKept
<1> QED BY <1>1, <1>2, <1>3, <1>4, <1>5, <1>6, <1>7 DEF Next

(* Where a step may assign an order to. *)
Reachable == known \cup {Local} \cup lostSince \cup ghosts

NobodyLeft == latest = None \/ Listed(latest) \cap (known \cup {Local}) \subseteq {oa.elevator}

AssignStep ==
  \A a \in out' : a.kind = "assign" =>
    a.target \in Reachable \/ (a.target = None /\ NobodyLeft)

(* findBestElevator finds one of them, or nobody when the map lists no other  *)
(* than the excluded one.                                                     *)
LEMMA CandidateFits ==
  ASSUME TypeOK, AssignInv, NEW exclude, NEW e \in Candidates(latest, exclude),
         exclude \notin Peers \/ exclude = oa.elevator
  PROVE  e \in Reachable \/ (e = None /\ NobodyLeft)
<1>1. CASE e # None
  <2>1. latest # None /\ e \in Listed(latest)
    BY <1>1 DEF Candidates
  <2> QED BY <2>1 DEF AssignInv, Peers, Reachable
<1>2. CASE e = None
  <2>1. latest = None \/ Listed(latest) \subseteq {exclude}
    <3>1. None \notin Elevators /\ Listed(latest) \subseteq Elevators
      BY NoneAssumption DEF Listed
    <3> QED BY <1>2, <3>1 DEF Candidates
  <2> QED BY <1>2, <2>1 DEF NobodyLeft, Peers
<1> QED BY <1>1, <1>2

(* A reassignment is such a step. *)
LEMMA ReassignFits ==
  ASSUME TypeOK, AssignInv, NEW e, e \notin Peers \/ e = oa.elevator, NEW master,
         ReassignHallOrders(e, master)
  PROVE  AssignStep
<1>1. CASE master = Local
  <2>1. PICK best \in [HallOrdersOf(latest, e) -> Candidates(latest, e)] :
          out' = {Assign(o, best[o]) : o \in HallOrdersOf(latest, e)}
    BY <1>1 DEF ReassignHallOrders
  <2>2. \A a \in out' : a.target \in Candidates(latest, e)
    BY <2>1 DEF Assign
  <2> QED BY <2>2, CandidateFits DEF AssignStep
<1>2. CASE master # Local
  BY <1>2 DEF ReassignHallOrders, AssignStep
<1> QED BY <1>1, <1>2

(* Every step is such a step. *)
LEMMA AssignStepHolds ==
  ASSUME TypeOK, AssignInv, Next
  PROVE  AssignStep
<1>1. CASE \/ \E q \in Queues : BroadcastElevatorStatus(q) \/ \E e \in Elevators : ReceiveStatus(e, q)
           \/ CopyStatuses \/ RunMasterElection \/ UpdateLatest \/ NewMaster \/ PeerUpdate
           \/ \E e \in Elevators : NewPeer(e)
  <2>1. out' = {}
    BY <1>1 DEF BroadcastElevatorStatus, ReceiveStatus, CopyStatuses, RunMasterElection,
                UpdateLatest, NewMaster, PeerUpdate, monitorPeers, NewPeer
  <2> QED BY <2>1 DEF AssignStep
<1>2. ASSUME NEW e \in Elevators, LostPeer(e) PROVE AssignStep
  <2>1. e \notin Peers
    BY <1>2 DEF LostPeer, NextLost, AssignInv
  <2> QED BY <1>2, <2>1, ReassignFits DEF LostPeer, AssignStep
<1>3. CASE AwaitedMaster
  BY <1>3, ReassignFits DEF AwaitedMaster
<1>4. CASE RestoreCabCalls
  <2>1. oa.elevator \in Reachable
    BY <1>4 DEF RestoreCabCalls, AssignInv, Peers, Reachable
  <2>2. \A a \in out' : a.target = oa.elevator
    BY <1>4 DEF RestoreCabCalls, Assign
  <2> QED BY <2>1, <2>2 DEF AssignStep
<1>5. ASSUME NEW o \in HallOrders, HallCall(o) PROVE AssignStep
  <2>1. CASE masterID = Local
    <3>1. PICK best \in Candidates(latest, None) : out' = {Assign(o, best)}
      BY <1>5, <2>1 DEF HallCall
    <3>2. \A a \in out' : a.target = best
      BY <3>1 DEF Assign
    <3>3. None \notin Peers
      BY NoneAssumption, ElevatorsAssumption DEF Peers, TypeOK
    <3> QED BY <3>2, <3>3, CandidateFits DEF AssignStep
  <2>2. CASE masterID # Local
    <3>1. out' = {Forward(o)}
      BY <1>5, <2>2 DEF HallCall
    <3>2. \A a \in out' : a.kind # "assign"
      BY <3>1 DEF Forward
    <3> QED BY <3>2 DEF AssignStep
  <2> QED BY <2>1, <2>2
<1> QED BY <1>1, <1>2, <1>3, <1>4, <1>5 DEF Next

(* It holds at first. *)
LEMMA AssignInitial == Init => AssignInv
BY DEF Init, AssignInv, Listed, NoReport, Select

(* Whatever arrives late and however long the goroutines wait for each other, *)
(* an order goes to this elevator, a peer, one lost since the status map in   *)
(* use was copied, or one that sent a status and is no peer; and to nobody    *)
(* only when that map lists none of them but a lost master that is back.      *)
THEOREM AssignTheorem == Spec => AssignedToPeers
<1>1. Init => TypeOK /\ AssignInv
  BY AssignInitial, ModelAssumption, ElevatorsAssumption
     DEF Init, TypeOK, StatusMap, NoReport, Select
<1>2. TypeOK /\ AssignInv /\ [Next]_vars => (TypeOK /\ AssignInv)'
  BY TypeInductive, AssignInductive
<1>3. TypeOK /\ AssignInv /\ [Next]_vars =>
        [\A a \in out' : a.kind = "assign" =>
           \/ a.target \in known \cup {Local} \cup lostSince \cup ghosts
           \/ /\ a.target = None
              /\ \/ latest = None
                 \/ Listed(latest) \cap (known \cup {Local}) \subseteq {oa.elevator}]_vars
  BY AssignStepHolds DEF AssignStep, Reachable, NobodyLeft
<1> QED BY <1>1, <1>2, <1>3, PTL DEF Spec, AssignedToPeers

-----------------------------------------------------------------------------
(* The cab calls: the backup has those of the last status, unless the         *)
(* elevator was lost again before it had sent one.  Every peer has an entry   *)
(* to be backed up.                                                           *)
CabInv ==
  /\ known \subseteq Listed(statuses)
  /\ \A e \in Elevators \ flapped : cabs[e] \subseteq getReassignedCabCalls(e)

(* Every step keeps CabInv. *)
LEMMA CabInductive ==
  ASSUME TypeOK, CabInv, [Next]_vars
  PROVE  CabInv'
<1>1. ASSUME UNCHANGED <<backups, cabs, flapped, known>>, Listed(statuses) \subseteq Listed(statuses')
      PROVE  CabInv'
  BY <1>1 DEF CabInv, getReassignedCabCalls
<1>2. CASE PeerUpdate
  <2>1. PICK new \in {{}} \cup {{e} : e \in Elevators \ known}, lost \in SUBSET (known \ {Local}) :
          monitorPeers(new, lost)
    BY <1>2 DEF PeerUpdate
  <2>2. /\ flapped' = (flapped \ (lost \cap heard)) \cup (lost \ heard)
        /\ known' = (known \cup new) \ lost
        /\ \A e \in Elevators :
             /\ statuses'[e] = IF e \in lost THEN None
                               ELSE IF e \in new /\ statuses[e] = None THEN {} ELSE statuses[e]
             /\ cabs'[e] = IF e \in lost \cap heard THEN statuses[e] \cap CabOrders ELSE cabs[e]
             /\ backups'[e] = IF e \in lost /\ statuses[e] # None THEN statuses[e] ELSE backups[e]
    BY <2>1 DEF monitorPeers, UpdateElevatorStates
  <2>3. \A e \in lost : statuses[e] # None
    BY DEF CabInv, Listed
  <2>4. ASSUME NEW e \in Elevators \ flapped' PROVE cabs'[e] \subseteq getReassignedCabCalls(e)'
    <3>1. CASE e \in lost
      <4>1. e \in heard
        BY <2>2, <2>4, <3>1
      <4> QED BY <2>2, <2>3, <3>1, <4>1 DEF getReassignedCabCalls
    <3>2. CASE e \notin lost
      <4>1. e \notin flapped
        BY <2>2, <2>4, <3>2
      <4> QED BY <2>2, <3>2, <4>1 DEF CabInv, getReassignedCabCalls
    <3> QED BY <3>1, <3>2
  <2>5. known' \subseteq Listed(statuses')
    <3>1. {} # None
      BY NoneAssumption
    <3>2. known' \subseteq Elevators
      BY <2>2 DEF TypeOK
    <3> QED BY <2>2, <3>1, <3>2 DEF CabInv, Listed
  <2> QED BY <2>4, <2>5 DEF CabInv
<1>5. ASSUME NEW q \in Queues, NEW e \in Elevators,
             (BroadcastElevatorStatus(q) /\ e = Local) \/ ReceiveStatus(e, q)
      PROVE  CabInv'
  <2>1. statuses' = [statuses EXCEPT ![e] = q] /\ UNCHANGED <<backups, cabs, flapped, known>>
    BY <1>5 DEF BroadcastElevatorStatus, ReceiveStatus, cabHistory, history
  <2>2. Listed(statuses') = Listed(statuses) \cup {e}
    BY <2>1, StatusIsListed
  <2> QED BY <1>1, <2>1, <2>2
<1>3. CASE \/ CopyStatuses \/ RunMasterElection \/ UpdateLatest \/ NewMaster \/ AwaitedMaster
           \/ RestoreCabCalls \/ UNCHANGED vars
  BY <1>1, <1>3 DEF CopyStatuses, RunMasterElection, UpdateLatest, NewMaster, AwaitedMaster,
       RestoreCabCalls, vars, commVars, cabHistory, history, Listed
<1>4. CASE \/ \E e \in Elevators : LostPeer(e) \/ NewPeer(e)
           \/ \E o \in HallOrders : HallCall(o)
  BY <1>1, <1>4 DEF LostPeer, NewPeer, HallCall, commVars, cabHistory, history, Listed
<1> QED BY <1>2, <1>3, <1>4, <1>5, ElevatorsAssumption DEF Next

(* A restore restores what the backup has. *)
LEMMA RestoreRestores ==
  ASSUME TypeOK, AssignInv, CabInv, [Next]_vars,
         oa.at = "restore", masterID = Local, latest # None, oa.elevator \notin flapped
  PROVE  cabs[oa.elevator] \subseteq {a.order : a \in out'} \/ oa' = oa
<1>1. CASE RestoreCabCalls
  <2>1. out' = {Assign(o, oa.elevator) : o \in getReassignedCabCalls(oa.elevator)}
    BY <1>1 DEF RestoreCabCalls
  <2>2. ASSUME NEW o \in getReassignedCabCalls(oa.elevator) PROVE o \in {a.order : a \in out'}
    <3>1. Assign(o, oa.elevator) \in out' /\ Assign(o, oa.elevator).order = o
      BY <2>1 DEF Assign
    <3> QED BY <3>1
  <2>3. oa.elevator \in Elevators
    BY ElevatorsAssumption DEF AssignInv, Peers, TypeOK
  <2>4. cabs[oa.elevator] \subseteq getReassignedCabCalls(oa.elevator)
    BY <2>3 DEF CabInv
  <2> QED BY <2>2, <2>4
<1>2. CASE ~RestoreCabCalls
  BY <1>2 DEF Next, BroadcastElevatorStatus, ReceiveStatus, CopyStatuses, RunMasterElection,
       PeerUpdate, monitorPeers, UpdateLatest, NewMaster, AwaitedMaster, LostPeer, NewPeer, HallCall,
       vars, Selecting
<1> QED BY <1>1, <1>2

-----------------------------------------------------------------------------
(* The inductive invariants: what holds whatever happens, and what holds of   *)
(* elections with prompt hand-overs until a status of no peer is accepted.    *)
Inv == TypeOK /\ AssignInv /\ CabInv

ElectionsInv == ghosts = {} => ViewInv /\ ElectionInv /\ AwaitInv

(* Inv holds in every reachable state. *)
THEOREM Invariance == Spec => []Inv
<1>1. Init => Inv
  <2> SUFFICES ASSUME Init PROVE Inv
    OBVIOUS
  <2>1. TypeOK
    BY ModelAssumption, ElevatorsAssumption DEF Init, TypeOK, StatusMap, NoReport, Select
  <2>2. AssignInv /\ CabInv
    BY AssignInitial DEF Init, CabInv, getReassignedCabCalls
  <2> QED BY <2>1, <2>2 DEF Inv
<1>2. Inv /\ [Next]_vars => Inv'
  BY TypeInductive, AssignInductive, CabInductive DEF Inv
<1> QED BY <1>1, <1>2, PTL DEF Spec

(* So does ElectionsInv, if hand-overs are prompt. *)
THEOREM ElectionInvariance ==
  ASSUME PromptHandover
  PROVE  Spec => []ElectionsInv
<1>1. Init => ElectionsInv
  BY DEF Init, ElectionsInv, ViewInv, ElectionInv, AwaitInv, Listed, Peers, NoReport, Select
<1>2. Inv /\ Inv' /\ ElectionsInv /\ [Next]_vars => ElectionsInv'
  <2> SUFFICES ASSUME Inv, Inv', ElectionsInv, [Next]_vars, ghosts' = {}
               PROVE  ViewInv' /\ ElectionInv' /\ AwaitInv'
    BY DEF ElectionsInv
  <2>1. ViewInv /\ ElectionInv /\ AwaitInv
    BY GhostsStay DEF ElectionsInv
  <2>2. TypeOK /\ TypeOK'
    BY DEF Inv
  <2>3. ViewInv'
    BY <2>1, <2>2, ViewInductive
  <2>4. ElectionInv'
    BY <2>1, <2>2, ElectionInductive
  <2>5. AwaitInv'
    BY <2>1, <2>2, AwaitInductive
  <2> QED BY <2>3, <2>4, <2>5
<1> QED BY <1>1, <1>2, Invariance, PTL DEF Spec

(* The order assignment never waits for a master that nobody will send,       *)
(* unless the lost one has come back or a late status has listed it again.    *)
THEOREM AwaitTheorem ==
  ASSUME PromptHandover
  PROVE  Spec => []AwaitedMasterComes
<1>1. ElectionsInv => AwaitedMasterComes
  BY DEF ElectionsInv, AwaitInv, AwaitedMasterComes, MasterIsBack
<1> QED BY <1>1, ElectionInvariance, PTL

(* Whatever was lost or came while elections were held, the master is the     *)
(* lowest of the peers when they are over, unless another has got in.         *)
THEOREM MasterTheorem ==
  ASSUME PromptHandover
  PROVE  Spec => []MasterAtRestIsLowest
<1>1. ElectionsInv => MasterAtRestIsLowest
  <2> SUFFICES ASSUME ElectionsInv, AtRest, ghosts = {} PROVE masterID = Lowest(Peers)
    BY DEF MasterAtRestIsLowest, Peers
  <2>1. Handled = Peers
    BY DEF AtRest, NoReport, Handled, Peers
  <2> QED BY <2>1 DEF ElectionsInv, AtRest, ElectionInv, MasterFits
<1> QED BY <1>1, ElectionInvariance, PTL

(* Whatever arrives late and however long hand-overs take, a returning        *)
(* elevator gets its cab calls back.                                          *)
THEOREM CabTheorem == Spec => CabCallsComeBack
<1>1. Inv /\ [Next]_vars =>
        [oa.at = "restore" /\ masterID = Local /\ latest # None /\ oa.elevator \notin flapped =>
           cabs[oa.elevator] \subseteq {a.order : a \in out'} \/ oa' = oa]_vars
  BY RestoreRestores DEF Inv
<1> QED BY <1>1, Invariance, PTL DEF Spec, CabCallsComeBack
==============================================================================
