# Elevator-Project: TLA+ models and proofs

The specifications in this directory model the Go program under
`src/mainProject`: several elevators that serve cab and hall calls, one process
per elevator, with a master elected among them. They are checked with TLC and,
for the theorems, with TLAPS.

File names below are relative to `src/mainProject`.

## 1. Inventory

### Components

| Component | State | Operations | What makes it correct |
|---|---|---|---|
| **singleElevator** (`singleElevator.go`, `fsm.go`, `ioEventHandler.go`, `decisions.go`, part of `orderHandler.go`) | `elevator` (floor, direction, queue, state, obstructed), four `time.Timer`s, `delayedButtonEvent` | one select loop: floor, button and obstruction events, assigned orders, four timers | the door opens only at a floor with the motor stopped; orders are cleared at their floor; every open door is on a timer; the process exits only for a real fault; every order is served |
| **message handlers** (`orderHandler.go`) | four `recent...` maps by sequence number | acknowledge, drop duplicates, process; flush old entries | a process handles a message at most once; all hall lamps agree |
| **communication** (`communication.go`, `sending.go`, `statusUpdates.go`) | sequence counters, `pendingAcks`, `elevatorStatuses`, `backupElevatorStatuses` | send with retries until an ack or five attempts; forward statuses; broadcast and copy statuses; back up lost elevators | an ack means that the message has been received; transmissions end; no channel is closed twice; statuses are those of live elevators |
| **orderAssignment** (`orderAssignment.go`, `cost.go`) | `latestElevatorStatuses` | assign a hall call to the cheapest elevator, reassign those of a lost one, restore cab calls to a new one | no accepted hall call is lost; `cost` ends, stays in range and below 999 |
| **masterElection** | `config.MasterID`, `masterChan` | goroutines that wait for a status map and elect the lowest ID in it | the master is the lowest ID among the peers, whatever comes and goes during the election; whoever waits for it is told |
| **peerMonitor**, **network/peers** | `lastSeen` | heartbeats, timeout, new and lost peers | no peer that transmits is lost, one that is silent is lost in time, and the differences add up |
| **network/bcast, conn, localip** | sockets | JSON over UDP broadcast | I/O only |
| **elevio** | the TCP connection to the elevator server | pollers and hardware commands | each change of the hardware is reported once |
| **supervisor** | none | restart a process that is gone | one process per elevator |
| **config**, **main** | constants, `LocalID` | wiring of channels with capacities 0, 1 and 20 | the goroutines never wait for each other in a circle |

### How they interact

`elevio` pollers feed the select loop of `RunSingleElevator`. Cab calls stay
there; hall calls go through `hallCallChan` to `orderAssignment`, which on a
slave forwards them to the master (`SendRawHallCall`) and on the master picks an
elevator with `cost` and sends an assignment, or puts it into
`assignedHallCallChan`. The elevator reports `Unfinished` and `Finished` to the
master (`SendOrderStatus`), and the master lights the lamps of the others
(`SendLightOrder`). All of these use `reliablePacketTransmit`; acks come back
through the loop of `RunCommunication`. Elevator statuses are broadcast after
every iteration of the select loop and every 500 ms. `peerMonitor` tells
`orderAssignment` of new and lost peers, which starts elections.

### What is hard

* Two door timers of one elevator can run at once, and the timers race with
  floor events, calls and obstructions.
* A hall call is cleared in one step and the direction chosen in the next.
* Handlers sleep (3 s) and block on channels while the world goes on.
* Messages are lost, duplicated and reordered; acks and duplicates are matched
  by numbers that several processes use.
* Counters, `elevator` and `elevatorStatuses` are shared between goroutines,
  partly without locks.
* A process may exit at any time and starts again with nothing in memory; a
  master may be lost.
* Bounded channels connect goroutines in circles.

`PROJECT.json` lists the hazards line by line with the properties that cover
them, and says for each of the others why there is none.

## 2. Modules

| Module | Models | Extends |
|---|---|---|
| `Decisions` | `decisions.go`, `hallCallClearOrder` | |
| `SingleElevator` | the select loop and its handlers, hardware, restart | `Decisions` |
| `Lift` | abstract: what an elevator promises its passengers | `Decisions` |
| `ReliablePackets` | sending, acks, duplicate maps, network, restarts | |
| `Cost` | the cost function as a step machine | `Decisions` |
| `OrderAssignment` | status maps and backups, peer monitor, electors and order assignment of one process | |
| `Peers` | heartbeats and the peer list | |
| `ChannelWiring` | the goroutines of one process and the channels between them | |
| `Lights` | hall lamps, order statuses and light orders of all elevators | |

`MCSingleElevator`, `MCReliablePackets`, `MCCost`, `MCOrderAssignment`,
`MCChannelWiring` and `MCLights` give constants their values for TLC.
`SingleElevatorProofs`, `LiftProofs`, `ReliablePacketsProofs`, `CostProofs`,
`OrderAssignmentProofs`, `PeersProofs`, `ChannelWiringProofs` and `LightsProofs`
hold the theorems.

The modules cut the system along its channels and messages, and what one of them
assumes of its environment another one shows: `Cost` takes the states that
`SingleElevator` can be in; `OrderAssignment` takes any elevator for the
cheapest one, and any peer updates with the shape that `Peers` produces (at most
one new peer, lost ones that were known); `Lights` takes messages that are
processed at most once, in any order, or given up, which `ReliablePackets`
shows; `SingleElevator` takes sends that do not block, which `ChannelWiring`
examines.

Definitions named `...Stale`, `...Untimed`, `...Forever` and so on under a
comment beginning with *Slip* are plausible bugs. They are not part of any
specification; each is substituted for the definition that follows it to see
that a property notices.

### SingleElevator

`elevator.Queue` is the set of its true cells; an order is `<<floor, button>>`.
A variable for each field of `config.Elevator` and for each timer: seconds left,
0 when its channel is ready, `Off` when stopped (with Go 1.23, `Stop` and
`Reset` leave no stale value in the channel). `cab` is the true position in half
floors: the elevator knows it only through `GetFloor` (`AtFloor`,
`SensorFloor`) and through `floorEvent`, the value the poller is blocked on.

| Action | Code |
|---|---|
| `ProcessCabButton`, `handleAssignedHallCall` (both `TakeOrder`) | `ProcessButtonPress`, `handleAssignedHallCall` up to the sleep |
| `WakeUp` | the rest of these handlers after `time.Sleep` |
| `FloorSensorEvent` | `case floorEvent`, `ProcessFloorArrival` |
| `ProcessObstruction` | `case obstructionEvent` |
| `DoorTimeout`, `OppositeTimeout` | `case <-doorTimer.C`, `case <-clearOppositeDirectionTimer.C` |
| `PowerLoss`, `ObstructedTooLong` | the other two timers, `forceShutdown` |
| `restartElevator` | the supervisor's restart and `InitElevator` |
| `MoveCab`, `Tick` | hardware and clock (external) |

`HandleStateTransition` is one operator that every handler applies to the state,
queue and reports it has come to: `Replan` (`StayIdle` or `Leave`, with
`clearLingeringHallCalls`) in Idle, `KeepDoorOpen` in DoorOpen. `sent` holds the
order statuses of the last step. `overlap` is a history variable: this process
has been in state Moving with a door timer running.

Assumptions, each a constant:

* `PromptSensor`: a floor event is handled before the cab leaves the floor. The
  loop can be late by the sleeps between acks (up to 0.1 s) and by blocking on
  `localStatusUpdateChan`. Without the assumption `MotionInv` and
  `KeepsPromises` fail: the motor stops past the sensor. All runs set it.
* `MotorFaults`: the motor may fail to reach a floor in `notMovingTimeLimit`.
  TRUE in the runs. A faulty motor ends with the process, and the orders with
  it; the behaviours without a fault are among those checked.
* The elevator server stops the motor when its client disconnects.
* `MarkAssignmentAsCompleted` is left out: it is given `msg.SeqNum`, which is
  still 0 because `SendOrderStatus` takes its message by value, and no
  assignment has number 0.
* Sends to `localStatusUpdateChan` and `orderStatusChan` do not block
  (`ChannelWiring` says when).

`Passenger == INSTANCE Lift WITH ...` maps an elevator to `Lift`: the position of
the cab, the door lamp, the queue, `outOfService` for an exited process, and
`broken` for `overlap`. `Lift` moves only with a closed door and towards an
order, opens its door and takes an order off its list only at the floor of it,
and a cab order only with an open door; only out of service it is repaired.
Timers, sensors, the pending floor event and what the elevator believes are
hidden.
`KeepsPromises == Passenger!Spec` is checked as a property and proved.

### ReliablePackets

A *call* is one call of a Send function with the goroutine it starts: unused,
loaded and stored (the two halves of `counter++`), waiting in the select of
`reliablePacketTransmit`, acked or failed. The unit of time is the first retry
interval, 200 ms. `wire[i]` says how long the last copy of a message can still
arrive: any number of times, in any order, or never.

The common part of the four handlers takes two steps and more, as the handlers
sleep between their acks for 60 to 100 ms before they process:

| Action | Code (`handleAssignedRawHallCall`; the other three alike) |
|---|---|
| `receiveMessage` | compare the addressee, look the number up, remember it, send the first ack; `inHand[n]` is the message |
| `acknowledgeAgain` | the other acks |
| `processMessage` | what the handler does with the message, after which the main loop selects again |
| `ownOrderStatus` | an order status of the master itself: no network and no ack, but the duplicate map of the slaves' statuses |

Acks are broadcast, so any process may receive one (`ReceiveAck`). `handled`
counts how often a message was processed.

`Restart(n)` is the death of a slave's process and the start of another: its
counters, `pendingAcks`, duplicate maps and goroutines are gone, its copies and
acks are still under way. What was processed by the dead process counts as
`"forgotten"`: the new one may process it once more. What it had acknowledged
and not yet processed is `"lost"`. An elevator keeps its ID over a restart only
if `ELEVATOR_ID` is set, which the supervisor does. The master is not restarted
here, because its loss makes another process the master.

### Cost

The loop of `cost`, one iteration per step. `Init` is every status that a
broadcast can carry, with the order added: all queues over the buttons of the
panels, all floors, directions and states, where a moving elevator has a next
floor. `SingleElevatorProofs!MovingTheorem` proves that elevators only have such
states. With `TornReads`, the status may also have been copied between the
writes of `State` and `Direction` in `HandleStateTransition`. The functions
`ChooseDirection`, `HasOrdersAbove` and `HasOrdersBelow` of `cost.go` are textual
copies of those in `decisions.go`.

### OrderAssignment

One process among its peers. A queue is the set of its orders and a status map
is a function from IDs to queues or `None`. The goroutines and what passes
between them:

| Action | Code |
|---|---|
| `PeerUpdate` (`monitorPeers`, `UpdateElevatorStates`) | an update reaches peerMonitor, which changes the status map at once and has the lost and new peers to report |
| `BroadcastElevatorStatus`, `ReceiveStatus` | this elevator's status, and that of another, enter `elevatorStatuses` |
| `CopyStatuses` | the periodic copy, which waits for a receiver in `elevatorStatusesChan` |
| `RunMasterElection` | an elector takes the copy: master unchanged and return, or a new one into `masterChan`, blocking while that is full |
| `UpdateLatest`, `NewMaster`, `LostPeer`, `NewPeer`, `HallCall` | the five cases of the order assignment's select |
| `AwaitedMaster` | the second half of the lost case when the master was lost: `<-masterChan` in the middle of the case |
| `RestoreCabCalls` | the second half of the new case, which reads `config.MasterID` while the elector it has started may change it |

`electors` counts the electors that wait for a map. `out` is what the last step
assigned, restored or forwarded. History variables: `owed`, the hall orders, in
the map in use, of elevators lost while no election was under way, until their
loss is handled; `copyLost` and `lostSince`, who was lost since the copy on its
way and the map in use were made; `ghosts`, whose status was accepted while it
was no peer; `heard`, `cabs` and `flapped` for the backups.

A status is accepted from anybody at any time, as in the code
(`communication.go:156`): it may be late, after its sender has been lost, or come
before the first heartbeat. Elections rest on the status map, and one that lists
an elevator that is no peer can elect it, or find a lost master unchanged and
elect nobody. `AwaitedMasterComes`, `MasterAtRestIsLowest` and `MasterSettles`
therefore speak of the time until the first such status (`ghosts = {}`);
`AssignedToPeers` and `CabCallsComeBack` do not.

One constant states an assumption about the environment. `PromptHandover`: when a
peer update comes, no copy of the status map and no value of `masterChan` is
still waiting for a receiver. It restricts peer updates only (`monitorPeers`);
electors, copies and the cases of the order assignment interleave freely after
it, also between the two halves of a case and before a loss is handled. All runs
set it. `AwaitedMasterComes`, `MasterAtRestIsLowest` and `MasterSettles` need it,
because a stale value of `masterChan` overwrites a newer master; `TypeOK`,
`AssignedToPeers` and `CabCallsComeBack` are proved without it.

### Peers

`Receiver` of `network/peers` with its socket, in ticks of time. `lastSeen` is
an age per peer. The receiver blocks on `peerUpdateCh` while its consumer is
busy, and datagrams pile up in the socket meanwhile: `backlog` is the time since
it was last found empty. Copies of an ID in the socket count as one. Ages are
counted up to the first that is too long to matter. `view` is what the consumer
makes out from the differences; peerMonitor and everything behind it see only
those.

### ChannelWiring

Five threads (main loop, communication loop, periodic broadcast, peerMonitor,
order assignment) and the goroutines in which the master's order statuses are
sent. `todo[t]` is what thread `t` still has to do before it selects again: the
sends, sleeps, `go` statements and receives of the handler it runs, in the order
of the code. `chan[c]` is the number of values in a channel. Which handlers send
what is a set of scripts, e.g. `DoorTimeout`: an order status and an elevator
status if a hall call is cleared, the departure with a possible `go
SendOrderStatus`, and the elevator status that ends every case. `LostOrNewPeer`
and `AwaitedMaster` are the cases of the order assignment that peerMonitor waits
for: if the master was lost the next one is awaited (`"await"`), which nothing
forces to come, and the master then puts up to `LostOrders` reassigned hall
orders into `assignedHallCallChan` one after the other. `RunMasterElection`
changes who the master is at any time.

The code does not limit what arrives, nor do the handlers here: `MaxStatuses`
and `MaxCalls` only end the state space, above the capacities, so that the
channels fill up and senders block. The load under which the liveness properties
hold is the antecedent `[]LightLoad` of the properties.

### Lights

The lamp of one hall button on every panel. A report is numbered when it is sent;
`statuses` and `lights` are the messages under way, each processed at most once
(`ReliablePackets!AtMostOnce`), in any order, or never: a transmission is given
up (`GiveUp`, not the master's own statuses), or the master ignores a status, its
own included, whose number another one had in the last ten seconds
(`ignoreDuplicate`; statuses about other buttons use the same numbers, so any
status can be hit). `disturbed`, `told` and `orphaned` are history variables,
about the last messages since nothing was under way. The master does not change; a slave may be restarted, and the slaves the
master knows may change.

## 3. Runs

| Run | States | Result |
|---|---|---|
| `elevator` | 361 thousand | 3 floors, the real limits (3, 8, 4, 3 s), 5 inputs, motor faults, restarts. Until the first departure with a door timer running: doors, motor and timers are safe, `Lift` is implemented, every cab order is served, and every hall order is served or parked |
| `packets` | 432 thousand | a slave that may be restarted and a master, 2 messages, 2 attempts. No process handles a message twice; no channel is closed twice; every ack is for a number that a recipient has taken up; every transmission ends |
| `cost_safety` | 622 thousand | 4 floors, every status and hall order. The simulation ends, stays in range and below 999, and never underestimates |
| `assignment` | 2.1 million | 3 elevators, 4 peer updates with a prompt hand-over, a status at any time, a call. Elections end with the lowest ID, an awaited master comes, cab calls come back; to whom an order can go, and when to nobody |
| `peers` | 377 thousand | 3 processes, timeout 3, backlog 2. No false losses, losses noticed in time, and the consumer's view settles |
| `wiring` | 117 thousand | capacities 2 and 1, loads up to one more. Under a light load everybody gets back to their select, or the order assignment awaits a master, and broadcasts go on |
| `lights` | 6.5 million | a master and 2 slaves, 4 reports, a restart, a peer update, messages lost, ignored and reordered. One undisturbed round makes all lamps agree; a lit lamp is a promise; an elevator's own lamp stays lit |

What the properties tolerate, because the code does it:

* `HallServedOrParked`: with both hall calls of a floor and nothing else in the
  queue `hallCallClearOrder` clears one, and the elevator idles on the other
  until some order makes it leave (`ioEventHandler.go:123`), although it logs "No
  pending orders" (`fsm.go:80`).
* `PhantomOnlyWhenEmpty`: an obstruction that comes and goes at an empty stop
  reports a hall call up as finished (`ioEventHandler.go:138`, the zero value).
* `AnnouncedUnlessBothSides`: with orders on both sides HallUp is cleared first
  whatever the direction is (`ioEventHandler.go:134`), and of two hall calls the
  code delays the call up even when the elevator will go down (`:118`).
* An obstruction does not keep the door open when `clearOppositeDirectionTimer`
  expires (`singleElevator.go:127`); no property says that it does.
* `CostBelowBound`: on the way down `clearCurrentFloorFromQueue` clears HallUp
  and leaves HallDown while anything is below (`cost.go:83`), so the simulated
  elevator stops there once more. Estimates are too high by that much.
* `CabServed` and `HallServedOrParked` say nothing after a departure with a door
  timer running (the run `elevator_door_timer`): the timer that is left over plans
  anew from the old floor. Without this exception they fail at five inputs.
* `AckMeansTaken`: an ack is for a number, not for a message. The ack case does
  not compare `TargetID` (`communication.go:147`), and every process counts from
  the same values, so the ack for one slave's message can end the retries of
  another's that nobody has received. And a message that is acknowledged is not
  processed yet: a process that dies in between, or is restarted later, loses it,
  and nobody sends it again (only cab calls come back, from the last status).
* `AtMostOnce` is one direction only: a message whose number another one had in
  the last ten seconds is dropped and never processed. The duplicate maps have no
  sender in their keys (`orderHandler.go:150`); the master's own order statuses
  use the counter that every process starts at 200 (`communication.go:100`), and
  two goroutines may increment it before either reads it (`sending.go:44`).
* `AwaitedMasterComes`: not when the lost master is back before the election (the
  run `assignment_master`), nor when a late status has put it back into the status
  map (`communication.go:158`): the elector finds the master unchanged in both
  cases and sends nothing.
* `AssignedToPeers`: an order can go to an elevator lost since the map in use was
  copied, or to one whose status came when it was no peer. Of two elevators that
  are lost together only the first is excluded from getting the orders of the
  first (`orderAssignment.go:33`), and the second may get them. It goes to nobody when that map lists neither this elevator nor a peer
  (before the first map, or when the only elevators in it are lost since), or
  only the lost master, back before another is found.
* `CabCallsComeBack`: not after an elevator was lost again before it had sent a
  status, which overwrites its backup with an empty entry; and only by a process
  that is the master when it gets there: an elector may change `config.MasterID`
  between `orderAssignment.go:43` and `:44`. `README.md` promises it for the cab
  calls of slaves only.
* `EveryoneReturns`: only under a light load, and an order assignment that awaits
  a master may wait for ever, and peerMonitor with it.
* `LampsAgree`, `LitLampIsKept`: messages of a round that overtook each other,
  were lost or were ignored, or that come from two elevators at a time, may leave
  the lamps in disagreement until the next round.
* `LitLampIsKept` is one direction only: an elevator that finishes an order
  turns the lamp off everywhere, also when another elevator has the same order.
  `LampsAgree` leaves out an elevator that came after the last report: nobody
  tells it which lamps are lit.

Runs that refute a statement of the source or the README:

| Run | Statement | What happens |
|---|---|---|
| `elevator_door_timer` | `singleElevator.go:109` "Transitioning from DoorOpen to Idle..." | a call during the extra door time arms `doorTimer` again; the opposite timer fires first, the elevator leaves, and `doorTimer` fires while it moves. It then clears calls at the old floor, plans anew, and can panic on `Queue[-1]` |
| `cost_torn` | `cost.go:34` "Assumes elevator is halfway between floors" | a torn status makes the simulation leave the shaft, an index out of range |
| `wiring_deadlock` | `singleElevator.go:62` "Continuously broadcasts the elevator status" | one order status more than `orderStatusChan` holds: the communication loop blocks on it and the main loop on `localStatusUpdateChan`, for ever. With the real capacity of 20 it takes 21 copies; every order status comes in 4 copies per attempt, 16 within the three seconds for which the main loop may sleep |
| `assignment_master` | `README.md:37` "A reelection is held every time a new peer enters the network" | the lost master is back before the election: the elector returns, and the order assignment waits for `masterChan` for ever |
| `assignment_forgotten` | `README.md:8` "reassign lost orders automatically" | the map is copied after the entry of the lost elevator is deleted and taken by the order assignment before it hears of the loss: it finds no orders to reassign |

### Bounds and why they suffice

* `NumFloors = 3` for the elevator: a middle floor with both hall calls and
  orders on either side; a fourth floor adds no new guard, and the safety
  properties pass with four floors as well. `cost` uses the real four.
* `MaxInputs = 5` (calls and obstruction events): both door timers, a fault, a
  restart and a second round fit, and the door timers overlap with four (with
  three the run `elevator_door_timer` passes). The safety properties pass with
  six as well.
* `ReliablePackets`: every property is about one message or a pair of them, hence
  `MaxSends = 2`. A restarted slave counts from the beginning again, while copies
  and acks of its predecessor are under way: that makes numbers collide at the
  master like those of two slaves do. With two slaves the invariants pass as well
  (4.5 million states at timeout and delay 2, up to their symmetry).
  `AtMostOnce` needs `CopiesDieFirst`: the last retry interval is at most
  `messageTimeout + 2 - NetworkDelay`. Two attempts, timeout 1 and delay 1 meet it
  exactly; in the code, with 5 attempts, intervals 1, 2, 4, 8, 16 and a timeout of
  50 units of 200 ms, it allows the network 36 units, 7.2 s.
* `CostBound = 55` is the exact maximum; at 54 the run fails.
* `OrderAssignment`: the process has ID 2 of three, so that the master can be
  above, below or itself. Four updates let a peer come, be lost, come back and
  be lost again, or two peers come and go together; one hall and one cab order,
  because orders do not interact. One status is enough to list an elevator with
  orders, or one that is no peer.
* `Peers`: `Timeout = Period + MaxBacklog`, the tightest choice: with a timeout
  of 2 or a backlog of 3 `LostWasAway` fails, and with the limits of the
  properties lowered by one they fail. In the code a tick could be 30 ms
  (interval and three sends), with a timeout of 66 ticks.
* `ChannelWiring`: capacities 2 and 1 instead of 20, of which only
  `localStatusUpdateChan` has the real one, 1; a lost elevator leaves up to two
  orders, more than `assignedHallCallChan` holds. One value more than a channel
  holds is the least that blocks a sender, so the bounds let in just that;
  `wiring_deadlock` needs no more.
* `Lights`: four reports make two overlapping rounds and an undisturbed one after
  them; weakening any of the conditions in the properties makes them fail.

### Fairness

* `SingleElevator`: weak fairness of each case of the select loop, of waking up,
  of the clock, of the motor and of the supervisor: Go's select takes a case that
  stays ready, timers expire, and the supervisor polls every five seconds. None
  for button presses and obstructions. Inputs are finite in number: with endless
  calls at other floors `doorTimer` would be armed again and again by
  `HandleStateTransition`, and no order would ever be cleared.
* `ReliablePackets`: the goroutines of a message run, a handler gets to the end of
  its acks (`processMessage`) and the main loop to the master's own statuses, and
  time passes; nothing is assumed of arrivals and acks.
* `OrderAssignment`: weak fairness of the goroutines. Electors and the order
  assignment receive from the same unbuffered channel, and each may be beaten to
  a copy by the other; a Go channel serves waiting receivers in the order in which
  they came, hence strong fairness of `RunMasterElection` and `UpdateLatest`.
  None for peers, statuses and calls.
* `Peers`: processes that are up transmit, receiver and consumer run, time
  passes. `PeersSettle` says nothing of processes that keep coming and going.
* `ChannelWiring`: strong fairness of a blocked send (senders wait in turn) and
  of each case of the two select loops and of the order assignment (select
  chooses at random among the ready cases). None for events and arrivals, for
  elections, nor for the master that the order assignment awaits.

## 4. Proofs

All theorems hold for every value of the constants that satisfies the named
assumptions.

* **Type correctness** of every specification with a state of the code. For
  `Cost` this is the statement that no index leaves the queue; it needs
  `TornReads = FALSE` and the lemma that `ChooseDirection` only leads towards an
  order.
* **`ShutdownTheorem`**: inductive strengthening `ObstructionInv`: while
  `obstructionTimer` runs, the elevator is obstructed and in DoorOpen.
* **`IdleTheorem`**, **`MovingTheorem`**: inductive by themselves, given types.
  They hold even after the two door timers have overlapped, because both facts
  are about `elevator.Floor` and not about the position of the cab.
* **`MotionTheorem`**, **`MotionSafety`** (assume `PromptSensor`): `MotionInv`
  relates what the elevator believes to where the cab is. At rest the cab is at
  `elevator.Floor`. Under way the motor runs in `direction`, and there is an
  order ahead of the cab or at the floor whose event is pending; this is why the
  cab stops before the end of the shaft, and it is lost on the first departure
  with a door timer running, hence the premise `~overlap`. It implies
  `DoorOpenAtFloor`, `NeverAgainstTheEnd`, `MotorWatched` and
  `PanicOnlyAfterOverlap`.
* **`LiftProofs!Implementation`** (assumes `PromptSensor`): `SingleElevator`
  implements `Lift`. Besides `MotionInv` a step needs two facts of the state
  before: while the clearing of an order is delayed the order is at the floor of
  the cab and the elevator stays in DoorOpen (`DelayedHere`), and with a closed
  door there is no cab order for the floor (`NoCabOrderBehindDoor`), since the
  departure clears hall calls behind a closed door. A restart is a `Repair`, and
  a process that has left with a door timer running is `broken`.
* **`PendingTheorem`**: a channel in `pendingAcks` is the open channel of a
  goroutine that still waits, and the entry has that goroutine's number. A
  colliding number replaces or deletes entries, and never leaves a closed one.
* **`AckTheorem`**: every ack under way carries the number of a message that its
  recipient has in hand, has processed, or died with (`AckInv`). A closed channel
  was in `pendingAcks` under the number of the ack that closed it, and still
  belonged to the call that has the number (`PendingInv`), whatever collides.
  Nothing is assumed of the numbers.
* **`OnceTheorem`** (assumes `CopiesDieFirst`): for a message the present process
  has handled there is an entry in its duplicate map, and the age of the entry
  plus the life of the last copy is bounded by the retry intervals, because each
  interval is one more than the sum of those before. So the entry is not flushed
  while a copy can arrive. A restart of the recipient starts it afresh.
* **`AssignTheorem`** assumes nothing about timing. `AssignInv` bounds what is
  listed where: the status map lists peers and ghosts, a copy also those lost
  since it was made, and the latest map those lost since that copy; an elevator
  whose loss peerMonitor has yet to report is no peer.
* **`CabTheorem`** assumes nothing about timing either. `CabInv`: every peer has an
  entry in the status map, so that there is something to back up when it is lost,
  and the backup has the cab calls of its last status.
* **`AwaitTheorem`**, **`MasterTheorem`** (assume `PromptHandover`): until a status
  of no peer is accepted, `ViewInv`: the status map and the copy under way list
  exactly the peers and this elevator. `ElectionInv`: a value in
  `masterChan` is the lowest peer; when no election is under way the master is the
  lowest of the peers, or the lowest of those whose loss or coming is not yet
  handled (`MasterFits`), and handling a loss that is not the master's keeps that.
  `AwaitInv` adds what `AwaitedMasterComes` needs of the goroutine that waits. That
  `Lowest` is a least element of every nonempty finite or infinite set of IDs is a
  lemma.
* **`PeersProofs`**: for every peer, the age of `lastSeen` is bounded by its
  silence plus the backlog, from which `NoFalseLoss` and `Detection` follow;
  `LostInBacklog` says that a peer reported as lost was silent before the backlog
  began. `DifferencesAddUp` from `ViewFollows`.

* **`OpenDoorTheorem`**: `OpenDoorInv` adds to `OpenDoorIsTimed` the order of the
  timers (what each implies of the state, the motor and the others), that a
  handler sleeps only for an order at its floor, and that outside of DoorOpen
  only `clearOppositeDirectionTimer` keeps a door open.
* **`PowerLossTheorem`** (assumes `PromptSensor` and `LimitsApart`):
  `ProcessFloorArrival` arms `movementTimer` at stops as well. `WatchInv` says
  that whenever it runs with the motor off, some timer that stops or renews it
  is due before it (`StopCovered`), counting the door time that may start anew
  when an obstruction goes, and that a cab which stands still with a floor event
  pending is in DoorOpen under a timer (`EventAtStop`). `LimitsApart` asks that
  two door times, and an obstruction plus a door time, are shorter than
  `notMovingTimeLimit`: 3, 4 and 8 seconds.
* **`AnnouncedTheorem`**, **`PhantomTheorem`** are about one step. The first
  needs no invariant but types: it follows from how `hallCallClearOrder` and
  `ChooseDirection` read the same queue (`ClearedCall`). The second (assumes
  `PromptSensor`) needs that the delayed call stays in the queue until its timer
  runs out (`DelayedQueued`), which rests on `MotionInv` and `DelayedHere`.
* **`EstimateTheorem`** (`TornReads = FALSE`): `EstimateInv`: for every floor that
  the simulation has served, and the one it is at, the time covers the way there
  from the start and a stop at each floor served. When it returns no order is
  left elsewhere and it has just stopped, so all floors with orders are covered.
* **`BoundTheorem`** (`TornReads = FALSE`): no estimate exceeds
  `LongestEstimate`, `(DoorOpenTime + travelTime) * (3 N^2 + N + 2)` for `N`
  floors, if `CostBound` is at least that. After its first iteration
  the simulated elevator has an order ahead of it or at its floor (`OnTheWay`),
  so that a turn always clears an order, and a sweep for each order, and the rest
  of the present one, bounds the iterations left (`SweepInv`). Every iteration
  that does not return adds `travelTime`: this is also the proof, in the form of
  a safety property, that the loop of `cost` ends. With the four floors and the
  times of the code the bound is 324, below the initial `bestCost` 999; the exact
  maximum, 55, is what the run finds.
* **`ChannelWiringProofs`**: type correctness: each thread keeps to the operations
  of its handlers and each channel to its capacity. What the module is about,
  that the threads get back to their selects, is liveness and stays with TLC.
* **`LightsProofs`**: `LightsInv`: while nothing is lost, ignored, overtaken or reported by
  two elevators at a time, the newest message under way for an elevator says what
  its lamp is going to be (`LampsFollow`) and the newest order status says what
  its sender has done (`SenderShows`); messages of one round come from one
  elevator and are handled in order (`InOrder`). `LampsAgree` and `LitLampIsKept`
  are what is left of it when nothing is under way. `OwnLampStaysLit` needs only
  that a light order never goes to the elevator that reported (`Numbered`).

Every invariant and every action property that a passing run checks is the
statement of a theorem. The inductive invariants above were checked by TLC before
they were proved. Only model-checked are the liveness properties (`CabServed`,
`HallServedOrParked`, `TransmissionEnds`, `CostTerminates`, `EveryoneReturns`,
`BroadcastsUnderLightLoad`, `MasterSettles`, `PeersSettle`): fairness is beyond the
prover. For `CostTerminates` the part that does not need fairness is
`BoundTheorem`.

## 5. Plan

Modelled: every component with behaviour of its own. What is left:

1. Proofs: that `ReliablePackets` implements a network that delivers each
   message at most once, the one `Lights` starts from, and the measures by which
   the other liveness properties could be proved, as for `cost`.
2. Change of the master in `Lights` and `ReliablePackets`: the new master knows
   neither lamps nor numbers.
3. Several processes of `OrderAssignment` with the delays of `Peers` between
   them: how long two processes may disagree on the master.

## 6. Not modelled

* `network/bcast`, `conn`, `localip`: JSON, `reflect` and sockets. bcast panics on
  messages above 1024 bytes, which these types cannot reach.
* The TCP protocol of the elevator server, lamps other than the door's and the
  hall buttons', logging, the stop button (its poller is never started).
* How the supervisor finds and starts a process. `pgrep` sees a process that hangs
  as running; a start that takes more than five seconds is repeated.
* `InitConfig`: without `ELEVATOR_ID` the ID is random, and an elevator comes back
  as another one.
* Data races other than those on the counters and on `elevator`: `config.MasterID`
  is read and written as a word; `backupElevatorStatuses` and, in `SendLightOrder`,
  `elevatorStatuses` are read without the mutex, which can end the process.
* An obstruction that is present at the start and goes within the three seconds
  of `InitElevator`: the poller never reports the change.

## 7. Running

    tlc -config SingleElevator.cfg MCSingleElevator.tla
    tlapm SingleElevatorProofs.tla

A run of `PROJECT.json` names its module and configuration.
