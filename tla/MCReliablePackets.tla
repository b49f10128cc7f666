-------------------------- MODULE MCReliablePackets --------------------------
(* ReliablePackets for TLC: the counters' initial values. *)
EXTENDS ReliablePackets

\* communication.go
InitialCounters ==
  [k \in Kinds |-> CASE k = "Assignment"  -> 0
                     [] k = "RawHallCall" -> 100
                     [] k = "OrderStatus" -> 200
                     [] k = "LightOrder"  -> 300]

\* what AtMostOnce needs
ASSUME CopiesDieFirst
==============================================================================
