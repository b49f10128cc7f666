--------------------------- MODULE MCSingleElevator ---------------------------
(* SingleElevator for TLC: the hall buttons that exist on the panels. *)
EXTENDS SingleElevator

\* No button up on the top floor and none down on the bottom floor.
AllHallCalls ==
  {<<f, "HallUp">> : f \in 0 .. (NumFloors - 2)}
    \cup {<<f, "HallDown">> : f \in 1 .. (NumFloors - 1)}
==============================================================================
