-------------------------------- MODULE MCCost --------------------------------
(* Cost for TLC: the buttons that exist on the panels. *)
EXTENDS Cost

\* No button up on the top floor and none down on the bottom floor.
AllButtons == Orders \ {<<NumFloors - 1, "HallUp">>, <<0, "HallDown">>}
==============================================================================
