-------------------------- MODULE MCOrderAssignment --------------------------
(* OrderAssignment for TLC: a hall order and a cab order. *)
EXTENDS OrderAssignment

Hall == {"h"}
Cab == {"c"}
\* Statuses with both orders; a new peer starts with an empty entry.
OnlyFull == {Hall \cup Cab}
==============================================================================
