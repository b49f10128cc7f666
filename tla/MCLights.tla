-------------------------------- MODULE MCLights --------------------------------
(* Slaves are alike for the checks of Lights, which are about safety. *)
EXTENDS Lights, TLC

SlavesAlike == Permutations(Slaves)
================================================================================
