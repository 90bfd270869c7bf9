----------------------- MODULE MCInterfaceTransition -----------------------
(* Instances of InterfaceTransition for TLC: two overlapping switch          *)
(* requests, and which of the environment's behaviours each run includes.    *)
EXTENDS InterfaceTransition

CONSTANTS t1, t2

=============================================================================
