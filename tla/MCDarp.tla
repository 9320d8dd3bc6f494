------------------------------- MODULE MCDarp -------------------------------
(* A slave with its masters.                                                 *)
EXTENDS Darp

CONSTANTS m1, m2
=============================================================================
