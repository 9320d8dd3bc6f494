----------------------------- MODULE MCService -----------------------------
(* A service tested by ping on a master with one slave.  The run checks      *)
(* liveness, so it uses no symmetry.                                         *)
EXTENDS Service

CONSTANTS w1, t1, t2, me, s1
=============================================================================
