------------------------------ MODULE MCSched ------------------------------
(* Small instances of Sched for TLC.                                         *)
EXTENDS Sched

CONSTANTS t1, t2, w0, w1, w2, c1

MCFreq     == [t \in Tasks |-> IF t = t1 THEN 2 ELSE 3]
MCPhase    == [t \in Tasks |-> IF t = t1 THEN 1 ELSE 0]
MCServes   == [w \in Workers |-> CASE w = w0 -> 0 [] w = w1 -> 1 [] w = w2 -> 2]
MCLaneCap  == [l \in Lanes |-> 1]
============================================================================
