------------------------------ MODULE MCNotify ------------------------------
(* Small instances of Notify for TLC.                                        *)
EXTENDS Notify

CONSTANTS d1, d2

(* One destination first, and both a tick later.                             *)
MCEscalate == <<[when |-> 0, dst |-> {d1}], [when |-> 1, dst |-> {d1, d2}]>>
MCStaged   == <<[when |-> 0, dst |-> {d2}], [when |-> 1, dst |-> {d1, d2}]>>
MCAtOnce   == <<[when |-> 0, dst |-> {d1, d2}]>>
MCQtime    == [d \in Dests |-> IF d = d2 THEN 1 ELSE 0]
MCNoQtime  == [d \in Dests |-> 0]
=============================================================================
