-------------------------------- MODULE Feed --------------------------------
(* What the connection of a slave to a master promises about the slave's     *)
(* status updates: every one reaches the master at most once or is lost, and *)
(* nothing else does.  It does not promise their order: what a connection    *)
(* that was given up still holds may come after what its successor carried.  *)
EXTENDS Integers

CONSTANTS Masters, Statuses, Unknown

VARIABLES
    status,     \* what the slave has reported last
    waiting,    \* how many reports of each status are on their way to each master
    view        \* the status each master has for the slave

feedVars == <<status, waiting, view>>

FeedInit ==
    /\ status = Unknown
    /\ waiting = [m \in Masters |-> [st \in Statuses |-> 0]]
    /\ view = [m \in Masters |-> Unknown]

(* A report that is lost on the way to a master may be lost at once.         *)
Report(st, Lost) ==
    /\ st # status /\ status' = st
    /\ waiting' = [m \in Masters |-> IF m \in Lost THEN waiting[m] ELSE [waiting[m] EXCEPT ![st] = @ + 1]]
    /\ UNCHANGED view

Leaves(m, st) ==
    /\ waiting[m][st] > 0
    /\ waiting' = [waiting EXCEPT ![m][st] = @ - 1]

Deliver(m, st) ==
    /\ Leaves(m, st)
    /\ view' = [view EXCEPT ![m] = st]
    /\ UNCHANGED status

(* All that is on its way may be lost together, to all of the masters.       *)
Lose ==
    /\ waiting' \in [Masters -> [Statuses -> Nat]]
    /\ \A m \in Masters, st \in Statuses : waiting'[m][st] <= waiting[m][st]
    /\ UNCHANGED <<status, view>>

FeedNext ==
    \/ \E st \in Statuses, Lost \in SUBSET Masters : Report(st, Lost)
    \/ \E m \in Masters, st \in Statuses : Deliver(m, st)
    \/ Lose

FeedSpec == FeedInit /\ [][FeedNext]_feedVars
=============================================================================
