----------------------------- MODULE Aggregates -----------------------------
(* A group whose children, or a service whose distributed argus servers, are *)
(* the Members: one at a time they change their status, or go down or up,    *)
(* and the aggregates (AggrStatus) are what is made of it.                   *)
EXTENDS AggrStatus

CONSTANTS
    Members,        \* children, or servers
    Me              \* the server that asks

ASSUME AggregatesAssumption == IsFiniteSet(Members) /\ Me \in Members

VARIABLES
    grav,           \* the gravity, "none" before the configuration is read
    st,             \* members -> status
    up              \* servers -> whether there is a connection to it

aggrVars == <<grav, st, up>>

Reports == {UNKNOWN, CLEAR, WARNING, CRITICAL, DEPENDS}

AggrInit == grav = "none" /\ st = [m \in Members |-> UNKNOWN] /\ up = [m \in Members |-> TRUE]

AggrNext ==
    \/ grav = "none" /\ grav' \in Gravity /\ UNCHANGED <<st, up>>
    \/ /\ grav # "none"
       /\ \E m \in Members :
             \/ st' \in {[st EXCEPT ![m] = s] : s \in Reports} /\ UNCHANGED <<grav, up>>
             \/ m # Me /\ up' = [up EXCEPT ![m] = ~@] /\ UNCHANGED <<grav, st>>

AggrSpec == AggrInit /\ [][AggrNext]_aggrVars

-----------------------------------------------------------------------------
Group   == calcAggrStatus(grav, MAXSTATUS, st)
Graded  == {m \in Members : st[m] # UNKNOWN}

(* What a server reports: that a service is overridden by a dependency is    *)
(* not known to the others.                                                  *)
Said    == [m \in Members |-> IF st[m] = DEPENDS THEN UNKNOWN ELSE st[m]]
Service == CalcAggrStatus(grav, Said[Me], Said, up)

(* By vote, the group is where its median child is: no more than half of the *)
(* known children are better, and no more than half are worse                *)
(* (calcAggrStatus).                                                         *)
GroupIsMedian ==
    grav \in {"vote", "ietf", "self"} /\ Graded # {} =>
        /\ 2 * Cardinality({m \in Graded : st[m] < Group}) <= Cardinality(Graded)
        /\ 2 * Cardinality({m \in Graded : st[m] > Group}) <= Cardinality(Graded)

(* When a member whose status is known gets worse, neither aggregate gets    *)
(* better (calcAggrStatus, CalcAggrStatus).                                  *)
WorseIsNeverBetter ==
    [][grav # "none" /\ (\E m \in Members : st[m] # UNKNOWN /\ st'[m] > st[m] /\ st'[m] # DEPENDS)
          => Group' >= Group /\ Service' >= Service]_aggrVars
=============================================================================
