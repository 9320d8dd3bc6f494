----------------------------- MODULE AggrStatus -----------------------------
(* How many statuses become one: a group's from its children's (monel/       *)
(* transition.go) and a service's from what the distributed argus servers    *)
(* see (darp/status.go).  The code counts statuses in an array and scans it; *)
(* here the counts are taken from the function of statuses itself.           *)
(* An operator named Bug... is a mistake a later edit could make: nothing    *)
(* uses it, it is there to show that a property would fail.                  *)
EXTENDS Integers, FiniteSets

UNKNOWN  == 0
CLEAR    == 1
WARNING  == 2
CRITICAL == 5
OVERRIDE == 6
DEPENDS  == 7
MAXSTATUS == 7

Status  == UNKNOWN..MAXSTATUS
Gravity == {"up", "down", "vote", "ietf", "self"}

Highest(S) == CHOOSE s \in S : \A r \in S : r <= s
Lowest(S)  == CHOOSE s \in S : \A r \in S : s <= r

(* The severities up to max that occur in st.                                *)
BugOccurring(st, max) == {s \in CLEAR..(max - 1) : \E c \in DOMAIN st : st[c] = s}

Occurring(st, max) == {s \in CLEAR..max : \E c \in DOMAIN st : st[c] = s}

(* How many of the voters say CLEAR to sev: the code's running sum `cum'.    *)
Cumulative(st, voters, sev) == Cardinality({c \in voters : st[c] \in CLEAR..sev})

BugMajority(n) == n \div 2

Majority(n) == (n + 1) \div 2

(* The least severity that the lesser half of the voters does not exceed.    *)
Reached(st, voters, quorum, max) ==
    {s \in CLEAR..max : Cumulative(st, voters, s) >= quorum}

(* monel: a child whose status is unknown has no vote; st \in [children ->   *)
(* Status], and a group's own gravity may be any of the five.                *)
Known(st) == {c \in DOMAIN st : st[c] # UNKNOWN}

calcAggrStatus(grav, max, st) ==
    CASE grav = "down" ->
            IF Occurring(st, max) = {} THEN UNKNOWN ELSE Highest(Occurring(st, max))
      [] grav = "up" ->
            IF Occurring(st, max) = {} THEN CLEAR ELSE Lowest(Occurring(st, max))
      [] OTHER ->
            LET best == Reached(st, Known(st), Majority(Cardinality(Known(st))), max)
            IN  IF best = {} THEN UNKNOWN ELSE Lowest(best)

(* darp: a server that is down does not count with IETF gravity, and counts  *)
(* with its most recent status otherwise.  One that reports "unknown" still  *)
(* has a vote, which no severity gets.                                       *)
Voters(grav, st, up) == {h \in DOMAIN st : up[h] \/ grav # "ietf"}

CalcAggrStatus(grav, mystatus, st, up) ==
    LET voters == Voters(grav, st, up)
        seen   == Occurring([h \in voters |-> st[h]], CRITICAL)
    IN  CASE grav = "self" -> mystatus
          [] grav = "up" -> IF seen = {} THEN CLEAR ELSE Lowest(seen)
          [] grav = "down" -> IF seen = {} THEN CLEAR ELSE Highest(seen)
          [] OTHER ->
                LET best == Reached(st, voters, Majority(Cardinality(voters)), CRITICAL)
                IN  IF best = {} THEN CLEAR ELSE Lowest(best)
=============================================================================
