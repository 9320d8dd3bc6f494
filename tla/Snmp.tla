-------------------------------- MODULE Snmp --------------------------------
(* A service that measures the traffic of an interface by SNMP (monitor/     *)
(* snmp): it finds the interface's number by its description, asks for the   *)
(* counter, the uptime and the description, and reports what was counted     *)
(* since the last time (rateCalc, service/testing.go).                       *)
(*                                                                           *)
(* The device may reboot and renumber its interfaces at any time, argus may  *)
(* restart.  What was sampled last is saved by argus, the last uptime and    *)
(* the numbers found are not.                                                *)
(*                                                                           *)
(* Left out: the other calculations of getValue, which are arithmetic on one *)
(* value; addresses (see Resolver); dt is 1 only when the clock has moved.   *)
EXTENDS Integers, FiniteSets

CONSTANTS
    CounterMax,     \* 0xFFFFFFFF
    HalfMax,        \* 0x7fffffff
    Increments,     \* what the interface may count in a second
    MaxSeconds, MaxReboots, MaxRenumbers, MaxRestarts, MaxLosses   \* BOUND

ASSUME SnmpAssumption ==
    CounterMax \in Nat /\ HalfMax \in Nat /\ Increments \subseteq Nat

VARIABLES
    dev,        \* boot, up: how often and for how long; at: the number of our interface;
                \* counter: its register; total: all it ever counted
    snmp,       \* argus: oid, descOid (0 is not known), uptime
    calc,       \* argus: Lastv, Lastt (0 is none); HISTORY: what it is a sample of,
                \* and whether argus restarted since (lost)
    second,     \* the clock
    poll,       \* "idle", or "get" when the number is known
    delta,      \* HISTORY: the last value reported, and of which two samples
    losses, restarts

snmpVars == <<dev, snmp, calc, second, poll, delta, losses, restarts>>

Numbers  == {1, 2}      \* one is our interface, the other is not
NoSample == [total |-> 0, boot |-> 0, up |-> 0, ours |-> TRUE, junk |-> FALSE, lost |-> FALSE]
NoDelta  == [dv |-> 0, from |-> NoSample, to |-> NoSample, lastv |-> 0]

SnmpInit ==
    /\ dev = [boot |-> 0, up |-> 0, at |-> 1, counter |-> 0, total |-> 0, moved |-> 0]
    /\ snmp = [oid |-> 0, descOid |-> 0, uptime |-> 0]
    /\ calc = [Lastv |-> 0, Lastt |-> 0, of |-> NoSample]
    /\ second = 1 /\ poll = "idle" /\ delta = NoDelta /\ losses = 0 /\ restarts = 0

-----------------------------------------------------------------------------
(* The device.                                                               *)
Second(n) ==
    /\ second < MaxSeconds /\ second' = second + 1
    /\ dev' = [dev EXCEPT !.up = @ + 1, !.total = @ + n, !.counter = (@ + n) % (CounterMax + 1)]
    /\ UNCHANGED <<snmp, calc, poll, delta, losses, restarts>>

Reboot ==
    /\ dev.boot < MaxReboots
    /\ \E at \in Numbers : dev' = [dev EXCEPT !.boot = @ + 1, !.up = 0, !.counter = 0, !.at = at]
    /\ UNCHANGED <<snmp, calc, second, poll, delta, losses, restarts>>

Renumber ==
    /\ dev.moved < MaxRenumbers
    /\ dev' = [dev EXCEPT !.at = 3 - @, !.moved = @ + 1]
    /\ UNCHANGED <<snmp, calc, second, poll, delta, losses, restarts>>

(* Argus restarts: calc is read back from disk.                              *)
Restarts ==
    /\ restarts < MaxRestarts /\ restarts' = restarts + 1
    /\ snmp' = [oid |-> 0, descOid |-> 0, uptime |-> 0]
    /\ calc' = [calc EXCEPT !.of.lost = TRUE]
    /\ poll' = "idle"
    /\ UNCHANGED <<dev, second, delta, losses>>

-----------------------------------------------------------------------------
(* rateCalc: a sample c of the value fval; `of' says what it is a sample of. *)
ResetRateCalc(c) == [c EXCEPT !.Lastt = 0, !.Lastv = 0]

Sampled(c, fval, of) == [Lastv |-> fval, Lastt |-> second, of |-> of]

Skips(c, fval) == \/ c.Lastt = 0 \/ second - c.Lastt < 1
                  \/ fval < c.Lastv /\ c.Lastv < HalfMax

(* How much it grew, going round at most once.  The comparison with a        *)
(* hundred times Lastdv that follows in the code compares dv with itself.    *)
Grown(c, fval) == IF fval < c.Lastv THEN CounterMax - c.Lastv + 1 ELSE fval - c.Lastv

rateCalc(c, fval, of) ==
    /\ calc' = IF c.Lastt # 0 /\ second - c.Lastt < 1 THEN c ELSE Sampled(c, fval, of)
    /\ delta' = IF Skips(c, fval) THEN delta
                ELSE [dv |-> Grown(c, fval), lastv |-> c.Lastv, from |-> c.of, to |-> of]

-----------------------------------------------------------------------------
(* One test.  When a step of it fails the service fails and is done.         *)
Fault ==
    /\ losses < MaxLosses /\ losses' = losses + 1

GetValues ==
    /\ poll = "idle" /\ snmp.oid # 0
    /\ poll' = "get"
    /\ UNCHANGED <<dev, snmp, calc, second, delta, losses, restarts>>

(* autoDiscover: the tables are walked until our description is found.       *)
autoDiscover ==
    /\ poll = "idle" /\ snmp.oid = 0
    /\ snmp' = [snmp EXCEPT !.oid = dev.at, !.descOid = dev.at]
    /\ poll' = "get"
    /\ UNCHANGED <<dev, calc, second, delta, losses, restarts>>

(* No answer to the Get, or no uptime in it.                                 *)
NoAnswer ==
    /\ poll = "get" /\ poll' = "idle" /\ Fault
    /\ UNCHANGED <<dev, snmp, calc, second, delta, restarts>>

BugRebooted(up) == FALSE

Rebooted(up) == up < snmp.uptime

(* verifyResults: a reboot is seen by the uptime, another interface under    *)
(* the number by its description, which may be missing.                      *)
AfterUptime == IF Rebooted(dev.up) THEN ResetRateCalc(calc) ELSE calc

NoDescription ==
    /\ poll = "get" /\ poll' = "idle" /\ Fault
    /\ snmp' = [snmp EXCEPT !.uptime = dev.up]
    /\ calc' = AfterUptime
    /\ UNCHANGED <<dev, second, delta, restarts>>

Reconfigured ==
    /\ poll = "get" /\ poll' = "idle"
    /\ snmp.descOid # dev.at
    /\ snmp' = [snmp EXCEPT !.uptime = dev.up, !.oid = 0]
    /\ calc' = ResetRateCalc(calc)
    /\ UNCHANGED <<dev, second, delta, losses, restarts>>

(* The value goes to CheckValue, which reads what is no number as 0.         *)
Measured(junk) ==
    /\ poll = "get" /\ poll' = "idle"
    /\ snmp.descOid = dev.at
    /\ snmp' = [snmp EXCEPT !.uptime = dev.up]
    /\ rateCalc(AfterUptime,
                IF junk \/ snmp.oid # dev.at THEN 0 ELSE dev.counter,
                [total |-> dev.total, boot |-> dev.boot, up |-> dev.up,
                 ours |-> snmp.oid = dev.at, junk |-> junk, lost |-> FALSE])
    /\ UNCHANGED <<dev, second, restarts>>

Value == Measured(FALSE) /\ UNCHANGED losses
NoNumber == Measured(TRUE) /\ Fault

SnmpNext ==
    \/ \E n \in Increments : Second(n)
    \/ Reboot \/ Renumber \/ Restarts
    \/ GetValues \/ autoDiscover \/ NoAnswer \/ NoDescription \/ Reconfigured \/ Value \/ NoNumber

SnmpSpec == SnmpInit /\ [][SnmpNext]_snmpVars

-----------------------------------------------------------------------------
(* What is reported was counted by our interface, between the two samples:   *)
(* never by another one that got its number, and never more, not even when   *)
(* the counter goes round or the device reboots.  There are two exceptions,  *)
(* which the code does not see: one of the samples was no number; and the    *)
(* device had rebooted, was up for longer than before or argus restarted     *)
(* meanwhile, and the counter had been in its upper half, from which a reset *)
(* looks like going round (verifyResults, rateCalc).                         *)
PassedBetween(d) == d.to.total - d.from.total

UnseenReboot(d) ==
    /\ d.from.boot # d.to.boot
    /\ d.from.lost \/ d.to.up >= d.from.up

RatesAreTrue ==
    delta # NoDelta =>
        /\ delta.from.ours /\ delta.to.ours
        /\ delta.from.boot = delta.to.boot \/ UnseenReboot(delta)
        /\ \/ delta.from.junk \/ delta.to.junk
           \/ delta.dv <= PassedBetween(delta)
           \/ UnseenReboot(delta) /\ delta.lastv >= HalfMax
=============================================================================
