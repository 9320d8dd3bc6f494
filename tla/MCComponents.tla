---------------------------- MODULE MCComponents ----------------------------
(* The components that share no state with one another and are checked for   *)
(* safety, one at a time: the initial state says which.                      *)
EXTENDS Resolver, Graph, Expr, Snmp, Hwab, Probes, PingPool, Aggregates

VARIABLE part

-----------------------------------------------------------------------------
CompInit ==
    /\ part \in {"resolver", "graph", "expr", "snmp", "hwab", "probes", "ping", "aggr"}
    /\ Init /\ GraphInit /\ ExprInit /\ SnmpInit /\ HwabInit /\ ProbesInit /\ PingInit /\ AggrInit
    /\ part # "hwab" => hwab.buckets = Max(Lengths)

Only(p) ==
    /\ part = p /\ UNCHANGED part
    /\ IF p = "resolver" THEN TRUE ELSE UNCHANGED vars
    /\ IF p = "graph" THEN TRUE ELSE UNCHANGED graphVars
    /\ IF p = "expr" THEN TRUE ELSE UNCHANGED exprVars
    /\ IF p = "snmp" THEN TRUE ELSE UNCHANGED snmpVars
    /\ IF p = "hwab" THEN TRUE ELSE UNCHANGED hwabVars
    /\ IF p = "probes" THEN TRUE ELSE UNCHANGED probesVars
    /\ IF p = "ping" THEN TRUE ELSE UNCHANGED pingVars
    /\ IF p = "aggr" THEN TRUE ELSE UNCHANGED aggrVars

CompNext ==
    \/ Only("resolver") /\ Next
    \/ Only("graph") /\ GraphNext
    \/ Only("expr") /\ ExprNext
    \/ Only("snmp") /\ SnmpNext
    \/ Only("hwab") /\ HwabNext
    \/ Only("probes") /\ ProbesNext
    \/ Only("ping") /\ PingNext
    \/ Only("aggr") /\ AggrNext

CompSpec ==
    CompInit /\ [][CompNext]_<<part, vars, graphVars, exprVars, snmpVars, hwabVars, probesVars, pingVars, aggrVars>>

-----------------------------------------------------------------------------
(* resolver: a host that has IPv4 only, asked for under its name, and under  *)
(* its zone's by a monitor that wants IPv6.                                  *)
CONSTANTS i4, i6
MCNameOf == [i \in Ips |-> IF i = i4 THEN "host" ELSE "host."]
MCPref   == [i \in Ips |-> IF i = i4 THEN {4} ELSE {6}]
MCZones  == [n \in Names |-> <<"host.">>]
MCHas    == [n \in Names |-> {4}]

(* graph: two samples; Add and Get take the locks of two names.              *)
MCSamples == {[val |-> 1, status |-> CLEAR], [val |-> 3, status |-> CRITICAL]}
TwoLocks  == [x \in {"name", "file"} |-> IF x = "name" THEN 1 ELSE 2]

(* expr: a group of three services, one with no number as its result.        *)
MCXValue  == [t \in {"2", "x"} |-> IF t = "2" THEN <<2, 1>> ELSE <<7, 1>>]
MCXLeaves == [o \in {"Top:G", "Top:A"} |-> IF o = "Top:G" THEN <<"Top:A", "Top:B", "Top:C">> ELSE <<"Top:A">>]
MCXResult == [s \in {"Top:A", "Top:B", "Top:C"} |->
                 CASE s = "Top:A" -> <<5, 1>> [] s = "Top:B" -> <<3, 1>> [] s = "Top:C" -> XBad]
MCXStatus == [s \in {"Top:A", "Top:B", "Top:C"} |->
                 CASE s = "Top:A" -> CLEAR [] s = "Top:B" -> CRITICAL [] s = "Top:C" -> OVERRIDE]

(* ping: two of three services at one address.                               *)
CONSTANTS p1, p2, p3, pw1, pw2
MCAddrOf == [s \in Pinged |-> IF s = p3 THEN "b" ELSE "a"]
=============================================================================
