----------------------------- MODULE MCResolver -----------------------------
(* Two monitors of one host, under one name and for IPv4 only: they may      *)
(* create its cache entry at the same time.                                  *)
EXTENDS Resolver

CONSTANTS i4, i46

OneName  == [i \in Ips |-> "host."]
Only4    == [i \in Ips |-> {4}]
MCZones  == [n \in Names |-> <<"host.">>]
MCHas    == [n \in Names |-> {4, 6}]
=============================================================================
