----------------------------- MODULE MCPingPool -----------------------------
(* Three services at two addresses, a channel for one and two workers.       *)
EXTENDS PingPool

CONSTANTS s1, s2, s3, w1, w2

MCAddrOf == [s \in Pinged |-> IF s = s3 THEN "b" ELSE "a"]
=============================================================================
