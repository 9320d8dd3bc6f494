------------------------------ MODULE MCMonel ------------------------------
(* Small trees for TLC: a group of two services with an alias of the group,  *)
(* which reads the same services; and a chain below a top group.             *)
EXTENDS Monel

CONSTANTS top, group, alias, s1, s2, u1, u2

MCUsers == {u1, u2}
MCSymmetry == Permutations(MCUsers)

MCOnly  == {group}
MCUpper == {top, group}
MCAlias == {group, alias, s1, s2}
MCChain == {top, group, s1}

MCKids == [m \in Mons |-> CASE m = top -> {group, alias} \cap Mons
                            [] m = group -> {s1, s2} \cap Mons
                            [] m = alias -> {s1, s2}
                            [] OTHER -> {}]
MCUps  == [m \in Mons |-> CASE m = top -> {}
                            [] m = group -> {top, alias} \cap Mons
                            [] m = alias -> {top} \cap Mons
                            [] OTHER -> {group}]
MCDown == [m \in Mons |-> CASE m = top -> SetToSeq({group, alias} \cap Mons)
                            [] m = group -> SetToSeq({s1, s2} \cap Mons)
                            [] OTHER -> <<>>]
MCNoNeeds == [m \in Mons |-> {}]
MCNeeds   == [m \in Mons |-> IF m = s1 THEN {s2} ELSE {}]
MCGrav    == [m \in Mons |-> IF m = top THEN "vote" ELSE IF m = alias THEN "up" ELSE "down"]
============================================================================
