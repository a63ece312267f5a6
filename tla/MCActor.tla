------------------------------- MODULE MCActor -------------------------------
(* Small instances of the runtime actor for TLC. *)
EXTENDS ActorProperties

CONSTANTS s1, s2, s3

RankOne == [s \in {s1} |-> 1]
RankTwo == [s \in {s1, s2} |-> IF s = s1 THEN 1 ELSE 2]
FloorOne == [s \in {s1} |-> 2]
FloorTwo == [s \in {s1, s2} |-> IF s = s1 THEN 1 ELSE 2]

==============================================================================
