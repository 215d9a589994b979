------------------------------ MODULE MCDCSend ------------------------------
(* The instances of DCSend that TLC checks. *)
EXTENDS DCSend, TLC

CONSTANTS s1, s2

OneSession == {s1}
TwoSessions == {s1, s2}
TwoSends == [s \in OneSession |-> 2]
OneAndNoSends == [s \in TwoSessions |-> IF s = s1 THEN 1 ELSE 0]
TwoAndOneSends == [s \in TwoSessions |-> IF s = s1 THEN 2 ELSE 1]
=============================================================================
