----------------------------- MODULE RateBucket -----------------------------
(***************************************************************************)
(* The textbook token bucket: it fills by Rate[k] units with every unit of *)
(* time until it is full, and a call takes Cost units out or is refused.   *)
(***************************************************************************)
EXTENDS Naturals

CONSTANTS Keys, Rate, Cost, Full

VARIABLE level

Least(a, b) == IF a <= b THEN a ELSE b

Init == level = [k \in Keys |-> Full[k]]

Fill == level' = [k \in Keys |-> Least(Full[k], level[k] + Rate[k])]

Take(k) ==
    /\ level[k] >= Cost
    /\ level' = [level EXCEPT ![k] = @ - Cost]

Next == Fill \/ \E k \in Keys : Take(k)

Spec == Init /\ [][Next]_level
=============================================================================
