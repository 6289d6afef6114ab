--------------------------- MODULE MCRateLimiter ----------------------------
(* A minute of three time units, a largest burst of two calls, and three   *)
(* limits: none at all, one whose period is not a whole number of time     *)
(* units, and one above the largest burst.                                 *)
EXTENDS RateLimiter

CONSTANTS k1, k2, k3

MCKeys == {k1, k2, k3}
MCPerMinute == [k \in MCKeys |-> CASE k = k1 -> 0 [] k = k2 -> 2 [] k = k3 -> 4]
=============================================================================
