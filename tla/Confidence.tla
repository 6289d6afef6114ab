----------------------------- MODULE Confidence -----------------------------
(***************************************************************************)
(* How much self-healing trusts a selector strategy: a base score, raised  *)
(* a little by its successes and lowered more by its failures.             *)
(*                                                                         *)
(* The code adds and compares floats.  Here a confidence is in hundredths; *)
(* where two floats of the same hundredths differ all the same, by the     *)
(* rounding of the additions, the difference is a third of a hundredth.    *)
(***************************************************************************)
EXTENDS Integers, Sequences

\* SelectorStrategy, in the order its members are declared.
StrategyOrder == <<"TEXT_EXACT", "RESOURCE_ID", "DESCRIPTION", "TEXT_CONTAINS",
                   "RESOURCE_ID_SUFFIX", "CLASS_NAME", "BOUNDS_ONLY", "VISION">>

Strategies == {"TEXT_EXACT", "RESOURCE_ID", "DESCRIPTION", "TEXT_CONTAINS",
               "RESOURCE_ID_SUFFIX", "CLASS_NAME", "BOUNDS_ONLY", "VISION"}

\* BASE_SCORES.
BaseScore == [TEXT_EXACT |-> 100, RESOURCE_ID |-> 90, DESCRIPTION |-> 85,
              TEXT_CONTAINS |-> 80, RESOURCE_ID_SUFFIX |-> 75, CLASS_NAME |-> 50,
              BOUNDS_ONLY |-> 30, VISION |-> 20]

\* StrategyStats of one (app, action, strategy).
Stats == [success : Nat, failure : Nat]
NoStats == [success |-> 0, failure |-> 0]

Least(a, b) == IF a <= b THEN a ELSE b
Clamp(n) == IF n < 0 THEN 0 ELSE Least(n, 100)

Boost(st) == Least(5, st.success)
Penalty(st) == Least(15, 5 * st.failure)
Adjustment(st) == Boost(st) - Penalty(st)

\* get_confidence; a strategy with no history has the base score itself.
ConfidenceOf(s, st) == Clamp(BaseScore[s] + Adjustment(st))

\* The boosts and penalties with which the float base + (boost - penalty) is
\* above, and below, the float of its hundredths.
RoundedUp ==
  [s \in Strategies |->
     CASE s = "RESOURCE_ID" -> {<<2, 10>>, <<3, 10>>, <<4, 0>>, <<5, 0>>}
       [] s = "TEXT_CONTAINS" -> {<<0, 10>>, <<1, 10>>, <<2, 0>>, <<2, 10>>, <<3, 0>>,
                                  <<4, 0>>, <<4, 15>>, <<5, 0>>, <<5, 15>>}
       [] s = "VISION" -> {<<0, 5>>, <<0, 15>>, <<1, 0>>, <<1, 15>>, <<2, 10>>,
                           <<3, 15>>, <<4, 0>>, <<4, 15>>, <<5, 10>>, <<5, 15>>}
       [] OTHER -> {}]
RoundedDown ==
  [s \in Strategies |->
     CASE s \in {"TEXT_EXACT", "RESOURCE_ID_SUFFIX"} -> {<<3, 10>>}
       [] s = "DESCRIPTION" -> {<<0, 5>>, <<1, 5>>, <<4, 10>>, <<5, 10>>}
       [] s = "BOUNDS_ONLY" -> {<<0, 10>>, <<1, 10>>, <<2, 5>>, <<2, 10>>, <<2, 15>>,
                                <<3, 0>>, <<3, 5>>, <<3, 10>>, <<4, 0>>}
       [] OTHER -> {}]

\* What get_fallback_order sorts by, in thirds of a hundredth.
SortKey(s, st) ==
  LET sum == <<Boost(st), Penalty(st)>> IN
  3 * ConfidenceOf(s, st) + (IF sum \in RoundedUp[s] THEN 1 ELSE 0)
                          - (IF sum \in RoundedDown[s] THEN 1 ELSE 0)
==============================================================================
