---------------------------- MODULE RateLimiter -----------------------------
(***************************************************************************)
(* RateLimiter.check_and_consume and _Bucket.consume                       *)
(* (adroid/permissions/gate.py): one bucket per (token, capability) pair,  *)
(* made full by its first call, refilled only when a call looks at it, for *)
(* the time since the previous look, refused calls included.               *)
(*                                                                         *)
(* The check, the refill and the decrement are under one lock, and so is   *)
(* the reading of the clock, so a check is one action.                     *)
(*                                                                         *)
(* Simplifications: the floats are integers in units of 1/Minute of a call *)
(* (rounding is not modelled), and the clock moves by whole time units.    *)
(***************************************************************************)
EXTENDS Integers, Sequences

CONSTANTS
    Keys,           \* (token id, capability) pairs
    PerMinute,      \* PerMinute[k]: the grant's rate_limit_per_minute, or 60
    Minute,         \* time units in a minute: 60 seconds
    MaxBurst,       \* 100.0, the largest capacity
    MaxTime         \* bound of the model: the last value of the clock

ASSUME RateLimiterAssumption ==
    /\ PerMinute \in [Keys -> Nat]
    /\ Minute \in Nat \ {0}
    /\ MaxBurst \in Nat \ {0}
    /\ MaxTime \in Nat

VARIABLES
    clock,      \* time.monotonic()
    bucket,     \* bucket[k]: the _Bucket, with "made" FALSE if there is none
    admitted    \* admitted[k]: when the calls of k that passed were made

vars == <<clock, bucket, admitted>>

-----------------------------------------------------------------------------
Smaller(a, b) == IF a <= b THEN a ELSE b

\* max(1.0, min(per_minute, 100.0)), in units.
Capacity(k) ==
    LET burst == Smaller(PerMinute[k], MaxBurst)
    IN  Minute * (IF burst < 1 THEN 1 ELSE burst)

\* Mutant: the refill is not cut off at the capacity.
RefilledUncapped(k) ==
    IF bucket[k].made
    THEN bucket[k].tokens + (clock - bucket[k].last) * PerMinute[k]
    ELSE Capacity(k)

\* Mutant: a new bucket starts empty.
RefilledFromEmpty(k) ==
    IF bucket[k].made
    THEN Smaller(Capacity(k),
                 bucket[k].tokens + (clock - bucket[k].last) * PerMinute[k])
    ELSE 0

\* The tokens a check finds: those of the last look and the refill since.
Refilled(k) ==
    IF bucket[k].made
    THEN Smaller(Capacity(k),
                 bucket[k].tokens + (clock - bucket[k].last) * PerMinute[k])
    ELSE Capacity(k)

\* Is there a whole call in the bucket?
Admits(k) == Refilled(k) >= Minute

Init ==
    /\ clock = 0
    /\ bucket = [k \in Keys |-> [made |-> FALSE, tokens |-> 0, last |-> 0]]
    /\ admitted = [k \in Keys |-> <<>>]

Look(k, tokens) ==
    bucket' = [bucket EXCEPT ![k] = [made |-> TRUE, tokens |-> tokens, last |-> clock]]

\* check_and_consume returns.
Admit(k) ==
    /\ Admits(k)
    /\ Look(k, Refilled(k) - Minute)
    /\ admitted' = [admitted EXCEPT ![k] = Append(@, clock)]
    /\ UNCHANGED clock

\* Mutant: a refused call moves last_refill without crediting the refill.
RefuseForgetsRefill(k) ==
    /\ ~Admits(k)
    /\ Look(k, bucket[k].tokens)
    /\ UNCHANGED <<clock, admitted>>

\* check_and_consume raises RateLimitedError, having refilled the bucket.
Refuse(k) ==
    /\ ~Admits(k)
    /\ Look(k, Refilled(k))
    /\ UNCHANGED <<clock, admitted>>

Tick ==
    /\ clock < MaxTime
    /\ clock' = clock + 1
    /\ UNCHANGED <<bucket, admitted>>

Next ==
    \/ \E k \in Keys : Admit(k) \/ Refuse(k)
    \/ Tick

Spec == Init /\ [][Next]_vars

-----------------------------------------------------------------------------
(* Properties *)

\* Type invariant.
TypeOK ==
    /\ clock \in Nat
    /\ \A k \in Keys :
         /\ bucket[k].made \in BOOLEAN
         /\ bucket[k].tokens \in 0..Capacity(k)
         /\ bucket[k].last \in 0..clock
         /\ admitted[k] \in Seq(0..clock)

\* The calls of one key admitted between any two of them are at most a full
\* bucket and what the time between the two refills, for every window.
BurstAndRateBound ==
    \A k \in Keys : \A i, j \in DOMAIN admitted[k] :
        i <= j => (j - i + 1) * Minute <=
                     Capacity(k) + (admitted[k][j] - admitted[k][i]) * PerMinute[k]

\* A caller that keeps to its rate is never refused: the first call passes,
\* and so does one made a full period after the last that passed, however many
\* refused calls lie between.
SteadyCallerPasses ==
    \A k \in Keys :
        LET n == Len(admitted[k])
        IN  n = 0 \/ (clock - admitted[k][n]) * PerMinute[k] >= Minute => Admits(k)

\* The lazy refill cannot be told from a bucket that fills with the clock.
Eager == INSTANCE RateBucket WITH
    Rate <- PerMinute, Cost <- Minute,
    Full <- [k \in Keys |-> Capacity(k)],
    level <- [k \in Keys |-> Refilled(k)]

ImplementsBucket == Eager!Spec
=============================================================================
