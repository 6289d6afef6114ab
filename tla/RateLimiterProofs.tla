------------------------- MODULE RateLimiterProofs -------------------------
(***************************************************************************)
(* Theorems about RateLimiter for any keys, any limits, any burst and any  *)
(* length of the minute.                                                   *)
(*                                                                         *)
(* The inductive invariant relates what is left in a bucket to the times   *)
(* of the admitted calls, in both directions: after any admitted call a    *)
(* bucket holds at most what that call left of a full one and the refill   *)
(* since, less what was taken since (so bursts are bounded), and at least  *)
(* the refill since the last one (so a steady caller passes).              *)
(***************************************************************************)
EXTENDS RateLimiter, TLAPS

USE RateLimiterAssumption

\* What c calls take out of a bucket, and what time d brings into k's.
Taken(c) == c * Minute
Refill(k, d) == d * PerMinute[k]

\* The bucket of k as the code keeps it, and the times its calls passed at.
BucketOK(k) ==
    /\ bucket[k] \in [made : BOOLEAN, tokens : Nat, last : Nat]
    /\ bucket[k].tokens <= Capacity(k)
    /\ bucket[k].last <= clock
    /\ admitted[k] \in Seq(0..clock)
    /\ \A i \in 1..Len(admitted[k]) : admitted[k][i] <= bucket[k].last

\* A bucket is made by a call that passes.
MadeByAdmission(k) == bucket[k].made <=> Len(admitted[k]) > 0

\* What the calls admitted since the i-th took out was there, or came since.
NotOverfull(k) ==
    \A i \in 1..Len(admitted[k]) :
        bucket[k].tokens + Taken(Len(admitted[k]) - i + 1)
            <= Capacity(k) + Refill(k, bucket[k].last - admitted[k][i])

\* The refill since the last admitted call is there.
NotUnderfull(k) ==
    LET n == Len(admitted[k])
        since == Refill(k, bucket[k].last - admitted[k][n])
    IN  n > 0 => bucket[k].tokens >= Smaller(Capacity(k), since)

Bounded(k) ==
    \A i, j \in 1..Len(admitted[k]) :
        i <= j => Taken(j - i + 1)
                    <= Capacity(k) + Refill(k, admitted[k][j] - admitted[k][i])

KeyInv(k) ==
    /\ BucketOK(k)
    /\ MadeByAdmission(k)
    /\ NotOverfull(k)
    /\ NotUnderfull(k)
    /\ Bounded(k)

IInv ==
    /\ clock \in Nat
    /\ bucket = [k \in Keys |-> bucket[k]]
    /\ admitted = [k \in Keys |-> admitted[k]]
    /\ \A k \in Keys : KeyInv(k)

-----------------------------------------------------------------------------
(* Lemmas about the refill *)

\* A bucket holds at least one call.
LEMMA CapacityType ==
    ASSUME NEW k \in Keys
    PROVE  Capacity(k) \in Nat /\ Capacity(k) >= Minute
<1> DEFINE burst == Smaller(PerMinute[k], MaxBurst)
           b == IF burst < 1 THEN 1 ELSE burst
<1>1. b \in Nat /\ b >= 1
  BY DEF Smaller
<1>2. Minute * b \in Nat /\ Minute * b >= Minute
  <2> HIDE DEF b
  <2> QED
    BY <1>1
<1> QED
  BY <1>2 DEF Capacity

\* Calls only take out, and each one the same.
LEMMA TakenIsLinear ==
    ASSUME NEW c \in Nat
    PROVE  /\ Taken(c) \in Nat
           /\ Taken(c + 1) = Taken(c) + Minute
           /\ Taken(1) = Minute
  BY DEF Taken

\* Time only brings in, and two spans of it bring what their sum does.
LEMMA RefillIsLinear ==
    ASSUME NEW k \in Keys, NEW d \in Nat, NEW e \in Nat
    PROVE  /\ Refill(k, d) \in Nat
           /\ Refill(k, d + e) = Refill(k, d) + Refill(k, e)
           /\ Refill(k, 0) = 0
<1> DEFINE P == PerMinute[k]
<1>1. P \in Nat
  OBVIOUS
<1> HIDE DEF P
<1>2. d * P \in Nat /\ (d + e) * P = d * P + e * P /\ 0 * P = 0
  BY <1>1
<1> QED
  BY <1>2 DEF Refill, P

\* A bucket is refilled to at most its capacity, and never drained by it.
LEMMA RefilledType ==
    ASSUME NEW k \in Keys, clock \in Nat, BucketOK(k)
    PROVE  /\ Refilled(k) \in Nat
           /\ Refilled(k) <= Capacity(k)
           /\ bucket[k].made => bucket[k].tokens <= Refilled(k)
           /\ bucket[k].made =>
                Refilled(k) <= bucket[k].tokens + Refill(k, clock - bucket[k].last)
<1>1. Refill(k, clock - bucket[k].last) \in Nat
  <2>1. clock - bucket[k].last \in Nat
    BY DEF BucketOK
  <2> QED
    BY <2>1, RefillIsLinear
<1>2. Capacity(k) \in Nat
  BY CapacityType
<1>3. bucket[k].tokens \in Nat /\ bucket[k].tokens <= Capacity(k)
  BY DEF BucketOK
<1> DEFINE new == Refill(k, clock - bucket[k].last)
<1>4. Refilled(k) = IF bucket[k].made THEN Smaller(Capacity(k), bucket[k].tokens + new)
                    ELSE Capacity(k)
  BY DEF Refilled, Refill
<1> HIDE DEF new
<1>5. new \in Nat
  BY <1>1 DEF new
<1>6. CASE bucket[k].made
  <2>1. Refilled(k) = Smaller(Capacity(k), bucket[k].tokens + new)
    BY <1>4, <1>6
  <2> QED
    BY <1>2, <1>3, <1>5, <2>1 DEF Smaller, new
<1>7. CASE ~bucket[k].made
  BY <1>2, <1>4, <1>7
<1> QED
  BY <1>6, <1>7

-----------------------------------------------------------------------------
(* The invariant is inductive *)

LEMMA InitInv == Init => IInv
<1> SUFFICES ASSUME Init PROVE IInv
  OBVIOUS
<1>1. ASSUME NEW k \in Keys PROVE KeyInv(k)
  <2>1. /\ bucket[k] = [made |-> FALSE, tokens |-> 0, last |-> 0]
        /\ admitted[k] = <<>> /\ clock = 0
    BY DEF Init
  <2>2. Len(admitted[k]) = 0 /\ admitted[k] \in Seq(0..clock)
    BY <2>1
  <2> QED
    BY <2>1, <2>2, CapacityType
       DEF KeyInv, BucketOK, MadeByAdmission, NotOverfull, NotUnderfull, Bounded
<1> QED
  BY <1>1 DEF IInv, Init

\* What a check of k finds, in terms of the calls admitted before it.
LEMMA RefilledBounds ==
    ASSUME NEW k \in Keys, clock \in Nat, KeyInv(k)
    PROVE  /\ \A i \in 1..Len(admitted[k]) :
                Refilled(k) + Taken(Len(admitted[k]) - i + 1)
                  <= Capacity(k) + Refill(k, clock - admitted[k][i])
           /\ LET n == Len(admitted[k])
                  since == Refill(k, clock - admitted[k][n])
              IN  n > 0 => Refilled(k) >= Smaller(Capacity(k), since)
<1> DEFINE n == Len(admitted[k])
           before(i) == Refill(k, bucket[k].last - admitted[k][i])
           since(i) == Refill(k, clock - admitted[k][i])
           new == Refill(k, clock - bucket[k].last)
<1>1. /\ n \in Nat /\ bucket[k].tokens \in Nat /\ bucket[k].last \in Nat
      /\ clock - bucket[k].last \in Nat
      /\ \A i \in 1..n : /\ admitted[k][i] \in Nat
                        /\ bucket[k].last - admitted[k][i] \in Nat
  BY DEF KeyInv, BucketOK
<1>2. new \in Nat /\ Capacity(k) \in Nat
  BY <1>1, RefillIsLinear, CapacityType
<1>3. ASSUME NEW i \in 1..n
      PROVE  before(i) \in Nat /\ since(i) = before(i) + new
  <2> DEFINE d == bucket[k].last - admitted[k][i]
             e == clock - bucket[k].last
  <2>1. d \in Nat /\ e \in Nat /\ clock - admitted[k][i] = d + e
    <3>1. /\ admitted[k][i] \in Nat /\ bucket[k].last \in Nat
          /\ d \in Nat /\ e \in Nat
      BY <1>1
    <3>2. PICK x \in Nat, y \in Nat : x = admitted[k][i] /\ y = bucket[k].last
      BY <3>1
    <3>3. clock - x = (y - x) + (clock - y)
      BY <3>2
    <3>4. d = y - x /\ e = clock - y /\ clock - admitted[k][i] = clock - x
      BY <3>2
    <3> HIDE DEF d, e
    <3> QED
      BY <3>1, <3>3, <3>4
  <2> HIDE DEF d, e
  <2>2. Refill(k, d) \in Nat /\ Refill(k, d + e) = Refill(k, d) + Refill(k, e)
    BY <2>1, RefillIsLinear
  <2> QED
    BY <2>1, <2>2 DEF d, e
<1>4. n > 0 => bucket[k].made
  BY DEF KeyInv, MadeByAdmission
<1>5. ASSUME NEW i \in 1..n
      PROVE  Refilled(k) + Taken(n - i + 1) <= Capacity(k) + since(i)
  <2>1. bucket[k].tokens + Taken(n - i + 1) <= Capacity(k) + before(i)
    BY DEF KeyInv, NotOverfull
  <2>2. Refilled(k) \in Nat /\ Refilled(k) <= bucket[k].tokens + new
    BY <1>1, <1>4, RefilledType DEF KeyInv
  <2>3. Taken(n - i + 1) \in Nat
    <3>1. n - i + 1 \in Nat
      BY <1>1
    <3> QED
      BY <3>1, TakenIsLinear
  <2>4. before(i) \in Nat /\ since(i) = before(i) + new
    BY <1>3
  <2>5. bucket[k].tokens \in Nat
    BY <1>1
  <2> QED
    BY <1>2, <2>1, <2>2, <2>3, <2>4, <2>5
<1>6. ASSUME n > 0
      PROVE  Refilled(k) >= Smaller(Capacity(k), since(n))
  <2>1. since(n) = before(n) + new /\ before(n) \in Nat
    <3>1. n \in 1..n
      BY <1>1, <1>6
    <3> QED
      BY <1>3, <3>1
  <2>2. bucket[k].tokens >= Smaller(Capacity(k), before(n))
    BY <1>6 DEF KeyInv, NotUnderfull
  <2>3. Refilled(k) = Smaller(Capacity(k), bucket[k].tokens + new)
    BY <1>4, <1>6 DEF Refilled, Refill
  <2> QED
    <3>1. bucket[k].tokens \in Nat
      BY <1>1
    <3> QED
      BY <1>2, <2>1, <2>2, <2>3, <3>1 DEF Smaller
<1> QED
  BY <1>5, <1>6

LEMMA AdmitInv ==
    ASSUME IInv, NEW k \in Keys, Admit(k)
    PROVE  KeyInv(k)'
<1> DEFINE n == Len(admitted[k])
           A == admitted[k]
           B == Append(A, clock)
           left == Refilled(k) - Minute
<1>1. KeyInv(k) /\ clock \in Nat
  BY DEF IInv
<1>2. /\ bucket'[k] = [made |-> TRUE, tokens |-> left, last |-> clock]
      /\ admitted'[k] = B /\ clock' = clock /\ Refilled(k) >= Minute
  BY DEF IInv, Admit, Admits, Look
<1>3. /\ A \in Seq(0..clock) /\ n \in Nat
      /\ \A i \in 1..n : A[i] \in 0..clock
  BY <1>1 DEF KeyInv, BucketOK
<1>4. /\ B \in Seq(0..clock) /\ Len(B) = n + 1 /\ B[n + 1] = clock
      /\ \A i \in 1..n : B[i] = A[i]
  BY <1>1, <1>3
<1>5. left \in Nat /\ left <= Capacity(k) /\ Refilled(k) \in Nat
      /\ Capacity(k) \in Nat
  BY <1>1, <1>2, RefilledType, CapacityType DEF KeyInv
<1>6. Capacity(k)' = Capacity(k)
  BY DEF Capacity
<1> HIDE DEF A, B, left, n
<1>7. BucketOK(k)'
  <2>1. \A i \in 1..(n + 1) : B[i] <= clock
    BY <1>1, <1>3, <1>4
  <2> QED
    BY <1>1, <1>2, <1>4, <1>5, <1>6, <2>1 DEF BucketOK
<1>8. MadeByAdmission(k)'
  BY <1>2, <1>3, <1>4 DEF MadeByAdmission
<1>9. ASSUME NEW i \in 1..(n + 1)
      PROVE  left + Taken(n + 1 - i + 1) <= Capacity(k) + Refill(k, clock - B[i])
  <2>1. CASE i \in 1..n
    <3>1. Refilled(k) + Taken(n - i + 1) <= Capacity(k) + Refill(k, clock - A[i])
      BY <1>1, <2>1, RefilledBounds DEF n, A
    <3>2. n - i + 1 \in Nat /\ n + 1 - i + 1 = (n - i + 1) + 1
      BY <1>3, <2>1
    <3>3. Taken(n - i + 1) \in Nat /\ Taken(n + 1 - i + 1) = Taken(n - i + 1) + Minute
      BY <3>2, TakenIsLinear
    <3>4. Refill(k, clock - A[i]) \in Nat
      <4>1. clock - A[i] \in Nat
        BY <1>1, <1>3, <2>1
      <4> QED
        BY <4>1, RefillIsLinear
    <3> QED
      BY <1>4, <1>5, <2>1, <3>1, <3>3, <3>4 DEF left
  <2>2. CASE i = n + 1
    <3>1. n + 1 - i + 1 = 1 /\ clock - B[i] = 0
      BY <1>1, <1>3, <1>4, <2>2
    <3>2. Taken(1) = Minute /\ Refill(k, 0) = 0
      BY TakenIsLinear, RefillIsLinear
    <3> QED
      BY <1>1, <1>5, <3>1, <3>2, RefilledType DEF left, KeyInv
  <2> QED
    BY <1>3, <2>1, <2>2
<1>10. NotUnderfull(k)'
  <2>1. clock - B[n + 1] = 0 /\ Refill(k, 0) = 0
    BY <1>1, <1>4, RefillIsLinear
  <2> QED
    BY <1>2, <1>4, <1>5, <1>6, <2>1 DEF NotUnderfull, Smaller
<1>11. Bounded(k)'
  <2> SUFFICES ASSUME NEW i \in 1..(n + 1), NEW j \in 1..(n + 1), i <= j
               PROVE  Taken(j - i + 1) <= Capacity(k) + Refill(k, B[j] - B[i])
    BY <1>2, <1>4, <1>6 DEF Bounded
  <2>1. CASE j \in 1..n
    <3>1. i \in 1..n
      BY <1>3, <2>1
    <3> QED
      BY <1>1, <1>4, <2>1, <3>1 DEF KeyInv, Bounded, A, n
  <2>2. CASE j = n + 1
    <3>1. left + Taken(n + 1 - i + 1) <= Capacity(k) + Refill(k, clock - B[i])
      BY <1>9
    <3>2. Taken(n + 1 - i + 1) \in Nat /\ Refill(k, clock - B[i]) \in Nat
      <4>1. clock - B[i] \in Nat /\ n + 1 - i + 1 \in Nat
        BY <1>1, <1>3, <1>4
      <4> QED
        BY <4>1, RefillIsLinear, TakenIsLinear
    <3> QED
      BY <1>3, <1>4, <1>5, <2>2, <3>1, <3>2
  <2> QED
    BY <1>3, <2>1, <2>2
<1>12. NotOverfull(k)'
  BY <1>1, <1>2, <1>3, <1>4, <1>6, <1>9 DEF NotOverfull
<1> QED
  BY <1>7, <1>8, <1>10, <1>11, <1>12 DEF KeyInv

\* A check of k refuses no first call: a new bucket is full.
LEMMA RefuseInv ==
    ASSUME IInv, NEW k \in Keys, Refuse(k)
    PROVE  KeyInv(k)'
<1> DEFINE n == Len(admitted[k])
<1>1. KeyInv(k) /\ clock \in Nat
  BY DEF IInv
<1>2. /\ bucket'[k] = [made |-> TRUE, tokens |-> Refilled(k), last |-> clock]
      /\ admitted' = admitted /\ clock' = clock
  BY DEF IInv, Refuse, Look
<1>3. Refilled(k) \in Nat /\ Refilled(k) <= Capacity(k) /\ Capacity(k) \in Nat
      /\ Capacity(k) >= Minute
  BY <1>1, RefilledType, CapacityType DEF KeyInv
<1>4. bucket[k].made
  BY <1>3 DEF Refuse, Admits, Refilled
<1>5. Capacity(k)' = Capacity(k)
  BY DEF Capacity
<1>6. BucketOK(k)'
  BY <1>1, <1>2, <1>3, <1>5 DEF BucketOK, KeyInv
<1>7. MadeByAdmission(k)'
  BY <1>1, <1>2, <1>4 DEF MadeByAdmission, KeyInv
<1>8. NotOverfull(k)' /\ NotUnderfull(k)'
  <2>1. NotOverfull(k)'
    BY <1>1, <1>2, <1>5, RefilledBounds DEF NotOverfull
  <2>2. NotUnderfull(k)'
    BY <1>1, <1>2, <1>5, RefilledBounds DEF NotUnderfull
  <2> QED
    BY <2>1, <2>2
<1>9. Bounded(k)'
  BY <1>1, <1>2, <1>5 DEF Bounded, KeyInv
<1> QED
  BY <1>6, <1>7, <1>8, <1>9 DEF KeyInv

LEMMA TickInv ==
    ASSUME IInv, NEW k \in Keys, Tick
    PROVE  KeyInv(k)'
<1>1. KeyInv(k) /\ clock \in Nat /\ clock' = clock + 1
      /\ bucket' = bucket /\ admitted' = admitted
  BY DEF IInv, Tick
<1>2. Capacity(k)' = Capacity(k)
  BY DEF Capacity
<1>3. BucketOK(k)'
  <2>1. admitted[k] \in Seq(0..(clock + 1))
    <3>1. 0..clock \subseteq 0..(clock + 1)
      BY <1>1
    <3> QED
      BY <1>1, <3>1 DEF KeyInv, BucketOK
  <2> QED
    BY <1>1, <1>2, <2>1 DEF KeyInv, BucketOK
<1> QED
  BY <1>1, <1>2, <1>3
     DEF KeyInv, MadeByAdmission, NotOverfull, NotUnderfull, Bounded

\* A step on one key leaves the others' buckets alone.
LEMMA OthersKept ==
    ASSUME IInv, NEW k \in Keys, NEW q \in Keys, q # k, Admit(k) \/ Refuse(k)
    PROVE  KeyInv(q)'
<1>1. bucket'[q] = bucket[q] /\ admitted'[q] = admitted[q] /\ clock' = clock
  BY DEF IInv, Admit, Refuse, Look
<1>2. KeyInv(q) /\ Capacity(q)' = Capacity(q)
  BY DEF IInv, Capacity
<1> QED
  BY <1>1, <1>2
     DEF KeyInv, BucketOK, MadeByAdmission, NotOverfull, NotUnderfull, Bounded

LEMMA StepInv == IInv /\ [Next]_vars => IInv'
<1> SUFFICES ASSUME IInv, [Next]_vars PROVE IInv'
  OBVIOUS
<1>1. ASSUME NEW k \in Keys, Admit(k) \/ Refuse(k) PROVE IInv'
  <2>1. ASSUME NEW q \in Keys PROVE KeyInv(q)'
    BY <1>1, <2>1, AdmitInv, RefuseInv, OthersKept
  <2>2. /\ clock' \in Nat
        /\ bucket' = [q \in Keys |-> bucket'[q]]
        /\ admitted' = [q \in Keys |-> admitted'[q]]
    BY <1>1 DEF IInv, Admit, Refuse, Look
  <2> QED
    BY <2>1, <2>2 DEF IInv
<1>2. CASE Tick
  <2>1. ASSUME NEW q \in Keys PROVE KeyInv(q)'
    BY <1>2, TickInv
  <2> QED
    BY <1>2, <2>1 DEF IInv, Tick
<1>3. CASE UNCHANGED vars
  <2>1. ASSUME NEW q \in Keys PROVE KeyInv(q)'
    BY <1>3 DEF vars, IInv, KeyInv, BucketOK, MadeByAdmission, NotOverfull,
                NotUnderfull, Bounded, Capacity
  <2> QED
    BY <1>3, <2>1 DEF IInv, vars
<1> QED
  BY <1>1, <1>2, <1>3 DEF Next

LEMMA Invariance == Spec => []IInv
  BY InitInv, StepInv, PTL DEF Spec

-----------------------------------------------------------------------------
(* What follows *)

LEMMA InvType == IInv => TypeOK
<1> SUFFICES ASSUME IInv, NEW k \in Keys, KeyInv(k), clock \in Nat
             PROVE  /\ bucket[k].made \in BOOLEAN
                    /\ bucket[k].tokens \in 0..Capacity(k)
                    /\ bucket[k].last \in 0..clock
                    /\ admitted[k] \in Seq(0..clock)
  BY DEF IInv, TypeOK
<1> QED
  BY CapacityType DEF KeyInv, BucketOK

LEMMA InvBounds == IInv => BurstAndRateBound
<1> SUFFICES ASSUME IInv, NEW k \in Keys
             PROVE  \A i, j \in DOMAIN admitted[k] :
                      i <= j => (j - i + 1) * Minute <=
                        Capacity(k) + (admitted[k][j] - admitted[k][i]) * PerMinute[k]
  BY DEF BurstAndRateBound
<1>1. KeyInv(k)
  BY DEF IInv
<1>2. DOMAIN admitted[k] = 1..Len(admitted[k])
  BY <1>1 DEF KeyInv, BucketOK
<1> QED
  BY <1>1, <1>2 DEF KeyInv, Bounded, Taken, Refill

LEMMA InvSteady == IInv => SteadyCallerPasses
<1> SUFFICES ASSUME IInv, NEW k \in Keys,
                    \/ Len(admitted[k]) = 0
                    \/ (clock - admitted[k][Len(admitted[k])]) * PerMinute[k] >= Minute
             PROVE  Admits(k)
  BY DEF SteadyCallerPasses
<1> DEFINE n == Len(admitted[k])
           since == Refill(k, clock - admitted[k][n])
<1>1. KeyInv(k) /\ clock \in Nat /\ n \in Nat
  BY DEF IInv, KeyInv, BucketOK
<1>2. Capacity(k) >= Minute /\ Capacity(k) \in Nat
  BY CapacityType
<1>3. CASE n = 0
  <2>1. ~bucket[k].made
    BY <1>1, <1>3 DEF KeyInv, MadeByAdmission, BucketOK
  <2> QED
    BY <1>2, <2>1 DEF Admits, Refilled
<1>4. CASE n > 0 /\ since >= Minute
  <2>1. Refilled(k) >= Smaller(Capacity(k), since)
    BY <1>1, <1>4, RefilledBounds
  <2>2. Refilled(k) \in Nat
    BY <1>1, RefilledType DEF KeyInv
  <2>3. since \in Nat
    <3>1. clock - admitted[k][n] \in Nat
      BY <1>1, <1>4 DEF KeyInv, BucketOK
    <3> QED
      BY <3>1, RefillIsLinear
  <2> QED
    BY <1>2, <1>4, <2>1, <2>2, <2>3 DEF Admits, Smaller
<1> QED
  BY <1>1, <1>3, <1>4 DEF Refill

\* A bucket never holds more than its capacity nor less than nothing, and its
\* last look is not in the future.  (_Bucket.consume)
THEOREM TypeCorrect == Spec => []TypeOK
  BY Invariance, InvType, PTL

\* In no window do more calls of a key pass than a full bucket and what the
\* window's time refills, whatever the order of checks and refusals.
\* (check_and_consume)
THEOREM BurstsAreBounded == Spec => []BurstAndRateBound
  BY Invariance, InvBounds, PTL

\* A caller that keeps to its rate is never refused, however many refused
\* calls its other callers make meanwhile: looking at a bucket costs nothing.
\* (_Bucket.consume refills before it refuses)
THEOREM SteadyCallersPass == Spec => []SteadyCallerPasses
  BY Invariance, InvSteady, PTL

-----------------------------------------------------------------------------
(* The lazy refill implements the bucket that fills with the clock *)

Level == [k \in Keys |-> Refilled(k)]

LEMMA InitLevel == Init => Eager!Init
<1> SUFFICES ASSUME Init PROVE Eager!Init
  OBVIOUS
<1>1. ASSUME NEW k \in Keys PROVE Refilled(k) = Capacity(k)
  BY DEF Init, Refilled
<1> QED
  BY <1>1 DEF Eager!Init

\* Right after a look the bucket holds what the look left there.
LEMMA LookedAt ==
    ASSUME NEW k \in Keys, NEW n \in Nat, n <= Capacity(k), NEW c \in Nat, clock' = c,
           bucket'[k] = [made |-> TRUE, tokens |-> n, last |-> c]
    PROVE  Refilled(k)' = n
<1>1. Capacity(k)' = Capacity(k) /\ Capacity(k) \in Nat
  BY CapacityType DEF Capacity
<1>2. Refilled(k)' = Smaller(Capacity(k), n + (c - c) * PerMinute[k])
  BY <1>1 DEF Refilled
<1>3. c - c = 0 /\ 0 * PerMinute[k] = 0
  OBVIOUS
<1> QED
  BY <1>1, <1>2, <1>3 DEF Smaller

LEMMA UntouchedLevel ==
    ASSUME NEW k \in Keys, bucket'[k] = bucket[k], clock' = clock
    PROVE  Refilled(k)' = Refilled(k)
  BY DEF Refilled, Capacity

LEMMA AdmitTakes ==
    ASSUME IInv, NEW k \in Keys, Admit(k)
    PROVE  Eager!Take(k)
<1>1. KeyInv(k) /\ clock \in Nat /\ clock' = clock /\ Refilled(k) >= Minute
  BY DEF IInv, Admit, Admits
<1>2. Refilled(k) \in Nat /\ Refilled(k) <= Capacity(k) /\ Capacity(k) \in Nat
  BY <1>1, RefilledType, CapacityType DEF KeyInv
<1>3. /\ bucket'[k] = [made |-> TRUE, tokens |-> Refilled(k) - Minute, last |-> clock']
      /\ \A q \in Keys \ {k} : bucket'[q] = bucket[q]
  BY <1>1 DEF IInv, Admit, Look
<1>4. Refilled(k)' = Refilled(k) - Minute
  <2>1. Refilled(k) - Minute \in Nat /\ Refilled(k) - Minute <= Capacity(k)
    BY <1>1, <1>2
  <2> QED
    BY <1>1, <1>3, <2>1, LookedAt
<1>5. ASSUME NEW q \in Keys \ {k} PROVE Refilled(q)' = Refilled(q)
  BY <1>1, <1>3, UntouchedLevel
<1>6. Level' = [Level EXCEPT ![k] = @ - Minute]
  BY <1>4, <1>5 DEF Level
<1> QED
  BY <1>1, <1>6 DEF Eager!Take, Level

LEMMA RefuseKeepsLevel ==
    ASSUME IInv, NEW k \in Keys, Refuse(k)
    PROVE  Level' = Level
<1>1. KeyInv(k) /\ clock \in Nat /\ clock' = clock
  BY DEF IInv, Refuse
<1>2. Refilled(k) \in Nat /\ Refilled(k) <= Capacity(k)
  BY <1>1, RefilledType DEF KeyInv
<1>3. /\ bucket'[k] = [made |-> TRUE, tokens |-> Refilled(k), last |-> clock']
      /\ \A q \in Keys \ {k} : bucket'[q] = bucket[q]
  BY <1>1 DEF IInv, Refuse, Look
<1>4. ASSUME NEW q \in Keys PROVE Refilled(q)' = Refilled(q)
  BY <1>1, <1>2, <1>3, LookedAt, UntouchedLevel
<1> QED
  BY <1>4 DEF Level

\* With the clock every bucket fills by its rate, made or not.
LEMMA TickFills ==
    ASSUME IInv, Tick
    PROVE  Eager!Fill
<1>1. ASSUME NEW k \in Keys
      PROVE  Refilled(k)' = Smaller(Capacity(k), Refilled(k) + PerMinute[k])
  <2> DEFINE d == clock - bucket[k].last
  <2>1. KeyInv(k) /\ clock \in Nat /\ clock' = clock + 1 /\ bucket' = bucket
    BY DEF IInv, Tick
  <2>2. d \in Nat /\ clock' - bucket'[k].last = d + 1 /\ bucket[k].tokens \in Nat
    BY <2>1 DEF KeyInv, BucketOK
  <2> HIDE DEF d
  <2>3. /\ Refill(k, d) \in Nat /\ PerMinute[k] \in Nat
        /\ Refill(k, d + 1) = Refill(k, d) + PerMinute[k]
    BY <2>2, RefillIsLinear DEF Refill
  <2>4. Capacity(k)' = Capacity(k) /\ Capacity(k) \in Nat
    BY CapacityType DEF Capacity
  <2>5. CASE bucket[k].made
    <3>1. Refilled(k) = Smaller(Capacity(k), bucket[k].tokens + Refill(k, d))
      BY <2>5 DEF Refilled, Refill, d
    <3>2. Refilled(k)' = Smaller(Capacity(k), bucket[k].tokens + Refill(k, d + 1))
      BY <2>1, <2>2, <2>4, <2>5 DEF Refilled, Refill
    <3> QED
      BY <2>2, <2>3, <2>4, <3>1, <3>2 DEF Smaller
  <2>6. CASE ~bucket[k].made
    <3>1. Refilled(k) = Capacity(k) /\ Refilled(k)' = Capacity(k)
      BY <2>1, <2>4, <2>6 DEF Refilled
    <3> QED
      BY <2>3, <2>4, <3>1 DEF Smaller
  <2> QED
    BY <2>5, <2>6
<1>2. Level' = [k \in Keys |-> Smaller(Capacity(k), Level[k] + PerMinute[k])]
  BY <1>1 DEF Level
<1> QED
  BY <1>2 DEF Eager!Fill, Eager!Least, Level, Smaller

LEMMA NextLevel == IInv /\ [Next]_vars => [Eager!Next]_Level
<1> SUFFICES ASSUME IInv, [Next]_vars PROVE [Eager!Next]_Level
  OBVIOUS
<1>1. ASSUME NEW k \in Keys, Admit(k) PROVE Eager!Next
  BY <1>1, AdmitTakes DEF Eager!Next
<1>2. ASSUME NEW k \in Keys, Refuse(k) PROVE Level' = Level
  BY <1>2, RefuseKeepsLevel
<1>3. CASE Tick
  BY <1>3, TickFills DEF Eager!Next
<1>4. CASE UNCHANGED vars
  BY <1>4, UntouchedLevel DEF vars, Level
<1> QED
  BY <1>1, <1>2, <1>3, <1>4 DEF Next

\* The lazy refill cannot be told from the textbook bucket: every admission
\* takes a whole call out, a refusal changes nothing, and time fills all
\* buckets, looked at or not.  (_Bucket.consume)
THEOREM Refinement == Spec => ImplementsBucket
<1>1. Eager!Spec <=> Eager!Init /\ [][Eager!Next]_Level
  BY DEF Eager!Spec, Level
<1> QED
  BY <1>1, InitLevel, NextLevel, Invariance, PTL DEF Spec, ImplementsBucket
=============================================================================
