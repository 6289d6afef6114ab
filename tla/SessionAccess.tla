---------------------------- MODULE SessionAccess ----------------------------
(***************************************************************************)
(* What the session layer promises its user, free of pairings, registries  *)
(* and revocation lists: a token is granted once, with an end that is set  *)
(* when it is granted; the human may withdraw it at any time; the runtime  *)
(* may withdraw it by itself only once its end has passed; and withdrawn   *)
(* is for ever.  Sessions implements this specification.                   *)
(***************************************************************************)
EXTENDS Naturals

CONSTANTS
    Tokens,     \* the token ids
    MinTtl,     \* the shortest time to live a human may choose
    MaxTtl      \* the longest

VARIABLES
    now,        \* the wall clock
    access,     \* access[t]: "none", then "granted", then "withdrawn"
    until       \* until[t]: the end chosen when t was granted

vars == <<now, access, until>>

Init ==
    /\ now = 0
    /\ access = [t \in Tokens |-> "none"]
    /\ until = [t \in Tokens |-> 0]

\* The human approves: a fresh token, for a time within the limits.
Grant(t) ==
    /\ access[t] = "none"
    /\ access' = [access EXCEPT ![t] = "granted"]
    /\ \E end \in (now + MinTtl)..(now + MaxTtl) :
          until' = [until EXCEPT ![t] = end]
    /\ UNCHANGED now

\* The human disconnects one session.
Withdraw(t) ==
    /\ access[t] = "granted"
    /\ access' = [access EXCEPT ![t] = "withdrawn"]
    /\ UNCHANGED <<now, until>>

\* The runtime withdraws, by itself, what has run out, and nothing else.
Reap ==
    /\ access' = [t \in Tokens |->
                    IF access[t] = "granted" /\ until[t] <= now
                    THEN "withdrawn"
                    ELSE access[t]]
    /\ UNCHANGED <<now, until>>

\* The wall clock may be set to any time, backwards included.
SetClock ==
    /\ now' \in Nat
    /\ UNCHANGED <<access, until>>

Next ==
    \/ \E t \in Tokens : Grant(t) \/ Withdraw(t)
    \/ Reap
    \/ SetClock

Spec == Init /\ [][Next]_vars
=============================================================================
