------------------------------ MODULE EventLog ------------------------------
(***************************************************************************)
(* What an audit log promises: it is a sequence of events that only grows, *)
(* at its end, by one event at a time, and holds no event twice.           *)
(***************************************************************************)
EXTENDS Naturals, Sequences

CONSTANT Events

VARIABLE log

Init == log = <<>>

Record(e) ==
    /\ \A i \in DOMAIN log : log[i] # e
    /\ log' = Append(log, e)

Next == \E e \in Events : Record(e)

Spec == Init /\ [][Next]_log
=============================================================================
