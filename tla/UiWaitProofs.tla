---------------------------- MODULE UiWaitProofs -----------------------------
(***************************************************************************)
(* Theorems about UiWait for any number of waiting, finding and tapping    *)
(* threads, any elements, any timeout, poll interval, stable count, length *)
(* of a dump and lifetime of the cache.                                    *)
(*                                                                         *)
(* The inductive invariant says, for each place a call may be at, how much *)
(* of its time is gone and still to come (Timely), what it has seen of the *)
(* fact it waits for (Honest), and how long ago the elements it carries    *)
(* were on the screen (Recent); and the same of the cached state.          *)
(***************************************************************************)
EXTENDS UiWait, SequenceTheorems, TLAPS

LEMMA BlankWith == ASSUME NEW n
                   PROVE  [Blank EXCEPT !.facts = n] = [facts |-> n, unread |-> {}]
  BY DEF Blank

USE WaitAssumption

Requests == Conditions \cup {NoRequest, Find}
Hashes == [nodes : SUBSET Elements] \cup [nodes : SUBSET Elements, poll : Nat]

Calls == [at : Places, request : Requests, elapsed : Nat, left : Nat,
          ws : WorldStates, hashes : SUBSET Hashes, stable : Nat,
          dumps : Seq(SUBSET Elements), saw : SUBSET BOOLEAN, answer : Answers]

CachedStates == [cached : {TRUE}, nodes : SUBSET Elements, age : 0..(CacheTTL + 1)]

Types ==
  /\ screen \in Screens
  /\ seenAge \in [Elements -> 0..AgeCap]
  /\ cache \in CachedStates \cup {NoState}
  /\ th \in [Threads -> Calls]

\* Which calls a thread makes, and where they can be.
Role(t, c) ==
  /\ c.at = "idle" => c = Idle
  /\ (c.at = "answered") = (c.answer # "none")
  /\ t \in Waiters => /\ c.at # "tap"
                      /\ c.at # "idle" => c.request \in Conditions
                      /\ c.answer \notin {"found", "unmatched"}
  /\ t \in Finders => /\ c.at \notin {"loop", "sleep"}
                      /\ c.request \in {NoRequest, Find}
                      /\ c.elapsed = 0 /\ c.dumps = <<>>
                      /\ c.answer \notin {"timeout", "satisfied"}

Polled(n) == n * PollInterval

\* The time a call has left at its place, and what was polled in the time gone.
Timely(t, c) ==
  /\ c.at \in InDump => c.left <= DumpMax
  /\ c.at = "sleep" => c.left <= PollInterval
  /\ c.at \notin InDump \cup {"sleep"} => c.left = 0
  /\ t \in Waiters =>
       /\ c.at \in {"loop", "answered"} => c.elapsed < LateMax
       /\ c.at \in InDump => c.elapsed + c.left < Timeout + DumpMax
       /\ c.at = "check" => c.elapsed < Timeout + DumpMax
       /\ c.at = "sleep" => c.elapsed + c.left < LateMax
       /\ c.answer = "timeout" => c.elapsed >= Timeout
       /\ c.answer = "satisfied" => c.elapsed < Timeout + DumpMax
       /\ IF c.answer = "satisfied" THEN Polled(Len(c.dumps)) <= c.elapsed + PollInterval
          ELSE IF c.at = "sleep" THEN Polled(Len(c.dumps)) <= c.elapsed + c.left
          ELSE Polled(Len(c.dumps)) <= c.elapsed

\* The fact a call waits for has been on the screen if it is so now, and off
\* it if it is so now, since the call's dump began.
Watches(c) ==
  /\ c.request.fact \in screen => TRUE \in c.saw
  /\ c.request.fact \notin screen => FALSE \in c.saw

\* What a dump reports of the fact was so while it was made.
Reported(c) ==
  /\ c.request.fact \in c.ws.facts => TRUE \in c.saw
  /\ c.request.fact \notin c.ws.facts => FALSE \in c.saw \/ c.request.fact \in c.ws.unread

WaitsForFact(c) == c.request.kind \in {"appears", "disappears"}

Honest(c) ==
  /\ c.at = "nodes" => c.ws = Blank
  /\ c.at = "detect" => c.ws.facts \subseteq Elements /\ c.ws.unread \subseteq Elements
  /\ WaitsForFact(c) =>
       /\ c.at \in InDump => Watches(c)
       /\ c.at = "detect" /\ c.request.fact \in Elements => Reported(c)
       /\ c.at = "check" => Reported(c)
       /\ c.answer = "satisfied" =>
            IF c.request.kind = "appears" THEN TRUE \in c.saw
            ELSE FALSE \in c.saw \/ c.request.fact \in c.ws.unread

\* An element read in a dump was on the screen when the dump had no more than
\* this much time left, and a finder's no longer ago than the cache allows.
Recent(t, c) ==
  \A e \in Nodes(c.ws) :
    /\ c.at = "detect" => seenAge[e] + c.left <= DumpMax
    /\ t \in Finders /\ c.at \in {"check", "tap", "answered"} =>
         seenAge[e] <= CacheTTL + DumpMax

CallInv(t, c) == Role(t, c) /\ Timely(t, c) /\ Honest(c) /\ Recent(t, c)

\* What is on the screen has just been seen, and what is in the cache was on
\* the screen at most one dump before the cached state's age.
AgesInv ==
  /\ \A e \in screen \cap Elements : seenAge[e] = 0
  /\ cache # NoState => \A e \in cache.nodes : seenAge[e] <= DumpMax + cache.age

IInv ==
  /\ Types
  /\ AgesInv
  /\ \A t \in Threads : CallInv(t, th[t])

------------------------------------------------------------------------------
(* Types                                                                    *)

LEMMA IdleTyped == Idle \in Calls
<1>1. {} \in SUBSET Hashes /\ <<>> \in Seq(SUBSET Elements) /\ {} \in SUBSET BOOLEAN
  OBVIOUS
<1>2. Blank \in WorldStates
  BY DEF Blank, WorldStates
<1> QED
  BY <1>1, <1>2 DEF Idle, Calls, Places, Requests, Answers

\* The fields of a call.
LEMMA CallFields ==
  ASSUME NEW c \in Calls
  PROVE  /\ c.at \in Places /\ c.request \in Requests /\ c.elapsed \in Nat
         /\ c.left \in Nat /\ c.ws \in WorldStates /\ c.hashes \in SUBSET Hashes
         /\ c.stable \in Nat /\ c.dumps \in Seq(SUBSET Elements)
         /\ c.saw \in SUBSET BOOLEAN /\ c.answer \in Answers
  BY DEF Calls

LEMMA FactsOfStates ==
  ASSUME NEW ws \in WorldStates
  PROVE  ws.facts \subseteq Facts /\ ws.unread \subseteq Facts
         /\ Nodes(ws) \subseteq Elements /\ Nodes(ws) \subseteq ws.facts
  BY DEF WorldStates, Nodes

LEMMA BlankState == Blank \in WorldStates /\ Nodes(Blank) = {}
  BY DEF Blank, WorldStates, Nodes

\* What a wait for a fact sees of the screen.
LEMMA SawWatches ==
  ASSUME NEW c \in Calls, NEW s
  PROVE  /\ Saw(c, s) \in SUBSET BOOLEAN
         /\ WaitsForFact(c) => /\ c.request.fact \in s => TRUE \in Saw(c, s)
                               /\ c.request.fact \notin s => FALSE \in Saw(c, s)
<1>1. CASE ~WaitsForFact(c)
  BY <1>1 DEF Saw, WaitsForFact
<1>2. CASE WaitsForFact(c)
  <2>1. Saw(c, s) = {c.request.fact \in s}
    BY <1>2 DEF Saw, WaitsForFact
  <2>2. CASE c.request.fact \in s
    <3>1. (c.request.fact \in s) = TRUE
      BY <2>2
    <3> QED
      BY <2>1, <2>2, <3>1
  <2>3. CASE c.request.fact \notin s
    <3>1. (c.request.fact \in s) = FALSE
      BY <2>3
    <3> QED
      BY <2>1, <2>3, <3>1
  <2> QED
    BY <2>2, <2>3
<1> QED
  BY <1>1, <1>2

\* A wait for a fact names one.
LEMMA FactNamed ==
  ASSUME NEW c \in Calls, WaitsForFact(c)
  PROVE  c.request.fact \in Facts
<1>1. c.request \in Requests
  BY CallFields
<1> QED
  BY <1>1 DEF Requests, Conditions, NoRequest, Find, WaitsForFact

LEMMA PolledRounds ==
  ASSUME NEW n \in Nat
  PROVE  Polled(n) \in Nat /\ Polled(n + 1) = Polled(n) + PollInterval /\ Polled(0) = 0
  BY DEF Polled

------------------------------------------------------------------------------
(* Steps of one thread                                                      *)

LEMMA InitInv == Init => IInv
<1> SUFFICES ASSUME Init PROVE IInv
  OBVIOUS
<1>1. Types
  <2>1. AgeCap \in Nat
    BY DEF AgeCap
  <2>2. \A t \in Threads : th[t] \in Calls
    BY IdleTyped DEF Init
  <2> QED
    BY <2>1, <2>2 DEF Init, Types
<1>2. AgesInv
  BY DEF Init, AgesInv, NoState
<1>3. ASSUME NEW t \in Threads PROVE CallInv(t, th[t])
  <2>1. th[t] = Idle
    BY DEF Init
  <2>2. Role(t, Idle)
    BY DEF Role, Idle, NoRequest
  <2>3. Timely(t, Idle)
    BY PolledRounds DEF Timely, Idle, InDump
  <2>4. Honest(Idle)
    BY DEF Honest, Idle, WaitsForFact, NoRequest, InDump
  <2>5. Recent(t, Idle)
    BY BlankState DEF Recent, Idle
  <2> QED
    BY <2>1, <2>2, <2>3, <2>4, <2>5 DEF CallInv
<1> QED
  BY <1>1, <1>2, <1>3 DEF IInv

\* A step of one thread: the device stays, and the cache may be replaced.
LEMMA OneCall ==
  ASSUME IInv, NEW t \in Threads, NEW c \in Calls, CallInv(t, c),
         th' = [th EXCEPT ![t] = c], UNCHANGED device,
         cache' = cache \/ (/\ cache' \in CachedStates
                            /\ \A e \in cache'.nodes : seenAge[e] <= DumpMax + cache'.age)
  PROVE  IInv'
<1>1. Types'
  BY DEF IInv, Types, device
<1>2. AgesInv'
  BY DEF IInv, AgesInv, device
<1>3. ASSUME NEW u \in Threads PROVE CallInv(u, th[u])'
  <2>1. th'[u] = IF u = t THEN c ELSE th[u]
    BY DEF IInv, Types
  <2>2. CallInv(u, th'[u])
    BY <2>1 DEF IInv
  <2> QED
    BY <2>2 DEF CallInv, Role, Timely, Honest, Recent, Watches, Reported, device
<1> QED
  BY <1>1, <1>2, <1>3 DEF IInv

\* A dump that ends in an error.
LEMMA DumpFailsInv ==
  ASSUME IInv, NEW t \in Threads, DumpFails(t)
  PROVE  IInv'
<1> DEFINE r == th[t]
           c == Answer(r, "error")
<1>1. r \in Calls /\ CallInv(t, r) /\ r.at \in InDump
  BY DEF IInv, Types, DumpFails
<1>2. /\ c \in Calls /\ c.at = "answered" /\ c.answer = "error" /\ c.left = 0
      /\ c.ws = r.ws /\ c.dumps = r.dumps /\ c.elapsed = r.elapsed
      /\ c.request = r.request /\ c.saw = r.saw
  BY <1>1 DEF Answer, Calls, Places, Answers
<1>3. r.elapsed \in Nat /\ r.left \in Nat /\ r.answer = "none"
  BY <1>1 DEF Calls, CallInv, Role, InDump
<1>4. th' = [th EXCEPT ![t] = c] /\ UNCHANGED <<device, cache>>
  BY DEF DumpFails
<1> HIDE DEF c, r
<1>5. Role(t, c)
  BY <1>1, <1>2 DEF CallInv, Role, InDump
<1>6. Timely(t, c)
  BY <1>1, <1>2, <1>3 DEF CallInv, Timely, InDump, LateMax
<1>7. Honest(c)
  BY <1>2 DEF Honest, InDump
<1>8. Recent(t, c)
  <2> SUFFICES ASSUME NEW e \in Nodes(r.ws) PROVE seenAge[e] <= CacheTTL + DumpMax
    BY <1>2 DEF Recent
  <2>1. CASE r.at = "nodes"
    BY <1>1, <2>1, BlankState DEF CallInv, Honest
  <2>2. CASE r.at = "detect"
    <3>1. seenAge[e] + r.left <= DumpMax /\ seenAge[e] \in Nat
      <4>1. e \in Elements
        BY <1>1, FactsOfStates, CallFields
      <4> QED
        BY <1>1, <2>2, <4>1 DEF CallInv, Recent, IInv, Types, AgeCap
    <3> QED
      BY <1>3, <3>1
  <2> QED
    BY <1>1, <2>1, <2>2 DEF InDump
<1> QED
  BY <1>2, <1>4, <1>5, <1>6, <1>7, <1>8, OneCall DEF CallInv

LEMMA ReadNodesInv ==
  ASSUME IInv, NEW t \in Threads, ReadNodes(t)
  PROVE  IInv'
<1> DEFINE r == th[t]
<1>1. r \in Calls /\ CallInv(t, r) /\ r.at = "nodes"
  BY DEF IInv, Types, ReadNodes
<1>2. PICK ws \in {[facts |-> screen \cap Elements, unread |-> {}],
                   [facts |-> {}, unread |-> Elements]} :
        th' = [th EXCEPT ![t] = [r EXCEPT !.at = "detect", !.ws = ws]]
  BY <1>1 DEF ReadNodes, IInv, Types, Calls
<1> DEFINE c == [r EXCEPT !.at = "detect", !.ws = ws]
<1>3. /\ ws \in WorldStates
      /\ ws.facts \subseteq screen \cap Elements /\ ws.unread \subseteq Elements
      /\ \A e \in Elements \ ws.unread : e \in ws.facts <=> e \in screen
  BY <1>2 DEF WorldStates, Facts
<1>4. /\ c \in Calls /\ c.at = "detect" /\ c.ws = ws /\ c.left = r.left
      /\ c.answer = r.answer /\ c.dumps = r.dumps /\ c.elapsed = r.elapsed
      /\ c.request = r.request /\ c.saw = r.saw
  BY <1>1, <1>3 DEF Calls, Places, InDump
<1>5. UNCHANGED <<device, cache>>
  BY DEF ReadNodes
<1> HIDE DEF c, r
<1>6. Role(t, c)
  BY <1>1, <1>4 DEF CallInv, Role
<1>7. Timely(t, c)
  BY <1>1, <1>4 DEF CallInv, Timely, InDump
<1>8. Honest(c)
  <2>1. r.answer = "none"
    BY <1>1 DEF CallInv, Role
  <2>2. WaitsForFact(c) => Watches(r)
    BY <1>1, <1>4 DEF CallInv, Honest, WaitsForFact, InDump
  <2>3. WaitsForFact(c) => Watches(c)
    BY <1>4, <2>2 DEF Watches
  <2>4. WaitsForFact(c) /\ c.request.fact \in Elements => Reported(c)
    BY <1>3, <1>4, <2>3 DEF Watches, Reported
  <2> QED
    BY <1>3, <1>4, <2>1, <2>3, <2>4 DEF Honest
<1>9. Recent(t, c)
  <2> SUFFICES ASSUME NEW e \in Nodes(ws) PROVE seenAge[e] + c.left <= DumpMax
    BY <1>4 DEF Recent
  <2>1. e \in screen \cap Elements
    BY <1>3 DEF Nodes
  <2>2. seenAge[e] = 0
    BY <2>1 DEF IInv, AgesInv
  <2>3. c.left <= DumpMax /\ c.left \in Nat
    BY <1>1, <1>4 DEF CallInv, Timely, InDump, Calls
  <2> QED
    BY <2>2, <2>3
<1> QED
  BY <1>2, <1>4, <1>5, <1>6, <1>7, <1>8, <1>9, OneCall DEF CallInv, c

\* What is published was on the screen at most one dump ago.
LEMMA PublishInv ==
  ASSUME IInv, NEW t \in Threads, Publish(t)
  PROVE  IInv'
<1> DEFINE r == th[t]
<1>1. r \in Calls /\ CallInv(t, r) /\ r.at = "detect"
  BY DEF IInv, Types, Publish
<1>2. /\ r.ws \in WorldStates /\ r.ws.facts \subseteq Elements
      /\ r.ws.unread \subseteq Elements
  BY <1>1, CallFields DEF CallInv, Honest
<1>3. PICK ws \in {Detected(r.ws, TRUE), Detected(r.ws, FALSE)} :
        th' = [th EXCEPT ![t] = [r EXCEPT !.at = "check", !.left = 0,
                 !.ws = IF t \in Waiters THEN ws ELSE [Blank EXCEPT !.facts = Nodes(ws)]]]
  BY <1>1 DEF Publish, IInv, Types, Calls
<1>4. /\ ws \in WorldStates /\ Nodes(ws) = Nodes(r.ws)
      /\ \A e \in Elements : (e \in ws.facts <=> e \in r.ws.facts)
                             /\ (e \in ws.unread <=> e \in r.ws.unread)
      /\ Keyboard \notin ws.unread => (Keyboard \in ws.facts <=> Keyboard \in screen)
      /\ Keyboard \in ws.facts => Keyboard \in screen
  <2>1. CASE ws = Detected(r.ws, TRUE)
    BY <1>2, <2>1 DEF Detected, WorldStates, Nodes, Facts
  <2>2. CASE ws = Detected(r.ws, FALSE)
    BY <1>2, <2>2 DEF Detected, WorldStates, Nodes, Facts
  <2> QED
    BY <1>3, <2>1, <2>2
<1> DEFINE v == IF t \in Waiters THEN ws ELSE [Blank EXCEPT !.facts = Nodes(ws)]
           c == [r EXCEPT !.at = "check", !.left = 0, !.ws = v]
<1>5. v \in WorldStates /\ Nodes(v) = Nodes(r.ws) /\ (t \in Waiters => v = ws)
  <2>1. [Blank EXCEPT !.facts = Nodes(ws)] = [facts |-> Nodes(ws), unread |-> {}]
    BY BlankWith
  <2> QED
    BY <1>4, <2>1 DEF WorldStates, Nodes, Facts
<1>6. /\ c \in Calls /\ c.at = "check" /\ c.ws = v /\ c.left = 0
      /\ c.answer = r.answer /\ c.dumps = r.dumps /\ c.elapsed = r.elapsed
      /\ c.request = r.request /\ c.saw = r.saw
  BY <1>1, <1>5 DEF Calls, Places
<1>7. /\ UNCHANGED device
      /\ th' = [th EXCEPT ![t] = c]
      /\ cache' = [cached |-> TRUE, nodes |-> Nodes(r.ws), age |-> 0]
  BY <1>3 DEF Publish
<1>8. r.elapsed \in Nat /\ r.left \in Nat /\ r.answer = "none"
  BY <1>1 DEF CallInv, Role, Calls
<1> HIDE DEF c, r, v
<1>9. ASSUME NEW e \in Nodes(r.ws) PROVE seenAge[e] \in Nat /\ seenAge[e] <= DumpMax
  <2>1. e \in Elements
    BY <1>2, FactsOfStates
  <2>2. seenAge[e] + r.left <= DumpMax /\ seenAge[e] \in Nat
    BY <1>1, <2>1 DEF CallInv, Recent, IInv, Types, AgeCap
  <2> QED
    BY <1>8, <2>2
<1>10. Role(t, c)
  BY <1>1, <1>6 DEF CallInv, Role
<1>11. Timely(t, c)
  BY <1>1, <1>6, <1>8 DEF CallInv, Timely, InDump
<1>12. Honest(c)
  <2> SUFFICES ASSUME WaitsForFact(c) PROVE Reported(c)
    BY <1>6, <1>8 DEF Honest, InDump
  <2>1. WaitsForFact(r) /\ r.request.fact \in Facts
    BY <1>1, <1>6, FactNamed DEF WaitsForFact
  <2>2. t \in Waiters
    BY <1>1, <2>1 DEF CallInv, Role, WaitsForFact, NoRequest, Find, Threads
  <2>3. c.ws = ws
    BY <1>5, <1>6, <2>2
  <2>4. CASE c.request.fact \in Elements
    <3>1. Reported(r)
      BY <1>1, <1>6, <2>1, <2>4 DEF CallInv, Honest
    <3> QED
      BY <1>4, <1>6, <2>3, <2>4, <3>1 DEF Reported
  <2>5. CASE c.request.fact = Keyboard
    <3>1. Watches(r)
      BY <1>1, <2>1 DEF CallInv, Honest, InDump
    <3> QED
      BY <1>4, <1>6, <2>3, <2>5, <3>1 DEF Reported, Watches
  <2> QED
    BY <1>6, <2>1, <2>4, <2>5 DEF Facts
<1>13. Recent(t, c)
  BY <1>5, <1>6, <1>9 DEF Recent
<1>14. cache' \in CachedStates /\ \A e \in cache'.nodes : seenAge[e] <= DumpMax + cache'.age
  BY <1>2, <1>7, <1>9, FactsOfStates DEF CachedStates
<1> QED
  BY <1>6, <1>7, <1>10, <1>11, <1>12, <1>13, <1>14, OneCall DEF CallInv

\* The call that a dump begins with.
LEMMA StartDumpCall ==
  ASSUME IInv, NEW t \in Threads, NEW r \in Calls, r.answer = "none",
         r.request \in Conditions \cup {Find},
         t \in Waiters => /\ r.request \in Conditions /\ r.elapsed < Timeout
                          /\ Polled(Len(r.dumps)) <= r.elapsed,
         t \in Finders => /\ r.request = Find /\ r.elapsed = 0 /\ r.dumps = <<>>
  PROVE  StartDump(r) \in Calls /\ CallInv(t, StartDump(r))
<1> DEFINE c == StartDump(r)
<1>1. /\ c.at = "nodes" /\ c.left = DumpMax /\ c.ws = Blank /\ c.saw = Saw(r, screen)
      /\ c.answer = "none" /\ c.dumps = r.dumps /\ c.elapsed = r.elapsed
      /\ c.request = r.request
  BY DEF StartDump, Calls
<1>2. c \in Calls
  <2>1. Saw(r, screen) \in SUBSET BOOLEAN /\ Blank \in WorldStates
    BY SawWatches, BlankState
  <2>2. DumpMax \in Nat /\ "nodes" \in Places
    BY DEF Places, InDump
  <2> QED
    BY <2>1, <2>2 DEF StartDump, Calls
<1>3. r.elapsed \in Nat
  BY DEF Calls
<1> HIDE DEF c
<1>4. Role(t, c)
  BY <1>1 DEF Role
<1>5. Timely(t, c)
  BY <1>1, <1>3 DEF Timely, InDump
<1>6. Honest(c)
  <2>1. WaitsForFact(c) => Watches(c)
    <3>1. WaitsForFact(c) = WaitsForFact(r)
      BY <1>1 DEF WaitsForFact
    <3>2. WaitsForFact(r) => /\ r.request.fact \in screen => TRUE \in Saw(r, screen)
                             /\ r.request.fact \notin screen => FALSE \in Saw(r, screen)
      BY SawWatches
    <3> QED
      BY <1>1, <3>1, <3>2 DEF Watches
  <2> QED
    BY <1>1, <2>1 DEF Honest, InDump
<1>7. Recent(t, c)
  BY <1>1, BlankState DEF Recent
<1> QED
  BY <1>2, <1>4, <1>5, <1>6, <1>7 DEF CallInv, c

LEMMA BeginWaitInv ==
  ASSUME IInv, NEW t \in Waiters, NEW q \in Conditions, BeginWait(t, q)
  PROVE  IInv'
<1> DEFINE c == [Idle EXCEPT !.at = "loop", !.request = q]
<1>1. /\ c.at = "loop" /\ c.request = q /\ c.elapsed = 0 /\ c.left = 0
      /\ c.dumps = <<>> /\ c.answer = "none" /\ c.ws = Blank
  BY DEF Idle
<1>2. c \in Calls
  BY IdleTyped DEF Calls, Places, Requests
<1>3. th' = [th EXCEPT ![t] = c] /\ UNCHANGED <<device, cache>> /\ t \in Threads
  BY DEF BeginWait, Threads
<1> HIDE DEF c
<1>4. Role(t, c)
  BY <1>1 DEF Role
<1>5. Timely(t, c)
  <2>1. Polled(Len(<<>>)) = 0
    BY PolledRounds
  <2>2. LateMax \in Nat /\ 0 < LateMax
    BY DEF LateMax
  <2> QED
    BY <1>1, <2>1, <2>2 DEF Timely, InDump
<1>6. Honest(c) /\ Recent(t, c)
  BY <1>1, BlankState DEF Honest, Recent, InDump
<1> QED
  BY <1>2, <1>3, <1>4, <1>5, <1>6, OneCall DEF CallInv

LEMMA NextRoundInv ==
  ASSUME IInv, NEW t \in Threads, NextRound(t)
  PROVE  IInv'
<1> DEFINE r == th[t]
<1>1. r \in Calls /\ CallInv(t, r) /\ r.at = "loop"
  BY DEF IInv, Types, NextRound
<1>2. r.elapsed \in Nat /\ r.answer = "none" /\ t \in Waiters
  BY <1>1 DEF Calls, CallInv, Role, Threads
<1>3. UNCHANGED <<device, cache>>
  BY DEF NextRound
<1>4. CASE Expired(r)
  <2> DEFINE c == Answer(r, "timeout")
  <2>1. /\ c \in Calls /\ c.at = "answered" /\ c.answer = "timeout" /\ c.left = 0
        /\ c.ws = r.ws /\ c.dumps = r.dumps /\ c.elapsed = r.elapsed
        /\ c.request = r.request /\ c.saw = r.saw
    BY <1>1 DEF Answer, Calls, Places, Answers
  <2>2. th' = [th EXCEPT ![t] = c]
    BY <1>4 DEF NextRound
  <2> HIDE DEF c, r
  <2>3. Role(t, c)
    BY <1>1, <1>2, <2>1 DEF CallInv, Role
  <2>4. Timely(t, c)
    BY <1>1, <1>2, <1>4, <2>1 DEF CallInv, Timely, InDump, Expired
  <2>5. Honest(c) /\ Recent(t, c)
    BY <1>2, <2>1 DEF Honest, Recent, InDump
  <2> QED
    BY <1>3, <2>1, <2>2, <2>3, <2>4, <2>5, OneCall DEF CallInv
<1>5. CASE ~Expired(r)
  <2>1. th' = [th EXCEPT ![t] = StartDump(r)]
    BY <1>5 DEF NextRound
  <2>2. r.elapsed < Timeout /\ r.request \in Conditions
    BY <1>1, <1>2, <1>5 DEF Expired, CallInv, Role
  <2>3. Polled(Len(r.dumps)) <= r.elapsed
    BY <1>1, <1>2 DEF CallInv, Timely
  <2>4. StartDump(r) \in Calls /\ CallInv(t, StartDump(r))
    BY <1>1, <1>2, <2>2, <2>3, StartDumpCall
  <2> QED
    BY <1>3, <2>1, <2>4, OneCall
<1> QED
  BY <1>4, <1>5

LEMMA WakeInv ==
  ASSUME IInv, NEW t \in Threads, Wake(t)
  PROVE  IInv'
<1> DEFINE r == th[t]
           c == [r EXCEPT !.at = "loop"]
<1>1. r \in Calls /\ CallInv(t, r) /\ r.at = "sleep" /\ r.left = 0
  BY DEF IInv, Types, Wake
<1>2. r.elapsed \in Nat /\ r.answer = "none" /\ t \in Waiters
  BY <1>1 DEF Calls, CallInv, Role, Threads
<1>3. /\ c \in Calls /\ c.at = "loop" /\ c.answer = "none" /\ c.left = 0
      /\ c.ws = r.ws /\ c.dumps = r.dumps /\ c.elapsed = r.elapsed
      /\ c.request = r.request /\ c.saw = r.saw
  BY <1>1, <1>2 DEF Calls, Places
<1>4. th' = [th EXCEPT ![t] = c] /\ UNCHANGED <<device, cache>>
  BY DEF Wake
<1> HIDE DEF c, r
<1>5. Role(t, c)
  BY <1>1, <1>2, <1>3 DEF CallInv, Role
<1>6. Timely(t, c)
  BY <1>1, <1>2, <1>3 DEF CallInv, Timely, InDump
<1>7. Honest(c) /\ Recent(t, c)
  BY <1>2, <1>3 DEF Honest, Recent, InDump
<1> QED
  BY <1>3, <1>4, <1>5, <1>6, <1>7, OneCall DEF CallInv

LEMMA CheckInv ==
  ASSUME IInv, NEW t \in Threads, Check(t)
  PROVE  IInv'
<1> DEFINE r == th[t]
           polled == IF r.request.kind = "stable"
                     THEN [r EXCEPT !.stable = StableAfter(r), !.hashes = {StateHash(r)},
                                    !.dumps = Append(@, Nodes(r.ws))]
                     ELSE r
<1>1. r \in Calls /\ CallInv(t, r) /\ r.at = "check" /\ t \in Waiters
  BY DEF IInv, Types, Check
<1>2. r.elapsed \in Nat /\ r.answer = "none" /\ r.left = 0 /\ Len(r.dumps) \in Nat
      /\ r.elapsed < Timeout + DumpMax /\ Polled(Len(r.dumps)) <= r.elapsed
      /\ r.request \in Conditions
  BY <1>1 DEF Calls, CallInv, Role, Timely, InDump
<1>3. /\ polled \in Calls /\ polled.at = "check" /\ polled.answer = "none"
      /\ polled.left = 0 /\ polled.ws = r.ws /\ polled.elapsed = r.elapsed
      /\ polled.request = r.request /\ polled.saw = r.saw
      /\ Len(polled.dumps) \in {Len(r.dumps), Len(r.dumps) + 1}
  <2>1. Nodes(r.ws) \in SUBSET Elements
    BY <1>1, FactsOfStates, CallFields
  <2>2. StateHash(r) \in Hashes /\ StableAfter(r) \in Nat
    BY <1>1, <1>2, <2>1 DEF StateHash, Compared, Hashes, StableAfter, Calls
  <2>3. Append(r.dumps, Nodes(r.ws)) \in Seq(SUBSET Elements)
        /\ Len(Append(r.dumps, Nodes(r.ws))) = Len(r.dumps) + 1
    BY <1>1, <2>1, CallFields
  <2>4. {StateHash(r)} \in SUBSET Hashes
    BY <2>2
  <2> HIDE DEF r
  <2>5. CASE r.request.kind = "stable"
    BY <1>1, <1>2, <2>2, <2>3, <2>4, <2>5 DEF Calls
  <2>6. CASE r.request.kind # "stable"
    BY <1>1, <1>2, <2>6
  <2> QED
    BY <2>5, <2>6
<1>4. Polled(Len(polled.dumps)) <= r.elapsed + PollInterval
  <2> DEFINE n == Len(r.dumps)
  <2>1. n \in Nat /\ Polled(n) <= r.elapsed
    BY <1>2
  <2>2. Polled(n) \in Nat /\ Polled(n + 1) = Polled(n) + PollInterval
    BY <2>1, PolledRounds
  <2>3. Len(polled.dumps) \in {n, n + 1}
    BY <1>3
  <2> HIDE DEF n, polled, r
  <2> QED
    BY <1>2, <2>1, <2>2, <2>3
<1>5. UNCHANGED <<device, cache>>
  BY DEF Check
<1>6. CASE Satisfied(r)
  <2> DEFINE c == Answer(polled, "satisfied")
  <2>1. th' = [th EXCEPT ![t] = c]
    BY <1>6 DEF Check
  <2>2. /\ c \in Calls /\ c.at = "answered" /\ c.answer = "satisfied" /\ c.left = 0
        /\ c.ws = r.ws /\ c.dumps = polled.dumps /\ c.elapsed = r.elapsed
        /\ c.request = r.request /\ c.saw = r.saw
    <3> HIDE DEF polled
    <3> QED
      BY <1>3 DEF Answer, Calls, Places, Answers
  <2> HIDE DEF c, polled, r
  <2>3. Role(t, c)
    BY <1>1, <1>2, <2>2 DEF Role, Threads
  <2>4. Timely(t, c)
    BY <1>1, <1>2, <1>4, <2>2 DEF Timely, InDump, LateMax
  <2>5. Honest(c)
    <3>1. WaitsForFact(r) => Reported(r)
      BY <1>1 DEF CallInv, Honest
    <3>2. /\ r.request.kind = "appears" => r.request.fact \in r.ws.facts
          /\ r.request.kind = "disappears" => r.request.fact \notin r.ws.facts
      BY <1>6 DEF Satisfied
    <3> QED
      BY <2>2, <3>1, <3>2 DEF Honest, Reported, WaitsForFact, InDump
  <2>6. Recent(t, c)
    BY <1>1, <2>2 DEF Recent
  <2> QED
    BY <1>5, <2>1, <2>2, <2>3, <2>4, <2>5, <2>6, OneCall DEF CallInv
<1>7. CASE ~Satisfied(r)
  <2> DEFINE c == [polled EXCEPT !.at = "sleep", !.left = PollInterval,
                                 !.ws = Blank, !.saw = {}]
  <2>1. th' = [th EXCEPT ![t] = c]
    BY <1>7 DEF Check
  <2>2. /\ c \in Calls /\ c.at = "sleep" /\ c.answer = "none" /\ c.left = PollInterval
        /\ c.ws = Blank /\ c.dumps = polled.dumps /\ c.elapsed = r.elapsed
        /\ c.request = r.request
    <3> HIDE DEF polled
    <3> QED
      BY <1>3, BlankState DEF Calls, Places
  <2> HIDE DEF c, polled, r
  <2>3. Role(t, c)
    BY <1>1, <1>2, <2>2 DEF Role, Threads
  <2>4. Timely(t, c)
    BY <1>1, <1>2, <1>4, <2>2 DEF Timely, InDump, LateMax
  <2>5. Honest(c) /\ Recent(t, c)
    BY <2>2, BlankState DEF Honest, Recent, InDump
  <2> QED
    BY <1>5, <2>1, <2>2, <2>3, <2>4, <2>5, OneCall DEF CallInv
<1> QED
  BY <1>6, <1>7

\* A cached state is as recent as the finder needs it to be.
LEMMA BeginFindInv ==
  ASSUME IInv, NEW t \in Finders, BeginFind(t)
  PROVE  IInv'
<1> DEFINE call == [Idle EXCEPT !.request = Find]
<1>1. /\ call.at = "idle" /\ call.request = Find /\ call.elapsed = 0 /\ call.left = 0
      /\ call.dumps = <<>> /\ call.answer = "none" /\ call.ws = Blank
      /\ t \in Threads /\ t \notin Waiters
  BY DEF Idle, Threads
<1>2. call \in Calls
  BY IdleTyped DEF Calls, Requests
<1>3. UNCHANGED <<device, cache>>
  BY DEF BeginFind
<1>4. CASE FreshEnough
  <2> DEFINE c == [call EXCEPT !.at = "check", !.ws.facts = cache.nodes]
  <2>1. cache \in CachedStates /\ cache # NoState /\ cache.age <= CacheTTL
    BY <1>4 DEF FreshEnough, IInv, Types
  <2>2. cache.nodes \subseteq Elements /\ cache.age \in Nat
    BY <2>1 DEF CachedStates
  <2>3. [Blank EXCEPT !.facts = cache.nodes] \in WorldStates
        /\ Nodes([Blank EXCEPT !.facts = cache.nodes]) = cache.nodes
    BY <2>2 DEF Blank, WorldStates, Facts, Nodes
  <2>4. /\ c.at = "check" /\ c.request = Find /\ c.elapsed = 0 /\ c.left = 0
        /\ c.dumps = <<>> /\ c.answer = "none"
        /\ c.ws = [Blank EXCEPT !.facts = cache.nodes]
    BY <1>1 DEF Idle
  <2>5. c \in Calls
    <3>1. c = [call EXCEPT !.at = "check", !.ws = [Blank EXCEPT !.facts = cache.nodes]]
      BY <1>1 DEF Idle
    <3> HIDE DEF call
    <3> QED
      BY <1>2, <2>3, <3>1 DEF Calls, Places
  <2>6. th' = [th EXCEPT ![t] = c]
    BY <1>4 DEF BeginFind
  <2> HIDE DEF c, call
  <2>7. Role(t, c)
    BY <1>1, <2>4 DEF Role
  <2>8. Timely(t, c)
    BY <1>1, <2>4 DEF Timely, InDump
  <2>9. Honest(c)
    BY <2>4 DEF Honest, WaitsForFact, Find, InDump
  <2>10. Recent(t, c)
    <3> SUFFICES ASSUME NEW e \in cache.nodes PROVE seenAge[e] <= CacheTTL + DumpMax
      BY <2>3, <2>4 DEF Recent
    <3>1. seenAge[e] <= DumpMax + cache.age /\ seenAge[e] \in Nat
      BY <2>1, <2>2 DEF IInv, AgesInv, Types, AgeCap
    <3> QED
      BY <2>1, <2>2, <3>1
  <2> QED
    BY <1>1, <1>3, <2>5, <2>6, <2>7, <2>8, <2>9, <2>10, OneCall DEF CallInv
<1>5. CASE ~FreshEnough
  <2>1. th' = [th EXCEPT ![t] = StartDump(call)]
    BY <1>5 DEF BeginFind
  <2> HIDE DEF call
  <2>2. StartDump(call) \in Calls /\ CallInv(t, StartDump(call))
    BY <1>1, <1>2, StartDumpCall
  <2> QED
    BY <1>1, <1>3, <2>1, <2>2, OneCall
<1> QED
  BY <1>4, <1>5

\* A finder's steps after its dump.
LEMMA FinderInv ==
  ASSUME IInv, NEW t \in Threads, Matched(t) \/ TapFound(t)
  PROVE  IInv'
<1> DEFINE r == th[t]
<1>1. r \in Calls /\ CallInv(t, r) /\ r.at \in {"check", "tap"}
      /\ t \in Finders /\ t \notin Waiters
  BY DEF IInv, Types, Matched, TapFound, CallInv, Role, Threads
<1>2. PICK c \in {Answer(r, "unmatched"), Answer(r, "found"), Answer(r, "error"),
                  [r EXCEPT !.at = "tap"]} : th' = [th EXCEPT ![t] = c]
  BY DEF Matched, TapFound
<1>3. UNCHANGED <<device, cache>>
  BY DEF Matched, TapFound
<1>4. r.elapsed = 0 /\ r.left = 0 /\ r.answer = "none" /\ r.request \in {NoRequest, Find}
      /\ r.dumps = <<>>
  <2>1. Role(t, r) /\ Timely(t, r)
    BY <1>1 DEF CallInv
  <2> QED
    BY <1>1, <2>1 DEF Role, Timely, InDump
<1>5. /\ c \in Calls /\ c.left = 0 /\ c.ws = r.ws /\ c.dumps = r.dumps
      /\ c.elapsed = r.elapsed /\ c.request = r.request
      /\ \/ c.at = "answered" /\ c.answer \in {"unmatched", "found", "error"}
         \/ c.at = "tap" /\ c.answer = "none"
  <2>1. CASE c = [r EXCEPT !.at = "tap"]
    BY <1>1, <1>4, <2>1 DEF Calls, Places
  <2>2. ASSUME NEW a \in {"unmatched", "found", "error"}, c = Answer(r, a)
        PROVE  /\ c \in Calls /\ c.left = 0 /\ c.ws = r.ws /\ c.dumps = r.dumps
               /\ c.elapsed = r.elapsed /\ c.request = r.request
               /\ c.at = "answered" /\ c.answer = a
    BY <1>1, <2>2 DEF Answer, Calls, Places, Answers
  <2> QED
    BY <1>2, <2>1, <2>2
<1> HIDE DEF r
<1>6. Role(t, c)
  BY <1>1, <1>4, <1>5 DEF Role
<1>7. Timely(t, c)
  BY <1>1, <1>5 DEF Timely, InDump
<1>8. Honest(c)
  BY <1>4, <1>5 DEF Honest, WaitsForFact, Find, NoRequest, InDump
<1>9. Recent(t, c)
  BY <1>1, <1>5 DEF Recent, CallInv
<1> QED
  BY <1>2, <1>3, <1>5, <1>6, <1>7, <1>8, <1>9, OneCall DEF CallInv

LEMMA IdleInv ==
  ASSUME NEW t \in Threads
  PROVE  CallInv(t, Idle)
<1>1. Role(t, Idle)
  BY DEF Role, Idle, NoRequest
<1>2. Timely(t, Idle)
  BY PolledRounds DEF Timely, Idle, InDump
<1>3. Honest(Idle) /\ Recent(t, Idle)
  BY BlankState DEF Honest, Recent, Idle, WaitsForFact, NoRequest, InDump
<1> QED
  BY <1>1, <1>2, <1>3 DEF CallInv

LEMMA ReturnInv ==
  ASSUME IInv, NEW t \in Threads, Return(t)
  PROVE  IInv'
  BY IdleTyped, IdleInv, OneCall DEF Return

------------------------------------------------------------------------------
(* The device and the clock                                                 *)

\* A new screen is seen by every dump in progress.
LEMMA ScreenChangesInv ==
  ASSUME IInv, ScreenChanges
  PROVE  IInv'
<1>1. PICK s \in Screens :
        /\ screen' = s
        /\ seenAge' = [e \in Elements |-> IF e \in s THEN 0 ELSE seenAge[e]]
        /\ th' = [t \in Threads |->
                    IF th[t].at \in InDump THEN [th[t] EXCEPT !.saw = @ \cup Saw(th[t], s)]
                                           ELSE th[t]]
  BY DEF ScreenChanges
<1>2. cache' = cache
  BY DEF ScreenChanges
<1>3. \A e \in Elements : /\ seenAge[e] \in Nat /\ seenAge'[e] \in Nat
                          /\ seenAge'[e] <= seenAge[e] /\ seenAge'[e] \in 0..AgeCap
  BY <1>1 DEF IInv, Types, AgeCap
<1>4. ASSUME NEW t \in Threads
      PROVE  /\ th'[t] = IF th[t].at \in InDump
                         THEN [th[t] EXCEPT !.saw = @ \cup Saw(th[t], s)] ELSE th[t]
             /\ th'[t] \in Calls
  <2>1. th[t] \in Calls /\ Saw(th[t], s) \in SUBSET BOOLEAN
    BY SawWatches DEF IInv, Types
  <2>2. th'[t] = IF th[t].at \in InDump
                 THEN [th[t] EXCEPT !.saw = @ \cup Saw(th[t], s)] ELSE th[t]
    BY <1>1
  <2>3. [th[t] EXCEPT !.saw = @ \cup Saw(th[t], s)] \in Calls
    BY <2>1 DEF Calls
  <2> QED
    BY <2>1, <2>2, <2>3
<1>5. Types'
  <2>1. th' \in [Threads -> Calls]
    BY <1>1, <1>4
  <2>2. seenAge' \in [Elements -> 0..AgeCap]
    BY <1>1, <1>3
  <2> QED
    BY <1>1, <1>2, <2>1, <2>2 DEF IInv, Types
<1>6. AgesInv'
  <2>1. \A e \in screen' \cap Elements : seenAge'[e] = 0
    BY <1>1
  <2>2. ASSUME cache # NoState, NEW e \in cache.nodes
        PROVE  seenAge'[e] <= DumpMax + cache.age
    <3>1. cache \in CachedStates
      BY <2>2 DEF IInv, Types
    <3>2. e \in Elements /\ cache.age \in Nat
      BY <2>2, <3>1 DEF CachedStates
    <3>3. seenAge[e] <= DumpMax + cache.age
      BY <2>2 DEF IInv, AgesInv
    <3> QED
      BY <1>3, <3>2, <3>3
  <2> QED
    BY <1>2, <2>1, <2>2 DEF AgesInv
<1>7. ASSUME NEW t \in Threads PROVE CallInv(t, th[t])'
  <2> DEFINE r == th[t]
  <2>1. PICK c \in Calls : c = th'[t]
    BY <1>4
  <2>2. r \in Calls /\ CallInv(t, r)
    BY DEF IInv, Types
  <2>3. c = IF r.at \in InDump THEN [r EXCEPT !.saw = @ \cup Saw(r, s)] ELSE r
    BY <1>4, <2>1
  <2>4. /\ c.at = r.at /\ c.left = r.left /\ c.ws = r.ws /\ c.dumps = r.dumps
        /\ c.elapsed = r.elapsed /\ c.request = r.request /\ c.answer = r.answer
        /\ c.saw = IF r.at \in InDump THEN r.saw \cup Saw(r, s) ELSE r.saw
        /\ r.at = "idle" => c = r
    BY <2>2, <2>3 DEF Calls, InDump
  <2> HIDE DEF r
  <2>5. Role(t, c)
    BY <2>2, <2>4 DEF CallInv, Role
  <2>6. Timely(t, c)
    BY <2>2, <2>4 DEF CallInv, Timely, InDump
  <2>7. ASSUME WaitsForFact(c)
        PROVE  /\ c.at \in InDump => /\ c.request.fact \in s => TRUE \in c.saw
                                     /\ c.request.fact \notin s => FALSE \in c.saw
               /\ Reported(r) => Reported(c)
    <3>1. WaitsForFact(r)
      BY <2>4, <2>7 DEF WaitsForFact
    <3>2. /\ r.request.fact \in s => TRUE \in Saw(r, s)
          /\ r.request.fact \notin s => FALSE \in Saw(r, s)
      BY <2>2, <3>1, SawWatches
    <3> QED
      BY <2>4, <3>2 DEF Reported
  <2>8. Honest(c)'
    <3>1. Honest(r)
      BY <2>2 DEF CallInv
    <3>2. WaitsForFact(c) /\ c.at \in InDump => Watches(c)'
      BY <1>1, <2>7 DEF Watches
    <3>3. /\ c.at = "nodes" => c.ws = Blank
          /\ c.at = "detect" => c.ws.facts \subseteq Elements /\ c.ws.unread \subseteq Elements
      BY <2>4, <3>1 DEF Honest
    <3>4. ASSUME WaitsForFact(c)
          PROVE  /\ c.at = "detect" /\ c.request.fact \in Elements => Reported(c)
                 /\ c.at = "check" => Reported(c)
                 /\ c.answer = "satisfied" =>
                      IF c.request.kind = "appears" THEN TRUE \in c.saw
                      ELSE FALSE \in c.saw \/ c.request.fact \in c.ws.unread
      <4>1. WaitsForFact(r)
        BY <2>4, <3>4 DEF WaitsForFact
      <4> QED
        BY <2>4, <2>7, <3>1, <3>4, <4>1 DEF Honest
    <3> QED
      BY <3>2, <3>3, <3>4 DEF Honest, Reported
  <2>9. Recent(t, c)'
    <3> SUFFICES ASSUME NEW e \in Nodes(c.ws)
                 PROVE  /\ c.at = "detect" => seenAge'[e] + c.left <= DumpMax
                        /\ t \in Finders /\ c.at \in {"check", "tap", "answered"} =>
                             seenAge'[e] <= CacheTTL + DumpMax
      BY DEF Recent
    <3>1. /\ c.at = "detect" => seenAge[e] + c.left <= DumpMax
          /\ t \in Finders /\ c.at \in {"check", "tap", "answered"} =>
               seenAge[e] <= CacheTTL + DumpMax
      BY <2>2, <2>4 DEF CallInv, Recent
    <3>2. e \in Elements /\ c.left \in Nat
      BY FactsOfStates, CallFields
    <3>3. seenAge'[e] \in Nat /\ seenAge[e] \in Nat /\ seenAge'[e] <= seenAge[e]
      BY <1>3, <3>2
    <3> QED
      BY <3>1, <3>2, <3>3
  <2>10. Role(t, th[t])' /\ Timely(t, th[t])'
    BY <2>1, <2>5, <2>6 DEF Role, Timely
  <2>11. Honest(th[t])'
    BY <2>1, <2>8 DEF Honest, Watches, Reported, WaitsForFact
  <2>12. Recent(t, th[t])'
    BY <2>1, <2>9 DEF Recent
  <2> QED
    BY <2>10, <2>11, <2>12 DEF CallInv
<1> QED
  BY <1>5, <1>6, <1>7 DEF IInv

LEMMA OlderBounds ==
  ASSUME NEW cap \in Nat, NEW a \in 0..cap
  PROVE  /\ Older(a, cap) \in 0..cap /\ Older(a, cap) <= a + 1
         /\ a < cap => Older(a, cap) = a + 1
         /\ a = cap => Older(a, cap) = cap
  BY DEF Older

\* A tick is taken from every dump and sleep, and adds one to every age.
LEMMA TickInv ==
  ASSUME IInv, Tick
  PROVE  IInv'
<1>1. AgeCap \in Nat /\ CacheTTL + 1 \in Nat /\ AgeCap = DumpMax + (CacheTTL + 1)
      /\ LateMax \in Nat
  BY DEF AgeCap, LateMax
<1>2. \A e \in Elements : /\ seenAge[e] \in Nat /\ seenAge'[e] \in Nat
                          /\ seenAge'[e] <= seenAge[e] + 1 /\ seenAge'[e] \in 0..AgeCap
  <2> SUFFICES ASSUME NEW e \in Elements
               PROVE  /\ seenAge[e] \in Nat /\ seenAge'[e] \in Nat
                      /\ seenAge'[e] <= seenAge[e] + 1 /\ seenAge'[e] \in 0..AgeCap
    OBVIOUS
  <2>1. seenAge[e] \in 0..AgeCap
    BY DEF IInv, Types
  <2>2. seenAge'[e] = IF e \in screen THEN 0 ELSE Older(seenAge[e], AgeCap)
    BY DEF Tick
  <2>3. Older(seenAge[e], AgeCap) \in 0..AgeCap
        /\ Older(seenAge[e], AgeCap) <= seenAge[e] + 1
    BY <1>1, <2>1, OlderBounds
  <2> QED
    BY <1>1, <2>1, <2>2, <2>3
<1>3. /\ screen' = screen
      /\ cache' = IF cache = NoState THEN NoState
                  ELSE [cache EXCEPT !.age = Older(@, CacheTTL + 1)]
  BY DEF Tick
<1>4. ASSUME cache # NoState
      PROVE  /\ cache' \in CachedStates /\ cache'.nodes = cache.nodes
             /\ cache'.nodes \subseteq Elements
             /\ cache.age \in 0..(CacheTTL + 1)
             /\ cache'.age = Older(cache.age, CacheTTL + 1)
  <2>1. cache \in CachedStates
    BY <1>4 DEF IInv, Types
  <2>2. cache.age \in 0..(CacheTTL + 1) /\ cache.nodes \subseteq Elements
    BY <2>1 DEF CachedStates
  <2>3. Older(cache.age, CacheTTL + 1) \in 0..(CacheTTL + 1)
    BY <1>1, <2>2, OlderBounds
  <2> QED
    BY <1>3, <1>4, <2>1, <2>2, <2>3 DEF CachedStates
<1>5. AgesInv'
  <2>1. \A e \in screen' \cap Elements : seenAge'[e] = 0
    BY <1>3 DEF Tick
  <2>2. ASSUME cache' # NoState, NEW e \in cache'.nodes
        PROVE  seenAge'[e] <= DumpMax + cache'.age
    <3>1. cache # NoState
      BY <1>3, <2>2
    <3>2. PICK a \in 0..(CacheTTL + 1) : a = cache.age
      BY <1>4, <3>1
    <3>3. e \in Elements /\ cache'.age = Older(a, CacheTTL + 1) /\ e \in cache.nodes
      BY <1>4, <2>2, <3>1, <3>2
    <3>4. /\ a < CacheTTL + 1 => Older(a, CacheTTL + 1) = a + 1
          /\ a = CacheTTL + 1 => Older(a, CacheTTL + 1) = CacheTTL + 1
      BY <1>1, OlderBounds
    <3>5. seenAge[e] <= DumpMax + a
      BY <3>1, <3>2, <3>3 DEF IInv, AgesInv
    <3>6. /\ seenAge[e] \in Nat /\ seenAge'[e] \in Nat
          /\ seenAge'[e] <= seenAge[e] + 1 /\ seenAge'[e] <= AgeCap
      BY <1>2, <3>3
    <3>7. CASE a < CacheTTL + 1
      BY <3>3, <3>4, <3>5, <3>6, <3>7
    <3>8. CASE a = CacheTTL + 1
      BY <1>1, <3>3, <3>4, <3>6, <3>8
    <3> QED
      BY <3>7, <3>8
  <2> QED
    BY <2>1, <2>2 DEF AgesInv
<1>6. ASSUME NEW t \in Threads
      PROVE  /\ th[t] \in Calls /\ CallInv(t, th[t])
             /\ \/ th[t].at = "idle" /\ th'[t] = th[t]
                \/ /\ th[t].at \in InDump \cup {"sleep"} /\ th[t].left > 0
                   /\ th'[t] = [th[t] EXCEPT !.left = @ - 1,
                         !.elapsed = IF t \in Waiters THEN Older(@, LateMax) ELSE @]
  <2>1. th'[t] = IF th[t].at = "idle" THEN th[t]
                 ELSE [th[t] EXCEPT !.left = @ - 1,
                         !.elapsed = IF t \in Waiters THEN Older(@, LateMax) ELSE @]
    BY DEF Tick
  <2>2. \/ th[t].at = "idle"
        \/ th[t].at \in InDump \cup {"sleep"} /\ th[t].left > 0
    BY DEF Tick
  <2>3. th[t] \in Calls /\ CallInv(t, th[t])
    BY DEF IInv, Types
  <2> QED
    BY <2>1, <2>2, <2>3 DEF InDump
<1>7. ASSUME NEW t \in Threads PROVE th'[t] \in Calls /\ CallInv(t, th[t])'
  <2> DEFINE r == th[t]
  <2>1. r \in Calls /\ CallInv(t, r)
    BY <1>6
  <2>2. CASE r.at = "idle"
    <3>1. r = Idle /\ th'[t] = r
      BY <1>6, <2>1, <2>2 DEF CallInv, Role, InDump
    <3>2. PICK c \in Calls : c = th'[t] /\ c = Idle
      BY <2>1, <3>1
    <3>3. Role(t, c) /\ Timely(t, c)
      BY <3>2, IdleInv DEF CallInv
    <3>4. Honest(c)' /\ Recent(t, c)'
      BY <3>2, BlankState DEF Honest, Recent, Idle, WaitsForFact, NoRequest, InDump
    <3>5. Role(t, th[t])' /\ Timely(t, th[t])'
      BY <3>2, <3>3 DEF Role, Timely
    <3>6. Honest(th[t])'
      BY <3>2, <3>4 DEF Honest, Watches, Reported, WaitsForFact
    <3>7. Recent(t, th[t])'
      BY <3>2, <3>4 DEF Recent
    <3> QED
      BY <3>2, <3>5, <3>6, <3>7 DEF CallInv
  <2>3. CASE r.at # "idle"
    <3>1. /\ r.at \in InDump \cup {"sleep"} /\ r.left > 0
          /\ th'[t] = [r EXCEPT !.left = @ - 1,
                 !.elapsed = IF t \in Waiters THEN Older(@, LateMax) ELSE @]
      BY <1>6, <2>3
    <3>2. r.left \in Nat /\ r.elapsed \in Nat /\ r.answer = "none"
      BY <2>1, <3>1, CallFields DEF CallInv, Role, InDump
    <3>3. t \in Waiters => r.elapsed < LateMax /\ Older(r.elapsed, LateMax) = r.elapsed + 1
      <4> SUFFICES ASSUME t \in Waiters
                   PROVE  r.elapsed < LateMax /\ Older(r.elapsed, LateMax) = r.elapsed + 1
        OBVIOUS
      <4>1. r.elapsed < LateMax
        BY <2>1, <3>1, <3>2 DEF CallInv, Timely, InDump, LateMax
      <4> QED
        BY <4>1 DEF Older
    <3>4. PICK c : c = th'[t]
      OBVIOUS
    <3>5. PICK e \in {r.elapsed, r.elapsed + 1} :
             /\ t \in Waiters => e = r.elapsed + 1
             /\ t \notin Waiters => e = r.elapsed
             /\ c = [r EXCEPT !.left = @ - 1, !.elapsed = e]
      BY <3>1, <3>3, <3>4
    <3>6. c \in Calls
      <4>1. r.left - 1 \in Nat /\ e \in Nat
        BY <3>1, <3>2, <3>5
      <4> HIDE DEF r
      <4> QED
        BY <2>1, <3>5, <4>1 DEF Calls
    <3>7. /\ c.at = r.at /\ c.left = r.left - 1 /\ c.ws = r.ws /\ c.dumps = r.dumps
          /\ c.elapsed = e /\ c.request = r.request /\ c.answer = "none"
          /\ c.saw = r.saw
      BY <2>1, <3>2, <3>5 DEF Calls
    <3> HIDE DEF r
    <3>8. Role(t, c)
      <4>1. Role(t, r)
        BY <2>1 DEF CallInv
      <4>2. t \in Finders => e = r.elapsed
        BY <3>5
      <4> QED
        BY <2>3, <3>1, <3>2, <3>7, <4>1, <4>2 DEF Role, InDump
    <3>9. Timely(t, c)
      <4>1. /\ c.at \in InDump => c.left <= DumpMax
            /\ c.at = "sleep" => c.left <= PollInterval
            /\ c.at \in InDump \cup {"sleep"}
        BY <2>1, <3>1, <3>2, <3>7 DEF CallInv, Timely
      <4>2. ASSUME t \in Waiters
            PROVE  /\ c.at \in InDump => c.elapsed + c.left < Timeout + DumpMax
                   /\ c.at = "sleep" => c.elapsed + c.left < LateMax
                   /\ IF c.at = "sleep" THEN Polled(Len(c.dumps)) <= c.elapsed + c.left
                      ELSE Polled(Len(c.dumps)) <= c.elapsed
        <5>1. c.elapsed = r.elapsed + 1 /\ c.elapsed + c.left = r.elapsed + r.left
          BY <3>2, <3>5, <3>7, <4>2
        <5>2. /\ r.at \in InDump => r.elapsed + r.left < Timeout + DumpMax
              /\ r.at = "sleep" => r.elapsed + r.left < LateMax
              /\ IF r.at = "sleep" THEN Polled(Len(r.dumps)) <= r.elapsed + r.left
                 ELSE Polled(Len(r.dumps)) <= r.elapsed
          BY <2>1, <3>2, <4>2 DEF CallInv, Timely
        <5>3. Polled(Len(r.dumps)) \in Nat
          <6>1. r.dumps \in Seq(SUBSET Elements)
            BY <2>1, CallFields
          <6>2. Len(r.dumps) \in Nat
            BY <6>1
          <6> QED
            BY <6>2, PolledRounds
        <5> QED
          BY <3>2, <3>7, <5>1, <5>2, <5>3
      <4> QED
        BY <3>7, <4>1, <4>2 DEF Timely, InDump
    <3>10. Honest(c)'
      <4>1. Honest(r)
        BY <2>1 DEF CallInv
      <4>2. WaitsForFact(c) = WaitsForFact(r) /\ Reported(c) = Reported(r)
            /\ Watches(c)' = Watches(r)
        BY <1>3, <3>7 DEF WaitsForFact, Reported, Watches
      <4> QED
        BY <3>2, <3>7, <4>1, <4>2 DEF Honest, WaitsForFact, Reported
    <3>11. Recent(t, c)'
      <4> SUFFICES ASSUME NEW x \in Nodes(c.ws), c.at = "detect"
                   PROVE  seenAge'[x] + c.left <= DumpMax
        BY <3>1, <3>7 DEF Recent, InDump
      <4>1. seenAge[x] + r.left <= DumpMax
        BY <2>1, <3>7 DEF CallInv, Recent
      <4>2. x \in Elements
        BY <3>6, FactsOfStates, CallFields
      <4>3. seenAge'[x] \in Nat /\ seenAge[x] \in Nat /\ seenAge'[x] <= seenAge[x] + 1
        BY <1>2, <4>2
      <4> QED
        BY <3>2, <3>7, <4>1, <4>3
    <3>12. Role(t, th[t])' /\ Timely(t, th[t])'
      BY <3>4, <3>8, <3>9 DEF Role, Timely
    <3>13. Honest(th[t])'
      BY <3>4, <3>10 DEF Honest, Watches, Reported, WaitsForFact
    <3>14. Recent(t, th[t])'
      BY <3>4, <3>11 DEF Recent
    <3> QED
      BY <3>4, <3>6, <3>12, <3>13, <3>14 DEF CallInv
  <2> QED
    BY <2>2, <2>3
<1>8. Types'
  <2>1. seenAge' \in [Elements -> 0..AgeCap]
    BY <1>2 DEF Tick
  <2>2. th' \in [Threads -> Calls]
    BY <1>7 DEF Tick
  <2>3. cache' \in CachedStates \cup {NoState}
    BY <1>3, <1>4
  <2> QED
    BY <1>3, <2>1, <2>2, <2>3 DEF Types, IInv
<1> QED
  BY <1>5, <1>7, <1>8 DEF IInv

------------------------------------------------------------------------------
(* The invariant                                                            *)

LEMMA StepInv == IInv /\ [Next]_vars => IInv'
<1> SUFFICES ASSUME IInv, [Next]_vars PROVE IInv'
  OBVIOUS
<1>1. CASE ScreenChanges
  BY <1>1, ScreenChangesInv
<1>2. CASE Tick
  BY <1>2, TickInv
<1>3. ASSUME NEW t \in Threads, ThreadStep(t) PROVE IInv'
  <2>1. CASE ReadNodes(t)
    BY <2>1, ReadNodesInv
  <2>2. CASE DumpFails(t)
    BY <2>2, DumpFailsInv
  <2>3. CASE Publish(t)
    BY <2>3, PublishInv
  <2>4. CASE NextRound(t)
    BY <2>4, NextRoundInv
  <2>5. CASE Check(t)
    BY <2>5, CheckInv
  <2>6. CASE Wake(t)
    BY <2>6, WakeInv
  <2>7. CASE Matched(t) \/ TapFound(t)
    BY <2>7, FinderInv
  <2>8. CASE Return(t)
    BY <2>8, ReturnInv
  <2> QED
    BY <1>3, <2>1, <2>2, <2>3, <2>4, <2>5, <2>6, <2>7, <2>8 DEF ThreadStep
<1>4. ASSUME NEW t \in Waiters, NEW c \in Conditions, BeginWait(t, c) PROVE IInv'
  BY <1>4, BeginWaitInv
<1>5. ASSUME NEW t \in Finders, BeginFind(t) PROVE IInv'
  BY <1>5, BeginFindInv
<1>6. CASE UNCHANGED vars
  <2>1. screen' = screen /\ seenAge' = seenAge /\ cache' = cache /\ th' = th
    BY <1>6 DEF vars
  <2>2. Types' /\ AgesInv'
    BY <2>1 DEF IInv, Types, AgesInv
  <2>3. ASSUME NEW t \in Threads PROVE CallInv(t, th[t])'
    <3>1. Role(t, th[t]) /\ Timely(t, th[t]) /\ Honest(th[t]) /\ Recent(t, th[t])
      BY DEF IInv, CallInv
    <3>2. Role(t, th[t])' /\ Timely(t, th[t])'
      BY <2>1, <3>1 DEF Role, Timely
    <3>3. Honest(th[t])'
      BY <2>1, <3>1 DEF Honest, Watches, Reported, WaitsForFact
    <3>4. Recent(t, th[t])'
      BY <2>1, <3>1 DEF Recent
    <3> QED
      BY <3>2, <3>3, <3>4 DEF CallInv
  <2> QED
    BY <2>2, <2>3 DEF IInv
<1> QED
  BY <1>1, <1>2, <1>3, <1>4, <1>5, <1>6 DEF Next

LEMMA Invariance == Spec => []IInv
<1>1. Init => IInv
  BY InitInv
<1>2. IInv /\ [Next]_vars => IInv'
  BY StepInv
<1> QED
  BY <1>1, <1>2, PTL DEF Spec

\* Every call's fields have their types, no call outlives its timeout by more
\* than a dump and a poll interval, and a call's dumps fit in that time.
\* (ui_wait_for, WaitForCondition)
THEOREM WaitTypeCorrect == Spec => []WaitTypeOK
<1>1. IInv => WaitTypeOK
  <2> SUFFICES ASSUME IInv PROVE WaitTypeOK
    OBVIOUS
  <2>1. cache = NoState \/ (cache.nodes \subseteq Elements /\ cache.age \in 0..(CacheTTL + 1))
    BY DEF IInv, Types, CachedStates
  <2>2. ASSUME NEW t \in Threads
        PROVE  /\ th[t].at \in Places /\ th[t].answer \in Answers
               /\ th[t].request \in Conditions \cup {NoRequest, Find}
               /\ th[t].elapsed \in 0..LateMax
               /\ th[t].left \in 0..(DumpMax + PollInterval)
               /\ th[t].ws \in WorldStates /\ th[t].saw \in SUBSET BOOLEAN
               /\ Len(th[t].dumps) * PollInterval <= LateMax
               /\ (th[t].at = "answered") = (th[t].answer # "none")
    <3> DEFINE r == th[t]
    <3>1. r \in Calls /\ CallInv(t, r)
      BY DEF IInv, Types
    <3> HIDE DEF r
    <3>2. /\ r.at \in Places /\ r.request \in Requests /\ r.elapsed \in Nat
          /\ r.left \in Nat /\ r.ws \in WorldStates /\ r.saw \in SUBSET BOOLEAN
          /\ r.dumps \in Seq(SUBSET Elements) /\ r.answer \in Answers
      BY <3>1, CallFields
    <3>3. r.left <= DumpMax + PollInterval
      BY <3>1, <3>2 DEF CallInv, Timely, InDump
    <3>4. r.elapsed <= LateMax /\ Polled(Len(r.dumps)) <= LateMax
      <4>1. Polled(Len(r.dumps)) \in Nat /\ Polled(0) = 0 /\ Len(<<>>) = 0
        <5>1. Len(r.dumps) \in Nat
          BY <3>2
        <5>2. Polled(Len(r.dumps)) \in Nat
          BY <5>1, PolledRounds
        <5>3. Polled(0) = 0
          BY PolledRounds
        <5> QED
          BY <5>2, <5>3
      <4>2. CASE t \in Waiters
        <5>1. Timely(t, r) /\ Role(t, r)
          BY <3>1 DEF CallInv
        <5>2. CASE r.at = "idle"
          BY <4>1, <5>1, <5>2 DEF Role, Idle, LateMax
        <5>3. CASE r.at \in {"loop", "check"} \cup InDump
          <6>1. r.answer = "none" /\ r.at # "sleep"
            BY <5>1, <5>3 DEF Role, InDump
          <6>2. Polled(Len(r.dumps)) <= r.elapsed
            BY <4>2, <5>1, <6>1 DEF Timely
          <6>3. r.elapsed <= LateMax
            BY <3>2, <4>2, <5>1, <5>3 DEF Timely, LateMax
          <6> QED
            BY <3>2, <4>1, <6>2, <6>3 DEF LateMax
        <5>4. CASE r.at = "sleep"
          <6>1. r.answer = "none"
            BY <5>1, <5>4 DEF Role
          <6>2. Polled(Len(r.dumps)) <= r.elapsed + r.left /\ r.elapsed + r.left < LateMax
            BY <4>2, <5>1, <5>4, <6>1 DEF Timely
          <6> QED
            BY <3>2, <4>1, <6>2 DEF LateMax
        <5>5. CASE r.at = "answered"
          <6>1. r.elapsed < LateMax
            BY <4>2, <5>1, <5>5 DEF Timely
          <6>2. CASE r.answer = "satisfied"
            <7>1. Polled(Len(r.dumps)) <= r.elapsed + PollInterval
                  /\ r.elapsed < Timeout + DumpMax
              BY <4>2, <5>1, <6>2 DEF Timely
            <7> QED
              BY <3>2, <4>1, <6>1, <7>1 DEF LateMax
          <6>3. CASE r.answer # "satisfied"
            <7>1. Polled(Len(r.dumps)) <= r.elapsed
              BY <4>2, <5>1, <5>5, <6>3 DEF Timely
            <7> QED
              BY <3>2, <4>1, <6>1, <7>1 DEF LateMax
          <6> QED
            BY <6>2, <6>3
        <5>6. r.at # "tap"
          BY <4>2, <5>1 DEF Role
        <5> QED
          BY <3>2, <5>2, <5>3, <5>4, <5>5, <5>6 DEF Places
      <4>3. CASE t \in Finders
        BY <3>1, <4>1, <4>3 DEF CallInv, Role, LateMax
      <4> QED
        BY <4>2, <4>3 DEF Threads
    <3>5. (r.at = "answered") = (r.answer # "none")
      BY <3>1 DEF CallInv, Role
    <3>6. LateMax \in Nat /\ DumpMax + PollInterval \in Nat
      BY DEF LateMax
    <3> QED
      BY <3>2, <3>3, <3>4, <3>5, <3>6 DEF r, Requests, Polled
  <2> QED
    BY <2>1, <2>2 DEF WaitTypeOK, IInv, Types
<1> QED
  BY <1>1, Invariance, PTL

\* A satisfied wait for a fact reports what was so during its last dump, or
\* what that dump could not read.  (ui_wait_for's forced dump)
THEOREM SatisfactionIsReal == Spec => []SatisfiedIsReal
<1>1. IInv => SatisfiedIsReal
  <2> SUFFICES ASSUME IInv, NEW t \in Waiters, th[t].answer = "satisfied",
                      th[t].request.kind # "stable"
               PROVE  CASE th[t].request.kind = "appears" -> TRUE \in th[t].saw
                        [] th[t].request.kind = "disappears" ->
                             FALSE \in th[t].saw \/ th[t].request.fact \in th[t].ws.unread
    BY DEF SatisfiedIsReal
  <2>1. t \in Threads /\ Role(t, th[t]) /\ Honest(th[t])
    BY DEF IInv, CallInv, Threads
  <2>2. th[t].request \in Conditions
    BY <2>1 DEF Role
  <2>3. th[t].request.kind \in {"appears", "disappears"}
    BY <2>2 DEF Conditions
  <2>4. IF th[t].request.kind = "appears" THEN TRUE \in th[t].saw
        ELSE FALSE \in th[t].saw \/ th[t].request.fact \in th[t].ws.unread
    BY <2>1, <2>3 DEF Honest, WaitsForFact
  <2> QED
    BY <2>3, <2>4
<1> QED
  BY <1>1, Invariance, PTL

\* An answer is late by less than one dump and one poll interval, a timeout is
\* never early and a satisfied wait late by less than a dump.  (ui_wait_for's
\* loop)
THEOREM LateByARound == Spec => []LateByOneRound
<1>1. IInv => LateByOneRound
  <2> SUFFICES ASSUME IInv, NEW t \in Waiters
               PROVE  /\ th[t].elapsed < LateMax
                      /\ th[t].answer = "timeout" => th[t].elapsed >= Timeout
                      /\ th[t].answer = "satisfied" => th[t].elapsed < Timeout + DumpMax
    BY DEF LateByOneRound
  <2> DEFINE r == th[t]
  <2>1. r \in Calls /\ Role(t, r) /\ Timely(t, r)
    BY DEF IInv, Types, CallInv, Threads
  <2>2. r.at \in Places /\ r.elapsed \in Nat /\ r.left \in Nat
    BY <2>1, CallFields
  <2> HIDE DEF r
  <2>3. r.elapsed < LateMax
    <3>1. CASE r.at = "idle"
      BY <2>1, <3>1 DEF Role, Idle, LateMax
    <3>2. CASE r.at # "idle"
      BY <2>1, <2>2, <3>2 DEF Role, Timely, InDump, Places, LateMax
    <3> QED
      BY <3>1, <3>2
  <2>4. /\ r.answer = "timeout" => r.elapsed >= Timeout
        /\ r.answer = "satisfied" => r.elapsed < Timeout + DumpMax
    BY <2>1 DEF Timely
  <2> QED
    BY <2>3, <2>4 DEF r
<1> QED
  BY <1>1, Invariance, PTL

\* What a find returns or a tap aims at was on the screen no longer ago than
\* the cache's lifetime and one dump.  (_get_cached_worldstate, ui_dump)
THEOREM FindsAreRecent == Spec => []FindIsRecent
<1>1. IInv => FindIsRecent
  <2> SUFFICES ASSUME IInv, NEW t \in Finders, th[t].at \in {"tap", "answered"},
                      NEW e \in Nodes(th[t].ws)
               PROVE  seenAge[e] <= CacheTTL + DumpMax
    BY DEF FindIsRecent
  <2>1. Recent(t, th[t])
    BY DEF IInv, CallInv, Threads
  <2> QED
    BY <2>1 DEF Recent
<1> QED
  BY <1>1, Invariance, PTL

------------------------------------------------------------------------------
(* Waits for a stable screen                                                *)

\* What a wait for a stable screen has compared stays as it was.
Same(c, r) ==
  /\ c.request = r.request /\ c.dumps = r.dumps /\ c.hashes = r.hashes
  /\ c.stable = r.stable /\ (c.answer = "satisfied" <=> r.answer = "satisfied")

Fresh(c) == c.dumps = <<>> /\ c.hashes = {} /\ c.stable = 0 /\ c.answer = "none"

IsStable(c) == c.request.kind = "stable"

\* Only its checks change what a wait for a stable screen has compared.
LEMMA OnlyChecksCompare ==
  ASSUME IInv, [Next]_vars, NEW t \in Waiters, IsStable(th'[t])
  PROVE  \/ Same(th'[t], th[t]) \/ Fresh(th'[t])
         \/ Check(t) /\ IsStable(th[t])
<1>1. t \in Threads /\ th[t] \in Calls /\ Role(t, th[t]) /\ th \in [Threads -> Calls]
  BY DEF IInv, Types, CallInv, Threads
<1>2. CASE th'[t] = th[t]
  BY <1>2 DEF Same
<1>3. ASSUME NEW u \in Threads, u # t, NEW c, th' = [th EXCEPT ![u] = c]
      PROVE  th'[t] = th[t]
  BY <1>1, <1>3
<1>4. CASE ScreenChanges
  BY <1>1, <1>4 DEF ScreenChanges, Same, Calls
<1>5. CASE Tick
  BY <1>1, <1>5 DEF Tick, Same, Calls
<1>6. ASSUME NEW u \in Threads, u # t, ThreadStep(u) PROVE th'[t] = th[t]
  BY <1>1, <1>6 DEF ThreadStep, ReadNodes, DumpFails, Publish, NextRound, Check, Wake,
                    Matched, TapFound, Return
<1>7. CASE ThreadStep(t)
  <2>1. CASE ReadNodes(t) \/ Publish(t) \/ Wake(t)
    BY <1>1, <2>1 DEF ReadNodes, Publish, Wake, Same, Calls
  <2>2. CASE DumpFails(t)
    <3>1. th[t].answer = "none"
      BY <1>1, <2>2 DEF DumpFails, Role, InDump
    <3> QED
      BY <1>1, <2>2, <3>1 DEF DumpFails, Answer, Same, Calls
  <2>3. CASE NextRound(t)
    <3>1. th[t].answer = "none"
      BY <1>1, <2>3 DEF NextRound, Role
    <3> QED
      BY <1>1, <2>3, <3>1 DEF NextRound, Answer, StartDump, Same, Calls
  <2>4. CASE Check(t)
    <3>1. IsStable(th[t])
      <4>1. th'[t].request = th[t].request
        BY <1>1, <2>4 DEF Check, Answer, Calls
      <4> QED
        BY <4>1 DEF IsStable
    <3> QED
      BY <2>4, <3>1
  <2>5. CASE Matched(t) \/ TapFound(t)
    BY <1>1, <2>5 DEF Matched, TapFound, Role
  <2>6. CASE Return(t)
    BY <1>1, <2>6 DEF Return, Idle, Fresh
  <2> QED
    BY <1>7, <2>1, <2>2, <2>3, <2>4, <2>5, <2>6 DEF ThreadStep
<1>8. ASSUME NEW u \in Waiters, NEW k \in Conditions, BeginWait(u, k)
      PROVE  th'[t] = th[t] \/ Fresh(th'[t])
  BY <1>1, <1>8 DEF BeginWait, Idle, Fresh, Threads
<1>9. ASSUME NEW u \in Finders, BeginFind(u) PROVE th'[t] = th[t]
  BY <1>1, <1>9 DEF BeginFind, Threads
<1>10. CASE UNCHANGED vars
  BY <1>2, <1>10 DEF vars
<1> QED
  BY <1>2, <1>4, <1>5, <1>6, <1>7, <1>8, <1>9, <1>10 DEF Next

\* What a check compares, and where it takes the count.
LEMMA CheckCompares ==
  ASSUME IInv, NEW t \in Waiters, Check(t), IsStable(th[t])
  PROVE  /\ th[t].answer = "none"
         /\ th'[t].stable = StableAfter(th[t]) /\ th'[t].hashes = {StateHash(th[t])}
         /\ th'[t].dumps = Append(th[t].dumps, Nodes(th[t].ws))
         /\ th'[t].request = th[t].request
         /\ th'[t].answer = "satisfied" <=> StableAfter(th[t]) >= StableCount
<1>1. t \in Threads /\ th[t] \in Calls /\ Role(t, th[t]) /\ th[t].at = "check"
  BY DEF IInv, Types, CallInv, Threads, Check
<1>2. th[t].answer = "none"
  BY <1>1 DEF Role
<1>3. Satisfied(th[t]) <=> StableAfter(th[t]) >= StableCount
  BY DEF Satisfied, IsStable
<1>4. CASE Satisfied(th[t])
  BY <1>1, <1>2, <1>3, <1>4 DEF Check, IsStable, Answer, Calls, IInv, Types
<1>5. CASE ~Satisfied(th[t])
  BY <1>1, <1>2, <1>3, <1>5 DEF Check, IsStable, Calls, IInv, Types
<1> QED
  BY <1>4, <1>5

\* The last k dumps are equal, and no more of them.
RunOf(d, k) ==
  /\ k \in 0..Len(d) /\ (Len(d) > 0 => k > 0)
  /\ \A j \in (Len(d) - k + 1)..Len(d) : d[j] = d[Len(d)]
  /\ k < Len(d) => d[Len(d) - k] # d[Len(d)]

\* One more dump makes the run longer or starts one.
LEMMA NextRun ==
  ASSUME NEW S, NEW d \in Seq(S), NEW x \in S, NEW k, RunOf(d, k),
         NEW l, l = IF Len(d) > 0 /\ x = d[Len(d)] THEN k + 1 ELSE 1
  PROVE  RunOf(Append(d, x), l)
<1> DEFINE n == Len(d)
           e == Append(d, x)
<1>1. n \in Nat /\ Len(e) = n + 1 /\ e[n + 1] = x
  OBVIOUS
<1>2. \A j \in 1..n : e[j] = d[j]
  OBVIOUS
<1>3. k \in 0..n /\ (n > 0 => k > 0) /\ (\A j \in (n - k + 1)..n : d[j] = d[n])
      /\ (k < n => d[n - k] # d[n])
  BY DEF RunOf
<1> HIDE DEF n, e
<1>4. CASE n > 0 /\ x = d[n]
  <2>1. l = k + 1
    BY <1>4 DEF n
  <2>2. \A j \in (n + 1 - l + 1)..(n + 1) : e[j] = e[n + 1]
    <3> SUFFICES ASSUME NEW j \in (n + 1 - l + 1)..(n + 1) PROVE e[j] = x
      BY <1>1
    <3>1. k \in Nat /\ k <= n
      BY <1>1, <1>3
    <3>2. CASE j = n + 1
      BY <1>1, <3>2
    <3>3. CASE j # n + 1
      <4>1. j \in (n - k + 1)..n /\ j \in 1..n
        BY <1>1, <2>1, <3>1, <3>3
      <4> QED
        BY <1>2, <1>3, <1>4, <4>1
    <3> QED
      BY <3>2, <3>3
  <2>3. ASSUME l < n + 1 PROVE e[n + 1 - l] # e[n + 1]
    <3>1. n + 1 - l = n - k /\ n - k \in 1..n
      <4>1. k \in Nat /\ k <= n
        BY <1>1, <1>3
      <4> QED
        BY <1>1, <2>1, <2>3, <4>1
    <3> QED
      BY <1>1, <1>2, <1>3, <1>4, <3>1
  <2> QED
    BY <1>1, <1>3, <2>1, <2>2, <2>3 DEF RunOf, e
<1>5. CASE ~(n > 0 /\ x = d[n])
  <2>1. l = 1
    BY <1>5 DEF n
  <2>2. \A j \in (n + 1)..(n + 1) : e[j] = e[n + 1]
    BY <1>1
  <2>3. ASSUME 1 < n + 1 PROVE e[n] # e[n + 1]
    BY <1>1, <1>2, <1>5, <2>3
  <2> QED
    BY <1>1, <2>1, <2>2, <2>3 DEF RunOf, e
<1> QED
  BY <1>4, <1>5

\* The first StableCount equal dumps in a row end where the run gets there.
LEMMA NextSettled ==
  ASSUME NEW S, NEW d \in Seq(S), NEW x \in S, NEW k, RunOf(d, k), k < StableCount,
         SettledAt(d) = {}, NEW l, RunOf(Append(d, x), l), l \in {1, k + 1}
  PROVE  SettledAt(Append(d, x)) =
           IF l >= StableCount THEN {Len(d) + 1 - StableCount + 1} ELSE {}
<1> DEFINE n == Len(d)
           e == Append(d, x)
           m == StableCount
<1>1. n \in Nat /\ Len(e) = n + 1 /\ m \in Nat /\ m >= 2 /\ k \in Nat
      /\ \A j \in 1..n : e[j] = d[j]
  BY DEF RunOf
<1>2. l \in 1..(n + 1) /\ (\A j \in (n + 1 - l + 1)..(n + 1) : e[j] = e[n + 1])
      /\ (l < n + 1 => e[n + 1 - l] # e[n + 1])
  BY <1>1 DEF RunOf
<1>3. SettledAt(e) = {i \in 1..(n + 1 - m + 1) : \A j \in i..(i + m - 1) : e[j] = e[i]}
  <2>1. SettledAt(e) = {i \in 1..(Len(e) - m + 1) : \A j \in i..(i + m - 1) : e[j] = e[i]}
    <3> HIDE DEF e
    <3> QED
      BY DEF SettledAt, EqualRun
  <2> HIDE DEF n, e, m
  <2> QED
    BY <1>1, <2>1
<1>4. \A i \in 1..(n - m + 1) : \E j \in i..(i + m - 1) : d[j] # d[i]
  <2> SUFFICES ASSUME NEW i \in 1..(n - m + 1), \A j \in i..(i + m - 1) : d[j] = d[i]
               PROVE  FALSE
    OBVIOUS
  <2>1. i \in SettledAt(d)
    BY DEF SettledAt, EqualRun
  <2> QED
    BY <2>1
<1> HIDE DEF n, e, m
<1>5. ASSUME NEW i \in SettledAt(e)
      PROVE  i = n + 1 - m + 1 /\ l >= m
  <2>1. i \in 1..(n + 1 - m + 1) /\ \A j \in i..(i + m - 1) : e[j] = e[i]
    BY <1>3
  <2>2. ~(i \in 1..(n - m + 1))
    <3> SUFFICES ASSUME i \in 1..(n - m + 1) PROVE FALSE
      OBVIOUS
    <3>1. PICK j \in i..(i + m - 1) : d[j] # d[i]
      BY <1>4
    <3>2. j \in 1..n /\ i \in 1..n
      BY <1>1, <3>1
    <3> QED
      BY <1>1, <2>1, <3>1, <3>2
  <2>3. i = n + 1 - m + 1
    BY <1>1, <2>1, <2>2
  <2>4. ASSUME l < m PROVE FALSE
    <3>1. l < n + 1 /\ n + 1 - l \in i..(i + m - 1) /\ n + 1 \in i..(i + m - 1)
      BY <1>1, <1>2, <2>1, <2>3, <2>4
    <3>2. e[n + 1 - l] = e[i] /\ e[n + 1] = e[i]
      BY <2>1, <3>1
    <3> QED
      BY <1>2, <3>1, <3>2
  <2> QED
    BY <1>1, <1>2, <2>3, <2>4
<1>6. ASSUME l >= m PROVE n + 1 - m + 1 \in SettledAt(e)
  <2>1. l = m
    BY <1>1, <1>2, <1>6 DEF m
  <2>2. n + 1 - m + 1 \in 1..(n + 1 - m + 1)
    BY <1>1, <1>2, <2>1
  <2>3. \A j \in (n + 1 - m + 1)..(n + 1 - m + 1 + m - 1) : e[j] = e[n + 1 - m + 1]
    BY <1>1, <1>2, <2>1
  <2> QED
    BY <1>3, <2>2, <2>3
<1>7. CASE l >= m
  BY <1>5, <1>6, <1>7 DEF n, e, m
<1>8. CASE ~(l >= m)
  BY <1>5, <1>8 DEF n, e, m
<1> QED
  BY <1>7, <1>8

\* A wait for a stable screen counts the dumps it ends with that agree on what
\* is compared, and has not seen enough of them before it is satisfied.  Not
\* with adroid_rust.
Counts(c) ==
  LET d == AsCompared(c.dumps) IN
  IsStable(c) =>
    /\ RunOf(d, c.stable)
    /\ c.hashes = IF Len(d) = 0 THEN {} ELSE {[nodes |-> d[Len(d)]]}
    /\ IF c.answer = "satisfied"
       THEN SettledAt(d) = {Len(c.dumps) - StableCount + 1}
       ELSE c.stable < StableCount /\ SettledAt(d) = {}

StableInv == \A t \in Waiters : Counts(th[t])

\* One more dump is one more to compare.
LEMMA AppendCompared ==
  ASSUME NEW d \in Seq(SUBSET Elements), NEW x \in SUBSET Elements
  PROVE  /\ AsCompared(d) \in Seq(SUBSET Elements) /\ Len(AsCompared(d)) = Len(d)
         /\ Compared(x) \in SUBSET Elements
         /\ AsCompared(Append(d, x)) = Append(AsCompared(d), Compared(x))
<1>1. \A n \in SUBSET Elements : Compared(n) \in SUBSET Elements
  BY DEF Compared
<1>2. /\ AsCompared(d) \in Seq(SUBSET Elements) /\ Len(AsCompared(d)) = Len(d)
      /\ \A i \in 1..Len(d) : AsCompared(d)[i] = Compared(d[i])
  BY <1>1 DEF AsCompared
<1>3. /\ Len(Append(d, x)) = Len(d) + 1 /\ Append(d, x)[Len(d) + 1] = x
      /\ \A i \in 1..Len(d) : Append(d, x)[i] = d[i]
      /\ DOMAIN Append(d, x) = 1..(Len(d) + 1)
  OBVIOUS
<1> DEFINE a == AsCompared(Append(d, x))
           b == Append(AsCompared(d), Compared(x))
<1>4. a \in Seq(SUBSET Elements) /\ Len(a) = Len(d) + 1
      /\ \A i \in 1..(Len(d) + 1) : a[i] = Compared(Append(d, x)[i])
  <2>1. \A i \in 1..(Len(d) + 1) : Append(d, x)[i] \in SUBSET Elements
    BY <1>3
  <2> QED
    BY <1>1, <1>3, <2>1 DEF AsCompared
<1>5. b \in Seq(SUBSET Elements) /\ Len(b) = Len(d) + 1 /\ b[Len(d) + 1] = Compared(x)
      /\ \A i \in 1..Len(d) : b[i] = Compared(d[i])
  BY <1>1, <1>2
<1> HIDE DEF a, b
<1>6. ASSUME NEW i \in 1..(Len(d) + 1) PROVE a[i] = b[i]
  BY <1>3, <1>4, <1>5
<1>7. a = b
  BY <1>4, <1>5, <1>6, SeqEqual
<1> QED
  BY <1>1, <1>2, <1>7 DEF a, b

LEMMA FreshCounts ==
  ASSUME NEW c, Fresh(c)
  PROVE  Counts(c)
<1>1. /\ Len(AsCompared(c.dumps)) = 0 /\ c.stable = 0 /\ c.hashes = {}
      /\ c.answer # "satisfied"
  BY DEF Fresh, AsCompared
<1>2. RunOf(AsCompared(c.dumps), c.stable)
  BY <1>1 DEF RunOf
<1>3. SettledAt(AsCompared(c.dumps)) = {}
  BY <1>1 DEF SettledAt
<1> QED
  BY <1>1, <1>2, <1>3 DEF Counts

LEMMA SameCounts ==
  ASSUME NEW c, NEW r, Same(c, r), Counts(r)
  PROVE  Counts(c)
  BY DEF Same, Counts, IsStable

LEMMA StableStep ==
  ASSUME ~RustExtension
  PROVE  IInv /\ StableInv /\ [Next]_vars => StableInv'
<1> SUFFICES ASSUME IInv, StableInv, [Next]_vars, NEW t \in Waiters
             PROVE  Counts(th'[t])
  BY DEF StableInv
<1>1. CASE ~IsStable(th'[t])
  BY <1>1 DEF Counts
<1>2. CASE Same(th'[t], th[t])
  BY <1>2, SameCounts DEF StableInv
<1>3. CASE Fresh(th'[t])
  BY <1>3, FreshCounts
<1>4. CASE Check(t) /\ IsStable(th[t])
  <2> DEFINE r == th[t]
             n == Nodes(th[t].ws)
             d == AsCompared(th[t].dumps)
             x == Compared(n)
             l == StableAfter(th[t])
  <2>1. r \in Calls /\ Counts(r)
    BY DEF IInv, Types, StableInv, Threads
  <2>2. /\ d \in Seq(SUBSET Elements) /\ x \in SUBSET Elements /\ Len(d) \in Nat
        /\ r.stable \in Nat /\ AsCompared(Append(r.dumps, n)) = Append(d, x)
        /\ Len(Append(r.dumps, n)) = Len(d) + 1
    <3>1. r.dumps \in Seq(SUBSET Elements) /\ n \in SUBSET Elements /\ r.stable \in Nat
      BY <2>1, CallFields, FactsOfStates
    <3>2. Len(Append(r.dumps, n)) = Len(r.dumps) + 1
      BY <3>1
    <3> HIDE DEF n, r
    <3>3. /\ AsCompared(r.dumps) \in Seq(SUBSET Elements)
          /\ Len(AsCompared(r.dumps)) = Len(r.dumps) /\ Compared(n) \in SUBSET Elements
          /\ AsCompared(Append(r.dumps, n)) = Append(AsCompared(r.dumps), Compared(n))
      BY <3>1, AppendCompared
    <3>4. Len(AsCompared(r.dumps)) \in Nat
      BY <3>3
    <3> QED
      BY <3>1, <3>2, <3>3, <3>4 DEF r
  <2>3. /\ r.answer = "none" /\ th'[t].stable = l /\ th'[t].hashes = {StateHash(r)}
        /\ th'[t].dumps = Append(r.dumps, n) /\ th'[t].request = r.request
        /\ th'[t].answer = "satisfied" <=> l >= StableCount
    BY <1>4, CheckCompares
  <2>4. StateHash(r) = [nodes |-> x]
    BY DEF StateHash
  <2>5. RunOf(d, r.stable) /\ r.stable < StableCount /\ SettledAt(d) = {}
        /\ r.hashes = IF Len(d) = 0 THEN {} ELSE {[nodes |-> d[Len(d)]]}
    BY <1>4, <2>1, <2>3 DEF Counts
  <2>6. l = IF Len(d) > 0 /\ x = d[Len(d)] THEN r.stable + 1 ELSE 1
    <3>1. l = IF [nodes |-> x] \in r.hashes THEN r.stable + 1 ELSE 1
      BY <2>4 DEF StableAfter
    <3> HIDE DEF l, r, d, x, n
    <3>2. CASE Len(d) = 0
      BY <2>2, <2>5, <3>1, <3>2
    <3>3. CASE Len(d) > 0
      <4>1. [nodes |-> x] \in r.hashes <=> [nodes |-> x] = [nodes |-> d[Len(d)]]
        BY <2>2, <2>5, <3>3
      <4>2. [nodes |-> x] = [nodes |-> d[Len(d)]] <=> x = d[Len(d)]
        <5>1. [nodes |-> x].nodes = x /\ [nodes |-> d[Len(d)]].nodes = d[Len(d)]
          OBVIOUS
        <5> QED
          BY <5>1
      <4> QED
        BY <3>1, <3>3, <4>1, <4>2
    <3> QED
      BY <2>2, <3>2, <3>3
  <2> HIDE DEF l, r, d, x, n
  <2>7. RunOf(Append(d, x), l)
    BY <2>2, <2>5, <2>6, NextRun
  <2>8. SettledAt(Append(d, x)) =
          IF l >= StableCount THEN {Len(d) + 1 - StableCount + 1} ELSE {}
    <3>1. l \in {1, r.stable + 1}
      BY <2>6
    <3> QED
      BY <2>2, <2>5, <2>7, <3>1, NextSettled
  <2>9. Len(Append(d, x)) = Len(d) + 1 /\ Append(d, x)[Len(d) + 1] = x
    BY <2>2
  <2>10. l \in Nat
    BY <2>2, <2>6
  <2>11. AsCompared(th'[t].dumps) = Append(d, x) /\ Len(th'[t].dumps) = Len(d) + 1
    BY <2>2, <2>3
  <2> DEFINE q == th'[t]
             e == Append(d, x)
  <2>12. /\ AsCompared(q.dumps) = e /\ Len(q.dumps) = Len(d) + 1 /\ q.stable = l
         /\ q.hashes = {[nodes |-> e[Len(e)]]} /\ Len(e) > 0
         /\ q.answer = "satisfied" <=> l >= StableCount
         /\ RunOf(e, l)
         /\ SettledAt(e) = IF l >= StableCount THEN {Len(d) + 1 - StableCount + 1} ELSE {}
    BY <2>2, <2>3, <2>4, <2>7, <2>8, <2>9, <2>11
  <2> HIDE DEF e, q
  <2>13. Counts(q)
    BY <2>2, <2>10, <2>12 DEF Counts
  <2> QED
    BY <2>13 DEF q
<1> QED
  BY <1>1, <1>2, <1>3, <1>4, OnlyChecksCompare

\* Without adroid_rust, a wait for a stable screen is satisfied exactly at the
\* first StableCount dumps in a row that agree on the fields the code compares,
\* whichever changes of a node these leave out.  (ui_wait_for's stable_count and
\* prev_node_hashes)
THEOREM StableWaitIsExact ==
  ASSUME ~RustExtension
  PROVE  Spec => []StableIsExact
<1>1. Init => StableInv
  <2>1. Fresh(Idle)
    BY DEF Fresh, Idle
  <2> QED
    BY <2>1, FreshCounts DEF Init, StableInv, Threads
<1>2. IInv /\ StableInv /\ [Next]_vars => StableInv'
  BY StableStep
<1>3. StableInv => StableIsExact
  BY DEF StableInv, StableIsExact, Counts, IsStable
<1> QED
  BY <1>1, <1>2, <1>3, Invariance, PTL DEF Spec

\* With adroid_rust, each dump has a hash of its own.
Distinct(c) ==
  IsStable(c) =>
    /\ \A h \in c.hashes : \E n \in SUBSET Elements, p \in Nat :
          h = [nodes |-> n, poll |-> p] /\ p < Len(c.dumps)
    /\ c.answer # "satisfied"

DistinctInv == \A t \in Waiters : Distinct(th[t])

\* With adroid_rust, no wait for a stable screen is ever satisfied, however long
\* the screen stays as it is.  (ui_wait_for's hash_json of the whole state)
NeverStable == \A t \in Waiters : ~(IsStable(th[t]) /\ th[t].answer = "satisfied")

LEMMA DistinctStep ==
  ASSUME RustExtension
  PROVE  IInv /\ DistinctInv /\ [Next]_vars => DistinctInv'
<1> SUFFICES ASSUME IInv, DistinctInv, [Next]_vars, NEW t \in Waiters
             PROVE  Distinct(th'[t])
  BY DEF DistinctInv
<1>1. CASE ~IsStable(th'[t])
  BY <1>1 DEF Distinct
<1>2. CASE Same(th'[t], th[t])
  BY <1>2 DEF DistinctInv, Distinct, Same, IsStable
<1>3. CASE Fresh(th'[t])
  BY <1>3 DEF Fresh, Distinct
<1>4. CASE Check(t) /\ IsStable(th[t])
  <2> DEFINE r == th[t]
             d == th[t].dumps
             x == Nodes(th[t].ws)
  <2>1. r \in Calls /\ Distinct(r)
    BY DEF IInv, Types, DistinctInv, Threads
  <2>2. d \in Seq(SUBSET Elements) /\ x \in SUBSET Elements /\ Len(d) \in Nat
    BY <2>1, CallFields, FactsOfStates
  <2>3. /\ th'[t].hashes = {StateHash(r)} /\ th'[t].dumps = Append(d, x)
        /\ th'[t].answer = "satisfied" <=> StableAfter(r) >= StableCount
    BY <1>4, CheckCompares
  <2>4. StateHash(r) = [nodes |-> x, poll |-> Len(d)]
    BY DEF StateHash
  <2>5. StateHash(r) \notin r.hashes
    <3> SUFFICES ASSUME NEW n \in SUBSET Elements, NEW p \in Nat, p < Len(d),
                        [nodes |-> x, poll |-> Len(d)] = [nodes |-> n, poll |-> p]
                 PROVE  FALSE
      BY <1>4, <2>1, <2>4 DEF Distinct
    <3>1. [nodes |-> x, poll |-> Len(d)].poll = [nodes |-> n, poll |-> p].poll
      OBVIOUS
    <3> QED
      BY <2>2, <3>1
  <2>6. StableAfter(r) = 1
    BY <2>5 DEF StableAfter
  <2>7. Len(Append(d, x)) = Len(d) + 1
    BY <2>2
  <2> HIDE DEF r, d, x
  <2>8. Len(d) \in Nat /\ Len(d) < Len(th'[t].dumps)
    BY <2>2, <2>3, <2>7
  <2>9. \A h \in th'[t].hashes : \E n \in SUBSET Elements, p \in Nat :
          h = [nodes |-> n, poll |-> p] /\ p < Len(th'[t].dumps)
    BY <2>2, <2>3, <2>4, <2>8
  <2>10. th'[t].answer # "satisfied"
    BY <2>3, <2>6
  <2> QED
    BY <2>9, <2>10 DEF Distinct
<1> QED
  BY <1>1, <1>2, <1>3, <1>4, OnlyChecksCompare

\* So the answer to such a wait is a timeout or an error.
THEOREM NeverStableWithRust ==
  ASSUME RustExtension
  PROVE  Spec => []NeverStable
<1>1. Init => DistinctInv
  BY DEF Init, DistinctInv, Distinct, Idle, Threads
<1>2. IInv /\ DistinctInv /\ [Next]_vars => DistinctInv'
  BY DistinctStep
<1>3. DistinctInv => NeverStable
  BY DEF DistinctInv, NeverStable, Distinct
<1> QED
  BY <1>1, <1>2, <1>3, Invariance, PTL DEF Spec
==============================================================================
