------------------------------- MODULE UiWait -------------------------------
(***************************************************************************)
(* Reading the screen through adb: the dump of the UI tree in several      *)
(* commands, the cache of the last dump that every AdbBridge shares, the   *)
(* waits of ui.wait_for and the bridge's find-and-tap that reads the cache *)
(* (the runtime's tools of that name dump afresh: UiTools).                *)
(*                                                                         *)
(* Time is a count of ticks that only Tick advances: every duration is     *)
(* kept as an age or as the ticks left, so that nothing bounds the run.    *)
(* A command of adb ends within its timeout, so a dump ends within         *)
(* DumpMax ticks; what Python does between two commands takes no time.     *)
(* The screen changes whenever it likes.  Left out: the revision drawn     *)
(* under the lock and a dump's app, activity and dimensions, on which no   *)
(* answer here depends, and which of several matches is picked.            *)
(***************************************************************************)
EXTENDS Integers, Sequences

CONSTANTS
  Waiters,        \* threads that run ui.wait_for
  Finders,        \* threads that run ui_find_elements and ui_tap_element
  Elements,       \* what a selector or a text may match on the screen
  Uncompared,     \* those told apart by a node's class_name, enabled, selected,
                  \* scrollable or editable only
  Keyboard,       \* the soft keyboard, reported apart from the elements
  Screens,        \* the facts that hold on each screen the device may show
  Awaited,        \* the facts that callers wait for
  Timeout,        \* WaitForCondition.timeout_seconds, in ticks
  PollInterval,   \* WaitForCondition.poll_interval_seconds, in ticks
  StableCount,    \* WaitForCondition.stable_count
  DumpMax,        \* longest dump: its commands, each with its own timeout
  CacheTTL,       \* AdbBridge._worldstate_cache_ttl, in ticks
  RustExtension   \* whether adroid_rust is importable

Facts == Elements \cup {Keyboard}

ASSUME WaitAssumption ==
  /\ Waiters \cap Finders = {} /\ Keyboard \notin Elements
  /\ Uncompared \subseteq Elements
  /\ Screens \subseteq SUBSET Facts /\ Awaited \subseteq Facts
  /\ Timeout \in Nat \ {0} /\ PollInterval \in Nat \ {0}
  /\ DumpMax \in Nat /\ CacheTTL \in Nat
  /\ StableCount \in Nat \ {0, 1} /\ RustExtension \in BOOLEAN

VARIABLES
  screen,   \* the facts that hold on the device's screen
  seenAge,  \* element -> ticks since it was last on the screen (history)
  cache,    \* _worldstate_cache for the device
  th        \* thread -> its call in progress

vars == <<screen, seenAge, cache, th>>
Threads == Waiters \cup Finders
AgeCap == CacheTTL + DumpMax + 1   \* ages are told apart up to here
LateMax == Timeout + DumpMax + PollInterval

\* WaitConditionType: the element and the text conditions differ only in
\* how a node is matched, and the keyboard's are about one more fact.
Conditions == {[kind |-> "stable"]} \cup
              [kind : {"appears", "disappears"}, fact : Awaited]

NoState == [cached |-> FALSE]
NoRequest == [kind |-> "none"]
Find == [kind |-> "find"]

\* A dump as the caller gets it: the facts it reports, and the facts it
\* could not read (unparsable XML, a failed dumpsys) and reports as absent.
WorldStates == {w \in [facts : SUBSET Facts, unread : SUBSET Facts] :
                  w.facts \cap w.unread = {}}
Nodes(ws) == ws.facts \cap Elements
Blank == [facts |-> {}, unread |-> {}]

\* hashes: prev_node_hashes.  Two fields are history: dumps, the nodes of the
\* dumps a wait for a stable screen has compared, and saw, whether the fact
\* of another wait held (TRUE) or not (FALSE) since its last dump began.
Idle == [at |-> "idle", request |-> NoRequest, elapsed |-> 0, left |-> 0,
         ws |-> Blank, hashes |-> {}, stable |-> 0, dumps |-> <<>>,
         saw |-> {}, answer |-> "none"]

InDump == {"nodes", "detect"}
Places == {"idle", "loop", "check", "sleep", "tap", "answered"}
            \cup InDump
Answers == {"none", "satisfied", "timeout", "error", "found", "unmatched"}

WaitTypeOK ==
  /\ screen \in Screens
  /\ seenAge \in [Elements -> 0..AgeCap]
  /\ cache = NoState \/ (cache.nodes \subseteq Elements /\ cache.age \in 0..(CacheTTL + 1))
  /\ DOMAIN th = Threads
  /\ \A t \in Threads :
       /\ th[t].at \in Places /\ th[t].answer \in Answers
       /\ th[t].request \in Conditions \cup {NoRequest, Find}
       /\ th[t].elapsed \in 0..LateMax
       /\ th[t].left \in 0..(DumpMax + PollInterval)
       /\ th[t].ws \in WorldStates /\ th[t].saw \in SUBSET BOOLEAN
       /\ Len(th[t].dumps) * PollInterval <= LateMax
       /\ (th[t].at = "answered") = (th[t].answer # "none")

Init ==
  /\ screen \in Screens
  /\ seenAge = [e \in Elements |-> IF e \in screen THEN 0 ELSE AgeCap]
  /\ cache = NoState
  /\ th = [t \in Threads |-> Idle]

------------------------------------------------------------------------------
(* The device and the clock.                                               *)

\* What a wait for a fact can see of it on screen s.
Saw(call, s) == IF call.request.kind \in {"appears", "disappears"}
                THEN {call.request.fact \in s} ELSE {}

\* Apps draw what they like, whenever they like.
ScreenChanges ==
  /\ \E s \in Screens :
       /\ s # screen /\ screen' = s
       /\ seenAge' = [e \in Elements |-> IF e \in s THEN 0 ELSE seenAge[e]]
       /\ th' = [t \in Threads |->
                   IF th[t].at \in InDump THEN [th[t] EXCEPT !.saw = @ \cup Saw(th[t], s)]
                                         ELSE th[t]]
  /\ UNCHANGED cache

Older(age, cap) == IF age < cap THEN age + 1 ELSE age

\* One tick passes.  A dump and a sleep take time as long as some is left;
\* the steps of Python in between do not.
Tick ==
  /\ \A t \in Threads : \/ th[t].at = "idle"
                        \/ th[t].at \in InDump \cup {"sleep"} /\ th[t].left > 0
  /\ seenAge' = [e \in Elements |-> IF e \in screen THEN 0 ELSE Older(seenAge[e], AgeCap)]
  /\ cache' = IF cache = NoState THEN NoState
              ELSE [cache EXCEPT !.age = Older(@, CacheTTL + 1)]
  /\ th' = [t \in Threads |->
              IF th[t].at = "idle" THEN th[t]
              ELSE [th[t] EXCEPT !.left = @ - 1,
                                 !.elapsed = IF t \in Waiters THEN Older(@, LateMax) ELSE @]]
  /\ UNCHANGED screen

------------------------------------------------------------------------------
(* ui_dump.                                                                *)

device == <<screen, seenAge>>

\* Mutant: a cached state never expires.
EverFresh == cache # NoState

FreshEnough == cache # NoState /\ cache.age <= CacheTTL

\* Mutant: a wait is content with a fresh cached state.
StartDumpUnlessCached(call) ==
  IF FreshEnough THEN [call EXCEPT !.at = "check", !.ws.facts = cache.nodes]
  ELSE [call EXCEPT !.at = "nodes", !.left = DumpMax, !.saw = Saw(call, screen)]

StartDump(call) == [call EXCEPT !.at = "nodes", !.left = DumpMax,
                                !.ws = Blank, !.saw = Saw(call, screen)]

\* The call ends; the thread keeps what its answer was made from.
Answer(call, answer) == [call EXCEPT !.at = "answered", !.answer = answer, !.left = 0]

\* uiautomator dump writes the tree to a file of its own, cat reads it back
\* (rm may fail), and the XML is parsed: what does not parse has no nodes.
ReadNodes(t) ==
  /\ th[t].at = "nodes"
  /\ \E readable \in BOOLEAN :
       th' = [th EXCEPT
         ![t].at = "detect",
         ![t].ws = IF readable THEN [facts |-> screen \cap Elements, unread |-> {}]
                               ELSE [facts |-> {}, unread |-> Elements]]
  /\ UNCHANGED <<device, cache>>

\* adb missing, timed out or failed in the dump or the cat; or, once the
\* tree is read, the blob store could not keep the raw XML.
DumpFails(t) ==
  /\ th[t].at \in InDump
  /\ th' = [th EXCEPT ![t] = Answer(@, "error")]
  /\ UNCHANGED <<device, cache>>

\* The dumpsys calls come after the tree was read; one that fails reports
\* its default, no keyboard.
Detected(ws, failed) ==
  IF failed THEN [ws EXCEPT !.unread = @ \cup {Keyboard}]
            ELSE [ws EXCEPT !.facts = @ \cup (screen \cap {Keyboard})]

\* Complete the state and make it the device's cached one, whatever another
\* thread has cached since this dump began.  A finder uses the nodes only.
Publish(t) ==
  /\ th[t].at = "detect"
  /\ \E failed \in BOOLEAN :
       LET ws == Detected(th[t].ws, failed) IN
       th' = [th EXCEPT ![t].at = "check", ![t].left = 0,
                        ![t].ws = IF t \in Waiters THEN ws
                                  ELSE [Blank EXCEPT !.facts = Nodes(ws)]]
  /\ cache' = [cached |-> TRUE, nodes |-> Nodes(th[t].ws), age |-> 0]
  /\ UNCHANGED device

------------------------------------------------------------------------------
(* ui_wait_for.                                                            *)

BeginWait(t, c) ==
  /\ th[t].at = "idle"
  /\ th' = [th EXCEPT ![t] = [Idle EXCEPT !.at = "loop", !.request = c]]
  /\ UNCHANGED <<device, cache>>

\* Mutant: one more round before the wait is called expired.
ExpiredOneMore(call) == call.elapsed >= Timeout + PollInterval

\* The time limit is looked at before a dump, never after one.
Expired(call) == call.elapsed >= Timeout

\* Mutant: the loop ends at the limit, and nothing is answered after it.
NextRoundOnly(t) ==
  /\ th[t].at = "loop" /\ ~Expired(th[t])
  /\ th' = [th EXCEPT ![t] = StartDump(@)]
  /\ UNCHANGED <<device, cache>>

NextRound(t) ==
  /\ th[t].at = "loop"
  /\ th' = [th EXCEPT ![t] = IF Expired(@) THEN Answer(@, "timeout")
                                            ELSE StartDump(@)]
  /\ UNCHANGED <<device, cache>>

\* What the Python comparison hashes of each node: its text, description,
\* resource_id, bounds, clickable and focused.
Compared(nodes) == nodes \ Uncompared

\* What two dumps are compared by.  adroid_rust hashes the whole state, its
\* revision, its time and its node uuids included: no two dumps are equal.
StateHash(call) ==
  IF RustExtension THEN [nodes |-> Nodes(call.ws), poll |-> Len(call.dumps)]
                   ELSE [nodes |-> Compared(Nodes(call.ws))]

\* Mutant: a changed dump does not reset the count.
StableNoReset(call) == call.stable + 1

StableAfter(call) == IF StateHash(call) \in call.hashes THEN call.stable + 1 ELSE 1

Satisfied(call) ==
  CASE call.request.kind = "stable" -> StableAfter(call) >= StableCount
    [] call.request.kind = "appears" -> call.request.fact \in call.ws.facts
    [] call.request.kind = "disappears" -> call.request.fact \notin call.ws.facts

Check(t) ==
  /\ t \in Waiters /\ th[t].at = "check"
  /\ LET polled == IF th[t].request.kind = "stable"
                   THEN [th[t] EXCEPT !.stable = StableAfter(th[t]),
                                      !.hashes = {StateHash(th[t])},
                                      !.dumps = Append(@, Nodes(th[t].ws))]
                   ELSE th[t]
     IN th' = [th EXCEPT ![t] =
                 IF Satisfied(th[t]) THEN Answer(polled, "satisfied")
                 ELSE [polled EXCEPT !.at = "sleep", !.left = PollInterval,
                                     !.ws = Blank, !.saw = {}]]
  /\ UNCHANGED <<device, cache>>

\* time.sleep of the whole interval, however little time the wait has left.
Wake(t) ==
  /\ th[t].at = "sleep" /\ th[t].left = 0
  /\ th' = [th EXCEPT ![t].at = "loop"]
  /\ UNCHANGED <<device, cache>>

------------------------------------------------------------------------------
(* ui_find_elements and ui_tap_element.                                    *)

\* The cache is read without the lock: a state and its time are one tuple
\* that is replaced as a whole.
BeginFind(t) ==
  /\ th[t].at = "idle"
  /\ LET call == [Idle EXCEPT !.request = Find] IN
     th' = [th EXCEPT ![t] = IF FreshEnough
                             THEN [call EXCEPT !.at = "check", !.ws.facts = cache.nodes]
                             ELSE StartDump(call)]
  /\ UNCHANGED <<device, cache>>

\* ui_find_elements returns the matches; ui_tap_element goes on to tap the
\* one the selector's strategy picks, at its bounds in that dump.
Matched(t) ==
  /\ t \in Finders /\ th[t].at = "check"
  /\ \/ /\ Nodes(th[t].ws) = {}
        /\ th' = [th EXCEPT ![t] = Answer(@, "unmatched")]
     \/ /\ Nodes(th[t].ws) # {}
        /\ \/ th' = [th EXCEPT ![t] = Answer(@, "found")]
           \/ th' = [th EXCEPT ![t].at = "tap"]
  /\ UNCHANGED <<device, cache>>

\* input tap; the app's reaction is a ScreenChanges.  The cache keeps the
\* state of before the tap.
TapFound(t) ==
  /\ th[t].at = "tap"
  /\ \E answer \in {"found", "error"} : th' = [th EXCEPT ![t] = Answer(@, answer)]
  /\ UNCHANGED <<device, cache>>

\* Mutant: the thread's next call starts with the last one's answer.
ReturnKeepsAnswer(t) ==
  /\ th[t].at = "answered"
  /\ th' = [th EXCEPT ![t].at = "idle"]
  /\ UNCHANGED <<device, cache>>

Return(t) ==
  /\ th[t].at = "answered"
  /\ th' = [th EXCEPT ![t] = Idle]
  /\ UNCHANGED <<device, cache>>

------------------------------------------------------------------------------

ThreadStep(t) ==
  \/ ReadNodes(t) \/ DumpFails(t) \/ Publish(t)
  \/ NextRound(t) \/ Check(t) \/ Wake(t)
  \/ Matched(t) \/ TapFound(t) \/ Return(t)

Next ==
  \/ ScreenChanges \/ Tick
  \/ \E t \in Threads : ThreadStep(t)
  \/ \E t \in Waiters : \E c \in Conditions : BeginWait(t, c)
  \/ \E t \in Finders : BeginFind(t)

\* Every thread is scheduled and time goes on, however often threads make it
\* wait for them; the screen and the callers owe nothing.
Fairness == SF_vars(Tick) /\ \A t \in Threads : WF_vars(ThreadStep(t))
Spec == Init /\ [][Next]_vars /\ Fairness

------------------------------------------------------------------------------
(* Properties.                                                             *)

\* A satisfied wait for a fact reports something that was so while its last
\* dump was made: what appeared was on the screen, and what disappeared was
\* off it unless that dump could not read it.  No wait is answered from the
\* cache.  (ui_wait_for's forced dump, the detection helpers' defaults)
SatisfiedIsReal ==
  \A t \in Waiters :
    LET call == th[t] IN
    (call.answer = "satisfied" /\ call.request.kind # "stable") =>
      CASE call.request.kind = "appears" -> TRUE \in call.saw
        [] call.request.kind = "disappears" ->
             FALSE \in call.saw \/ call.request.fact \in call.ws.unread

EqualRun(dumps, i, n) == \A j \in i..(i + n - 1) : dumps[j] = dumps[i]

SettledAt(dumps) ==
  {i \in 1..(Len(dumps) - StableCount + 1) : EqualRun(dumps, i, StableCount)}

AsCompared(dumps) == [i \in DOMAIN dumps |-> Compared(dumps[i])]

\* A wait for a stable screen is satisfied exactly at the first StableCount
\* dumps in a row that agree on the fields the code compares, which leave some
\* changes of the screen out: never earlier on dumps that differ in one of
\* them, never later.  (ui_wait_for's stable_count and prev_node_hashes)
StableIsExact ==
  \A t \in Waiters :
    LET call == th[t] IN
    call.request.kind = "stable" =>
      SettledAt(AsCompared(call.dumps)) =
        IF call.answer = "satisfied" THEN {Len(call.dumps) - StableCount + 1} ELSE {}

\* A wait for a stable screen that timed out never saw StableCount dumps in a
\* row with the same nodes.  (contract/ui.py, "UI tree doesn't change for
\* stable_count consecutive dumps")
TimeoutMeansUnstable ==
  \A t \in Waiters :
    (th[t].answer = "timeout" /\ th[t].request.kind = "stable") =>
      SettledAt(th[t].dumps) = {}

\* timeout_seconds is not a hard limit, but an answer is late by less than
\* one dump and one whole poll interval, and a timeout is never early.
\* (ui_wait_for's loop)
LateByOneRound ==
  \A t \in Waiters :
    /\ th[t].elapsed < LateMax
    /\ th[t].answer = "timeout" => th[t].elapsed >= Timeout
    /\ th[t].answer = "satisfied" => th[t].elapsed < Timeout + DumpMax

\* The element a find returns or a tap aims at was on the screen no longer
\* ago than the cache's lifetime and one dump, although threads fill the
\* cache out of order and taps do not empty it.  (_get_cached_worldstate,
\* the end of ui_dump)
FindIsRecent ==
  \A t \in Finders :
    th[t].at \in {"tap", "answered"} =>
      \A e \in Nodes(th[t].ws) : seenAge[e] <= CacheTTL + DumpMax

\* Every wait is answered, whatever the screen does and the other threads
\* do.  (ui_wait_for under its timeout and the commands' timeouts)
EveryWaitEnds == \A t \in Waiters : th[t].at # "idle" ~> th[t].at = "idle"
==============================================================================
