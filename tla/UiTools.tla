------------------------------- MODULE UiTools -------------------------------
(***************************************************************************)
(* The tools that act on what is on the screen, several calls at a time in *)
(* one process: ui.find_elements and ui.tap_element with self-healing,     *)
(* tap_text with scrolling, launch_app with its three methods, and the     *)
(* screenshot; with the blob store, the confidence tracker and the memory  *)
(* they share, and the process crashing and starting again.                *)
(*                                                                         *)
(* A command of adb is acknowledged, fails without effect, or takes effect *)
(* and is not acknowledged in time; the last two raise.  The screen is one *)
(* of a few and changes whenever it likes.  Not here: the gate and the     *)
(* audit record around each call (ToolCall), and the cache (UiWait).       *)
(***************************************************************************)
EXTENDS Selectors, MemoryStore, BlobStore, SequencesExt

CONSTANTS
  Threads,
  Screens, Xml, App,   \* Xml[s] is what screen s dumps, App[s] its package
  SelectorOf,          \* the selectors the callers use, by name
  Texts,               \* the texts tap_text is asked for
  Kinds,               \* the tools called
  Histories,           \* what the tracker may have counted before the run
  MaxScroll,           \* dumps tap_text makes (max_scroll_attempts)
  MaxCalls, MaxCrashes \* bounds on the run

NoScreen == "unparsed"   \* the screen of a dump that is not XML
NoApp == ""              \* the foreground app when it is not detected
Apps == {App[s] : s \in Screens} \cup {NoApp}
NoBlob == <<"none", NoScreen>>

\* ConfidenceTracker._stats: what has been counted, and at least once.
Counted(stats) ==
  /\ DOMAIN stats \subseteq Apps \X {"find", "tap"} \X Strategies
  /\ \A k \in DOMAIN stats : stats[k] \in Stats \ {NoStats}

ASSUME ToolsAssumption ==
  /\ Stores = {"skill", "failure"}
  /\ Keys = Apps \X ({"find_last", "tap_last"} \cup DOMAIN SelectorOf)
  /\ Contents = {"xml", "png"} \X (Screens \cup {NoScreen})
  /\ Kinds \subseteq {"find", "tap", "text", "launch", "shot"}
  /\ \A h \in Histories : Counted(h)
  /\ MaxScroll \in Nat \ {0}

VARIABLES
  screen,   \* what the device shows
  tracker,  \* ConfidenceTracker._stats: <<app, action, strategy>> -> Stats
  th,       \* thread -> its call in progress
  calls, crashes   \* counters for the bounds

vars == <<screen, tracker, th, calls, crashes, memoryVars, blobs>>

\* scores holds the scores get_fallback_order has read so far, boost one half
\* of the next.  acted and late count the effects of the call's commands on the
\* device, and those of them that raised a timeout all the same (history).
Idle == [at |-> "idle", kind |-> "none", arg |-> "", screen |-> NoScreen,
         app |-> NoApp, blob |-> NoBlob, scores |-> <<>>, boost |-> 0,
         order |-> <<>>, tried |-> <<>>,
         scrolls |-> 0, acted |-> 0, late |-> 0, answer |-> "none"]

Places == {"idle", "dump", "detect", "exists", "write", "publish", "match",
           "score", "penalty", "fallback", "tap", "learn", "dumpText", "swipe", "resolve", "start",
           "monkey", "guess", "capture", "answered"}
Answers == {"none", "found", "tapped", "unmatched", "launched", "captured",
            "error", "unlearned"}

ToolsTypeOK ==
  /\ screen \in Screens
  /\ memory \in Entries /\ files \in Entries /\ kept \in Entries
  /\ unreadable \subseteq Stores /\ overwritten \subseteq Stores
  /\ blobs \in [Contents -> {"absent", "partial", "whole"}]
  /\ Counted(tracker)
  /\ DOMAIN th = Threads
  /\ \A t \in Threads :
       /\ th[t].at \in Places /\ th[t].answer \in Answers
       /\ (th[t].at = "answered") = (th[t].answer # "none")
       /\ th[t].screen \in Screens \cup {NoScreen} /\ th[t].app \in Apps
       /\ th[t].blob \in Contents \cup {NoBlob}
       /\ th[t].scrolls \in 0..(MaxScroll - 1)

Init ==
  /\ screen \in Screens /\ tracker \in Histories
  /\ th = [t \in Threads |-> Idle]
  /\ calls = 0 /\ crashes = 0
  /\ MemoryInit /\ BlobInit

------------------------------------------------------------------------------
(* The device.                                                             *)

Env == <<screen, calls, crashes>>
Shared == <<tracker, memoryVars, blobs>>

ScreenChanges ==
  /\ \E s \in Screens \ {screen} : screen' = s
  /\ UNCHANGED <<th, calls, crashes, Shared>>

\* The call of thread t becomes c and nothing else changes.
Goes(t, c) == th' = [th EXCEPT ![t] = c] /\ UNCHANGED <<Env, Shared>>
Answered(c, a) == [c EXCEPT !.at = "answered", !.answer = a]

\* What a command that acts on the device may do to the call: acknowledged,
\* failed without effect, or late.
Acknowledged(c) == [c EXCEPT !.acted = @ + 1]
Raised(c) == {c, [c EXCEPT !.acted = @ + 1, !.late = @ + 1]}

------------------------------------------------------------------------------
(* Starting a call.                                                        *)

FirstPlace == [find |-> "dump", tap |-> "dump", text |-> "dumpText",
               launch |-> "resolve", shot |-> "capture"]

Arguments(kind) == CASE kind \in {"find", "tap"} -> DOMAIN SelectorOf
                     [] kind = "text" -> Texts
                     [] OTHER -> {""}

Begin(t, kind, arg) ==
  /\ th[t].at = "idle" /\ calls < MaxCalls
  /\ th' = [th EXCEPT ![t] = [Idle EXCEPT !.at = FirstPlace[kind],
                                          !.kind = kind, !.arg = arg]]
  /\ calls' = calls + 1
  /\ UNCHANGED <<screen, crashes, Shared>>

Return(t) ==
  /\ th[t].at = "answered"
  /\ Goes(t, Idle)

------------------------------------------------------------------------------
(* ui_dump and capture_screenshot, as far as the blob they store.          *)

\* uiautomator dump and cat, then the parse; either command may raise.  No
\* blob is stored when cat printed nothing.
Dump(t) ==
  /\ th[t].at = "dump"
  /\ \/ \E s \in {screen, NoScreen} :
        \E b \in {<<"xml", s>>} \cup (IF s = NoScreen THEN {NoBlob} ELSE {}) :
          Goes(t, [th[t] EXCEPT !.at = "detect", !.screen = s, !.blob = b])
     \/ Goes(t, Answered(th[t], "error"))

\* The foreground package is asked for after the tree was read; when the
\* command fails, or names none, there is none.
Detect(t) ==
  /\ th[t].at = "detect"
  /\ LET next == IF th[t].blob = NoBlob THEN "match" ELSE "exists" IN
     \E a \in {App[screen], NoApp} : Goes(t, [th[t] EXCEPT !.at = next, !.app = a])

Capture(t) ==
  /\ th[t].at = "capture"
  /\ \/ Goes(t, [th[t] EXCEPT !.at = "exists", !.blob = <<"png", screen>>])
     \/ Goes(t, Answered(th[t], "error"))

\* A picture is measured after it was stored, and that may raise.
Stored(c) == IF c.kind = "shot" THEN {Answered(c, "captured"), Answered(c, "error")}
                                ELSE {[c EXCEPT !.at = "match"]}

\* put returns at once when the content is there.
CheckBlob(t) ==
  /\ th[t].at = "exists"
  /\ \/ BlobExists(th[t].blob) /\ \E c \in Stored(th[t]) : Goes(t, c)
     \/ ~BlobExists(th[t].blob) /\ Goes(t, [th[t] EXCEPT !.at = "write"])

\* The temporary file may not be written, or not be moved to its place; it
\* is removed and put raises.
WriteBlob(t) ==
  /\ th[t].at = "write"
  /\ \/ /\ th' = [th EXCEPT ![t].at = "publish"]
        /\ WriteTemporary(th[t].blob)
        /\ UNCHANGED <<Env, tracker, memoryVars>>
     \/ Goes(t, Answered(th[t], "error"))

Publish(t) ==
  /\ th[t].at = "publish"
  /\ \/ /\ \E c \in Stored(th[t]) : th' = [th EXCEPT ![t] = c]
        /\ PublishBlob(th[t].blob)
        /\ UNCHANGED <<Env, tracker, memoryVars>>
     \/ Goes(t, Answered(th[t], "error"))

------------------------------------------------------------------------------
(* SelfHealingSelector.find.                                               *)

NodesOf == [s \in Screens \cup {NoScreen} |->
              IF s = NoScreen THEN <<>> ELSE Walk(Xml[s])]

Original(c) == Classify(SelectorOf[c.arg])
Derived(c) == DOMAIN Fallbacks(SelectorOf[c.arg])
Alternatives(c) == Derived(c) \ {Original(c)}

\* The selector a strategy stands for in the call.
SelectorFor(c, strategy) ==
  LET sel == SelectorOf[c.arg] IN
  IF strategy = Classify(sel) THEN sel ELSE Fallbacks(sel)[strategy]

Found(c, strategy) == FindNodes(NodesOf[c.screen], SelectorFor(c, strategy))
Hits(c, strategy) == Found(c, strategy) # <<>>

\* The tracker's key, and what it has counted there.
Entry(c, strategy) == <<c.app, c.kind, strategy>>
StatsOf(k) == IF k \in DOMAIN tracker THEN tracker[k] ELSE NoStats

\* record_success or record_failure, under the tracker's lock.
Record(c, strategy) ==
  LET k == Entry(c, strategy)
      st == StatsOf(k)
      counted == IF Hits(c, strategy) THEN [st EXCEPT !.success = @ + 1]
                                      ELSE [st EXCEPT !.failure = @ + 1]
  IN [x \in DOMAIN tracker \cup {k} |-> IF x = k THEN counted ELSE tracker[x]]

\* What follows a hit, and what follows when no strategy has one.  A find
\* that was not healed learns nothing.
AfterHit(c) == CASE c.kind = "tap" -> [c EXCEPT !.at = "tap"]
                 [] c.kind = "find" /\ Len(c.tried) = 1 -> Answered(c, "found")
                 [] OTHER -> [c EXCEPT !.at = "learn"]
AfterMiss(c) == IF c.kind = "tap" THEN [c EXCEPT !.at = "learn"]
                                  ELSE Answered(c, "unmatched")

Matched(c) == c.tried # <<>> /\ Hits(c, c.tried[Len(c.tried)])

\* The call with one more strategy tried, its outcome counted; miss is what
\* the call becomes when that has no hit.
Attempt(c, strategy) == [c EXCEPT !.tried = Append(@, strategy)]
Try(t, c, miss) ==
  /\ tracker' = Record(c, c.tried[Len(c.tried)])
  /\ th' = [th EXCEPT ![t] = IF Matched(c) THEN AfterHit(c) ELSE miss]
  /\ UNCHANGED <<Env, memoryVars, blobs>>

\* The selector as given.  Should it fail, its failure counts before the order
\* of the fallbacks is asked for, and no order matters when there are none.
TryOriginal(t) ==
  /\ th[t].at = "match"
  /\ LET c == Attempt(th[t], Original(th[t])) IN
     Try(t, c, IF Alternatives(c) = {} THEN AfterMiss(c) ELSE [c EXCEPT !.at = "score"])

\* get_fallback_order reads the scores of one strategy after another, in the
\* order of their declaration; those that give the call no fallback are left out.
NextToScore(c) ==
  LET unread == Alternatives(c) \ DOMAIN c.scores
      first == CHOOSE i \in DOMAIN StrategyOrder :
                 /\ StrategyOrder[i] \in unread
                 /\ \A j \in 1..(i - 1) : StrategyOrder[j] \notin unread
  IN StrategyOrder[first]

\* The next score is that of st; after the last one the order is fixed.
Scored(c, st) ==
  LET s == NextToScore(c)
      scores == [x \in DOMAIN c.scores \cup {s} |-> IF x = s THEN st ELSE c.scores[x]]
  IN IF DOMAIN scores = Alternatives(c)
     THEN [c EXCEPT !.at = "fallback", !.scores = <<>>, !.boost = 0,
                    !.order = FallbackOrder(Alternatives(c), scores)]
     ELSE [c EXCEPT !.at = "score", !.scores = scores, !.boost = 0]

\* get_confidence: the entry is looked up under the lock, but it is the live
\* one, and adjustment reads its two counts later, one after the other.
ReadSuccesses(t) ==
  /\ th[t].at = "score"
  /\ LET c == th[t]
         k == Entry(c, NextToScore(c))
     IN Goes(t, IF k \in DOMAIN tracker
                THEN [c EXCEPT !.at = "penalty", !.boost = tracker[k].success]
                ELSE Scored(c, NoStats))

ReadFailures(t) ==
  /\ th[t].at = "penalty"
  /\ LET c == th[t]
         k == Entry(c, NextToScore(c))
     IN Goes(t, Scored(c, [success |-> c.boost, failure |-> StatsOf(k).failure]))

\* Mutant: the order is asked for again at each attempt.
TryFallbackResorted(t) ==
  /\ th[t].at = "fallback"
  /\ LET r == th[t]
         now == [s \in Alternatives(r) |-> StatsOf(Entry(r, s))]
         c == Attempt([r EXCEPT !.order = Tail(@)],
                      FallbackOrder(Alternatives(r), now)[Len(r.tried)])
     IN Try(t, c, IF c.order = <<>> THEN AfterMiss(c) ELSE c)

TryFallback(t) ==
  /\ th[t].at = "fallback"
  /\ LET r == th[t]
         c == Attempt([r EXCEPT !.order = Tail(@)], Head(r.order))
     IN Try(t, c, IF c.order = <<>> THEN AfterMiss(c) ELSE c)

------------------------------------------------------------------------------
(* ui_tap_element and ui_find_elements, after the search.                  *)

TapElement(t) ==
  /\ th[t].at = "tap"
  /\ \/ Goes(t, IF th[t].kind = "text" THEN Answered(Acknowledged(th[t]), "tapped")
                ELSE [Acknowledged(th[t]) EXCEPT !.at = "learn"])
     \/ \E c \in Raised(th[t]) : Goes(t, Answered(c, "error"))

\* remember_skill after a healed find or a tap, remember_failure after a tap
\* that matched nothing; a save that fails makes the call an error.
Learn(t) ==
  /\ th[t].at = "learn"
  /\ LET c == th[t]
         store == IF Matched(c) THEN "skill" ELSE "failure"
         key == <<c.app, IF ~Matched(c) THEN c.arg
                         ELSE IF c.kind = "tap" THEN "tap_last" ELSE "find_last">>
         done == IF ~Matched(c) THEN "unmatched"
                 ELSE IF c.kind = "tap" THEN "tapped" ELSE "found"
     IN \/ /\ Remember(store, key)
           /\ th' = [th EXCEPT ![t] = Answered(c, done)]
        \/ /\ RememberUnsaved(store, key)
           /\ th' = [th EXCEPT ![t] = Answered(c, "unlearned")]
  /\ UNCHANGED <<Env, tracker, blobs>>

------------------------------------------------------------------------------
(* tap_text.                                                               *)

\* _find_elements_by_text: the text or the description is the label.
Bears(node, label) == node.text = label \/ node.description = label

\* Mutant: the loop swipes after its last dump too.
LastDumpOffByOne(c) == c.scrolls = MaxScroll

LastDump(c) == c.scrolls = MaxScroll - 1

\* A dump that fails or does not parse raises; one without the text is
\* followed by a swipe, but for the last.
DumpText(t) ==
  /\ th[t].at = "dumpText"
  /\ LET c == [th[t] EXCEPT !.screen = screen] IN
     \/ /\ \E i \in DOMAIN Xml[screen] : Bears(Xml[screen][i], c.arg)
        /\ Goes(t, [c EXCEPT !.at = "tap"])
     \/ /\ \A i \in DOMAIN Xml[screen] : ~Bears(Xml[screen][i], c.arg)
        /\ Goes(t, IF LastDump(c) THEN Answered(c, "unmatched")
                   ELSE [c EXCEPT !.at = "swipe"])
     \/ Goes(t, Answered(th[t], "error"))

Swipe(t) ==
  /\ th[t].at = "swipe"
  /\ \/ Goes(t, [Acknowledged(th[t]) EXCEPT !.at = "dumpText", !.scrolls = @ + 1])
     \/ \E c \in Raised(th[t]) : Goes(t, Answered(c, "error"))

------------------------------------------------------------------------------
(* launch_app: three methods, the next one when one raises.                *)

\* resolve-activity answers with a component, with none, or raises.
Resolve(t) ==
  /\ th[t].at = "resolve"
  /\ \E next \in {"start", "monkey"} : Goes(t, [th[t] EXCEPT !.at = next])

\* A method ends the call when it is acknowledged, and hands on to next else.
Method(t, place, next) ==
  /\ th[t].at = place
  /\ \/ Goes(t, Answered(Acknowledged(th[t]), "launched"))
     \/ \E c \in Raised(th[t]) : Goes(t, [c EXCEPT !.at = next])

\* Mutant: the call goes on after am start was acknowledged.
StartResolvedGoesOn(t) ==
  /\ th[t].at = "start"
  /\ \E c \in Raised(th[t]) \cup {Acknowledged(th[t])} : Goes(t, [c EXCEPT !.at = "monkey"])

StartResolved(t) == Method(t, "start", "monkey")
StartMonkey(t) == Method(t, "monkey", "guess")

\* The guessed activity is the last resort: when it fails the launch has.
StartGuess(t) ==
  /\ th[t].at = "guess"
  /\ \/ Goes(t, Answered(Acknowledged(th[t]), "launched"))
     \/ \E c \in Raised(th[t]) : Goes(t, Answered(c, "error"))

------------------------------------------------------------------------------

\* The process dies and starts again: calls, tracker and unsaved memory go.
Crash ==
  /\ crashes < MaxCrashes
  /\ crashes' = crashes + 1
  /\ th' = [t \in Threads |-> Idle] /\ tracker' = <<>>
  /\ Reload
  /\ UNCHANGED <<screen, calls, blobs>>

Next ==
  \/ ScreenChanges \/ Crash
  \/ \E t \in Threads :
       \/ \E k \in Kinds : \E a \in Arguments(k) : Begin(t, k, a)
       \/ Dump(t) \/ Detect(t) \/ Capture(t)
       \/ CheckBlob(t) \/ WriteBlob(t) \/ Publish(t)
       \/ TryOriginal(t) \/ ReadSuccesses(t) \/ ReadFailures(t) \/ TryFallback(t)
       \/ TapElement(t) \/ Learn(t)
       \/ DumpText(t) \/ Swipe(t)
       \/ Resolve(t) \/ StartResolved(t) \/ StartMonkey(t) \/ StartGuess(t)
       \/ Return(t)

Spec == Init /\ [][Next]_vars

------------------------------------------------------------------------------
(* Properties.                                                             *)

Searched(c) == c.kind \in {"find", "tap"} /\ c.tried # <<>>

\* A search tries the selector as given first, then fallbacks derived from it
\* and each at most once, and ends with the first that has a hit, although
\* other calls change the scores between its misses, while it reads them one
\* by one, and between the two counts of one; it reports no match only when
\* every derived fallback was tried in vain.
\* (SelfHealingSelector.find, get_fallback_order)
HealingIsHonest ==
  \A t \in Threads :
    LET c == th[t] IN
    Searched(c) =>
      /\ c.tried[1] = Original(c) /\ IsInjective(c.tried)
      /\ \A i \in 2..Len(c.tried) : c.tried[i] \in Derived(c)
      /\ \A i \in 1..(Len(c.tried) - 1) : ~Hits(c, c.tried[i])
      /\ c.at = "tap" \/ c.answer \in {"found", "tapped"} => Matched(c)
      /\ c.answer = "unmatched" =>
           \A s \in {Original(c)} \cup Derived(c) : ~Hits(c, s) /\ Contains(c.tried, s)

Said(c) ==
  IF \/ c.answer \in {"tapped", "launched"}
     \/ c.answer = "unlearned" /\ c.kind = "tap" /\ Matched(c)
  THEN 1 ELSE 0

\* All a call did to the device is the one tap or launch it tells of, the
\* swipes tap_text made in search of its text, and commands that took effect
\* and timed out; a call that failed to save what it learned has tapped all
\* the same.  Such late effects end a tap, a tap_text and a swipe with an
\* error, after one; a launch goes on to its next method, so one that says it
\* launched may have started the app up to three times, and one that says it
\* could not, too.  (launch_app's fallback chain, tap_text's loop,
\* ui_tap_element)
AnswersMatchDevice ==
  \A t \in Threads :
    LET c == th[t] IN
    c.at = "answered" =>
      /\ c.acted = Said(c) + c.scrolls + c.late
      /\ c.late <= IF c.kind = "launch" THEN 3 - Said(c)
                   ELSE IF c.answer = "error" THEN 1 ELSE 0

\* A stored reference resolves to the whole content for every caller that got
\* it, also when two calls store the same content at once or the process died
\* while it was being written.  (LocalBlobStore.put and get)
RefsReadable ==
  \A t \in Threads :
    LET c == th[t] IN
    /\ c.blob # NoBlob
    /\ \/ c.at \in {"match", "score", "penalty", "fallback", "learn"}
       \/ c.answer \in {"found", "captured"}
    => blobs[c.blob] = "whole"
==============================================================================
