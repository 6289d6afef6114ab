---------------------------- MODULE UiToolsProofs ----------------------------
(***************************************************************************)
(* Theorems about the tools that act on the screen, for any threads,       *)
(* screens, selectors, histories of the tracker and bounds of the run, and *)
(* about what they share: the confidence tracker, the memory store and the *)
(* blob store.                                                             *)
(*                                                                         *)
(* The inductive invariant says of each place a call may be at which kind  *)
(* of call is there (Fits), what its commands have done to the device and  *)
(* how much of it unacknowledged (Balance), how far its search is, the     *)
(* reading of the scores included (Healing), and that what it has stored   *)
(* is whole (Holds).                                                       *)
(***************************************************************************)
EXTENDS UiTools, FiniteSetTheorems, TLAPS

------------------------------------------------------------------------------
(* The confidence tracker: what no history can do to the scores.            *)

LEMMA AdjustmentBounds ==
  ASSUME NEW st \in Stats
  PROVE  Adjustment(st) \in (-15)..5
  BY DEF Stats, Adjustment, Boost, Penalty, Least

\* However long the history, a score stays a confidence and within the
\* penalty and the boost of its base score.  (StrategyStats.adjustment,
\* get_confidence)
THEOREM ConfidenceBand ==
  ASSUME NEW s \in Strategies, NEW st \in Stats
  PROVE  /\ ConfidenceOf(s, st) \in 0..100
         /\ BaseScore[s] - 15 <= ConfidenceOf(s, st)
         /\ ConfidenceOf(s, st) <= BaseScore[s] + 5
<1>1. BaseScore[s] \in 20..100
  BY DEF BaseScore, Strategies
<1>2. Adjustment(st) \in (-15)..5
  BY AdjustmentBounds
<1>3. QED
  BY <1>1, <1>2 DEF ConfidenceOf, Clamp, Least

\* The rounding of a score is less than a hundredth.
LEMMA SortKeyBounds ==
  ASSUME NEW s \in Strategies, NEW st \in Stats
  PROVE  /\ SortKey(s, st) \in Int
         /\ 3 * ConfidenceOf(s, st) - 1 <= SortKey(s, st)
         /\ SortKey(s, st) <= 3 * ConfidenceOf(s, st) + 1
<1>1. ConfidenceOf(s, st) \in 0..100
  BY ConfidenceBand
<1> QED
  BY <1>1 DEF SortKey

\* Whatever the two histories, a class name is trusted less than a contained
\* text, rounding included: the class-name fallback, which asks for the same
\* contained text and a class, comes after it and cannot find what it missed.
\* (get_fallback_order, _generate_fallbacks)
THEOREM ClassNameBelowContains ==
  ASSUME NEW st \in Stats, NEW u \in Stats
  PROVE  SortKey("CLASS_NAME", st) < SortKey("TEXT_CONTAINS", u)
<1>1. /\ ConfidenceOf("CLASS_NAME", st) <= BaseScore["CLASS_NAME"] + 5
      /\ BaseScore["TEXT_CONTAINS"] - 15 <= ConfidenceOf("TEXT_CONTAINS", u)
      /\ ConfidenceOf("CLASS_NAME", st) \in 0..100
      /\ ConfidenceOf("TEXT_CONTAINS", u) \in 0..100
  BY ConfidenceBand DEF Strategies
<1>2. BaseScore["CLASS_NAME"] = 50 /\ BaseScore["TEXT_CONTAINS"] = 80
  BY DEF BaseScore
<1>3. /\ SortKey("CLASS_NAME", st) <= 3 * ConfidenceOf("CLASS_NAME", st) + 1
      /\ 3 * ConfidenceOf("TEXT_CONTAINS", u) - 1 <= SortKey("TEXT_CONTAINS", u)
      /\ SortKey("CLASS_NAME", st) \in Int /\ SortKey("TEXT_CONTAINS", u) \in Int
  BY SortKeyBounds DEF Strategies
<1>4. QED
  BY <1>1, <1>2, <1>3

------------------------------------------------------------------------------
(* The order of the fallbacks.                                              *)

\* One strategy is asked of a selector, the first that applies.
LEMMA ClassifyType ==
  ASSUME NEW sel
  PROVE  Classify(sel) \in Strategies
<1> DEFINE isSet == [TEXT_EXACT |-> sel.text # None, RESOURCE_ID |-> sel.resource_id # NoId,
                     DESCRIPTION |-> sel.description # None,
                     TEXT_CONTAINS |-> sel.text_contains # None,
                     CLASS_NAME |-> sel.class_name # "any", BOUNDS_ONLY |-> TRUE]
           asked == <<"TEXT_EXACT", "RESOURCE_ID", "DESCRIPTION", "TEXT_CONTAINS",
                      "CLASS_NAME", "BOUNDS_ONLY">>
           First(i) == isSet[asked[i]] /\ \A j \in 1..(i - 1) : ~isSet[asked[j]]
<1>1. Classify(sel) = asked[CHOOSE i \in 1..6 : First(i)]
  BY DEF Classify
<1>2. \E i \in 1..6 : First(i)
  <2>1. isSet[asked[6]]
    OBVIOUS
  <2> DEFINE p(i) == isSet[asked[i]]
  <2> HIDE DEF isSet, asked
  <2> QED
    BY <2>1
<1>3. \A i \in 1..6 : asked[i] \in Strategies
  BY DEF Strategies
<1> HIDE DEF First, asked
<1> QED
  BY <1>1, <1>2, <1>3

LEMMA DerivedType ==
  ASSUME NEW sel
  PROVE  DOMAIN Fallbacks(sel) \subseteq Strategies
<1> DEFINE value == IF Given(sel.text) THEN sel.text ELSE sel.description
           id == sel.resource_id
           meaningful == id.words \cup (IF id.package = "" THEN {} ELSE {id.package})
           base == [AnyNode EXCEPT !.match = sel.match]
           contains == IF Given(value) /\ sel.text_contains = None THEN value
                       ELSE IF Given(id.words) THEN meaningful ELSE None
           byDescription == [base EXCEPT !.description = value]
           byContained == [base EXCEPT !.text_contains = contains]
           byClass == [base EXCEPT !.text_contains = value,
                         !.class_name = IF sel.class_name \notin {"any", ""}
                                        THEN sel.class_name ELSE "Button"]
           byText == [base EXCEPT !.text = sel.text_contains]
           derived ==
             {x \in {<<"DESCRIPTION", byDescription>>} : Given(value) /\ sel.description = None}
             \cup {x \in {<<"TEXT_CONTAINS", byContained>>} : contains # None}
             \cup {x \in {<<"CLASS_NAME", byClass>>} : Given(value)}
             \cup {x \in {<<"TEXT_EXACT", byText>>} :
                     Given(sel.text_contains) /\ sel.text = None}
<1>1. Fallbacks(sel) = [s \in {x[1] : x \in derived} |-> (CHOOSE x \in derived : x[1] = s)[2]]
  BY DEF Fallbacks
<1> HIDE DEF byDescription, byContained, byClass, byText, value, contains
<1>2. \A x \in derived : x \in {<<"DESCRIPTION", byDescription>>, <<"TEXT_CONTAINS", byContained>>,
                               <<"CLASS_NAME", byClass>>, <<"TEXT_EXACT", byText>>}
  OBVIOUS
<1>3. \A x \in derived : x[1] \in Strategies
  BY <1>2 DEF Strategies
<1> HIDE DEF derived
<1> QED
  BY <1>1, <1>3

\* The order is strict and total.
LEMMA BeforeOrder ==
  ASSUME NEW S \in SUBSET Strategies, NEW stats \in [S -> Stats]
  PROVE  /\ \A s \in S : ~Before(s, s, stats)
         /\ \A s, u \in S : s # u => Before(s, u, stats) \/ Before(u, s, stats)
         /\ \A s, u, v \in S :
              Before(s, u, stats) /\ Before(u, v, stats) => Before(s, v, stats)
<1> DEFINE Rank(x) == CHOOSE i \in DOMAIN StrategyOrder : StrategyOrder[i] = x
           Score(x) == SortKey(x, stats[x])
<1>1. \A s \in S : Score(s) \in Int
  BY SortKeyBounds
<1>2. \A s \in Strategies : Rank(s) \in 1..8 /\ StrategyOrder[Rank(s)] = s
  <2>1. DOMAIN StrategyOrder = 1..8
    BY DEF StrategyOrder
  <2>2. \A s \in Strategies : \E i \in 1..8 : StrategyOrder[i] = s
    <3>1. /\ StrategyOrder[1] = "TEXT_EXACT" /\ StrategyOrder[2] = "RESOURCE_ID"
          /\ StrategyOrder[3] = "DESCRIPTION" /\ StrategyOrder[4] = "TEXT_CONTAINS"
          /\ StrategyOrder[5] = "RESOURCE_ID_SUFFIX" /\ StrategyOrder[6] = "CLASS_NAME"
          /\ StrategyOrder[7] = "BOUNDS_ONLY" /\ StrategyOrder[8] = "VISION"
      BY DEF StrategyOrder
    <3> QED
      BY <3>1 DEF Strategies
  <2> QED
    BY <2>1, <2>2
<1>3. \A s, u \in S : Before(s, u, stats) <=>
        Score(s) > Score(u) \/ (Score(s) = Score(u) /\ Rank(s) < Rank(u))
  BY DEF Before
<1> HIDE DEF Rank, Score
<1>4. \A s, u \in Strategies : Rank(s) = Rank(u) => s = u
  BY <1>2
<1> QED
  BY <1>1, <1>2, <1>3, <1>4

\* Whatever has been counted, the order has every strategy asked for, once.
\* (get_fallback_order)
LEMMA FallbackOrderComplete ==
  ASSUME NEW S \in SUBSET Strategies, NEW stats \in [S -> Stats]
  PROVE  /\ FallbackOrder(S, stats) \in Seq(S)
         /\ IsInjective(FallbackOrder(S, stats))
         /\ \A s \in S : \E i \in DOMAIN FallbackOrder(S, stats) :
              FallbackOrder(S, stats)[i] = s
<1> DEFINE n == Cardinality(S)
           Ahead(s) == {u \in S : Before(u, s, stats)}
           place == [s \in S |-> Cardinality(Ahead(s)) + 1]
<1>1. IsFiniteSet(S) /\ n \in Nat
  <2>1. IsFiniteSet(Strategies)
    <3>1. Strategies = {"TEXT_EXACT"} \cup {"RESOURCE_ID"} \cup {"DESCRIPTION"}
             \cup {"TEXT_CONTAINS"} \cup {"RESOURCE_ID_SUFFIX"} \cup {"CLASS_NAME"}
             \cup {"BOUNDS_ONLY"} \cup {"VISION"}
      BY DEF Strategies
    <3> QED
      BY <3>1, FS_Singleton, FS_Union
  <2> QED
    BY <2>1, FS_Subset, FS_CardinalityType
<1>2. ASSUME NEW s \in S
      PROVE  IsFiniteSet(Ahead(s)) /\ Cardinality(Ahead(s)) \in 0..(n - 1)
  <2>1. Ahead(s) \subseteq S \ {s}
    BY BeforeOrder
  <2>2. IsFiniteSet(S \ {s}) /\ Cardinality(S \ {s}) = n - 1
    BY <1>1, FS_RemoveElement
  <2>3. IsFiniteSet(Ahead(s)) /\ Cardinality(Ahead(s)) <= Cardinality(S \ {s})
    BY <2>1, <2>2, FS_Subset
  <2>4. Cardinality(Ahead(s)) \in Nat
    BY <2>3, FS_CardinalityType
  <2> QED
    BY <1>1, <2>2, <2>3, <2>4
<1>3. ASSUME NEW s \in S, NEW u \in S, Before(s, u, stats)
      PROVE  Cardinality(Ahead(s)) # Cardinality(Ahead(u))
  <2>1. Ahead(s) \subseteq Ahead(u) /\ s \in Ahead(u) /\ s \notin Ahead(s)
    BY <1>3, BeforeOrder
  <2> QED
    BY <1>2, <2>1, FS_Subset
<1>4. \A s, u \in S : s # u => place[s] # place[u]
  <2> SUFFICES ASSUME NEW s \in S, NEW u \in S, s # u PROVE place[s] # place[u]
    OBVIOUS
  <2>1. Before(s, u, stats) \/ Before(u, s, stats)
    BY BeforeOrder
  <2>2. Cardinality(Ahead(s)) # Cardinality(Ahead(u))
    BY <1>3, <2>1
  <2>3. Cardinality(Ahead(s)) \in Nat /\ Cardinality(Ahead(u)) \in Nat
    BY <1>2
  <2> HIDE DEF Ahead
  <2> QED
    BY <2>2, <2>3
<1>5. place \in Surjection(S, 1..n)
  <2>1. place \in [S -> 1..n]
    <3>1. \A s \in S : Cardinality(Ahead(s)) \in 0..(n - 1)
      BY <1>2
    <3> HIDE DEF Ahead, n
    <3> QED
      BY <1>1, <3>1
  <2> HIDE DEF place
  <2>2. place \in Injection(S, 1..n)
    BY <1>4, <2>1 DEF Injection, IsInjective
  <2>3. IsFiniteSet(1..n) /\ Cardinality(1..n) = n
    BY <1>1, FS_Interval
  <2> QED
    BY <2>2, <2>3, FS_Injection
<1>6. \A i \in 1..n : \E s \in S : Cardinality(Ahead(s)) = i - 1
  <2> SUFFICES ASSUME NEW i \in 1..n PROVE \E s \in S : Cardinality(Ahead(s)) = i - 1
    OBVIOUS
  <2>1. PICK s \in S : place[s] = i
    BY <1>5 DEF Surjection
  <2>2. Cardinality(Ahead(s)) \in Nat
    <3>1. \A x \in S : Cardinality(Ahead(x)) \in 0..(n - 1)
      BY <1>2
    <3> HIDE DEF Ahead, n
    <3> QED
      BY <1>1, <3>1
  <2>3. Cardinality(Ahead(s)) = i - 1
    <3> HIDE DEF Ahead
    <3> QED
      BY <1>1, <2>1, <2>2
  <2> QED
    BY <2>3
<1> DEFINE order == FallbackOrder(S, stats)
<1>7. order = [i \in 1..n |-> CHOOSE s \in S : Cardinality(Ahead(s)) = i - 1]
  BY DEF FallbackOrder
<1> HIDE DEF Ahead, n, order
<1>8. \A i \in 1..n : order[i] \in S /\ Cardinality(Ahead(order[i])) = i - 1
  BY <1>6, <1>7
<1>9. order \in Seq(S) /\ DOMAIN order = 1..n
  BY <1>1, <1>7, <1>8
<1>10. \A i, j \in 1..n : order[i] = order[j] => i = j
  BY <1>8
<1>11. ASSUME NEW s \in S PROVE \E i \in 1..n : order[i] = s
  <2> DEFINE i == place[s]
  <2>1. i \in 1..n /\ Cardinality(Ahead(s)) = i - 1
    BY <1>1, <1>2
  <2>2. order[i] \in S /\ Cardinality(Ahead(order[i])) = i - 1
    BY <1>8, <2>1
  <2>3. place[order[i]] = place[s]
    BY <2>1, <2>2
  <2> QED
    BY <1>4, <2>1, <2>2, <2>3
<1> QED
  BY <1>9, <1>10, <1>11 DEF order, IsInjective

------------------------------------------------------------------------------
(* The memory store, for any order of failed saves and restarts.            *)

MemoryTypeOK ==
  /\ memory \in Entries /\ files \in Entries /\ kept \in Entries
  /\ unreadable \subseteq Stores /\ overwritten \subseteq Stores

\* A store that was not saved unread is kept whole; a failed save leaves its
\* file behind what the process holds.
MemoryInv == MemoryTypeOK /\ MemoryKept

LEMMA MemoryInitInv == MemoryInit => MemoryInv
  BY DEF MemoryInit, MemoryInv, MemoryTypeOK, MemoryKept, Entries, NoEntries

LEMMA MemoryStepInv == MemoryInv /\ [MemoryNext]_memoryVars => MemoryInv'
<1> SUFFICES ASSUME MemoryInv, [MemoryNext]_memoryVars PROVE MemoryInv'
  OBVIOUS
<1> USE DEF MemoryInv, MemoryTypeOK, MemoryKept, Entries
<1>1. ASSUME NEW s \in Stores, NEW k \in Keys, Remember(s, k) PROVE MemoryInv'
  BY <1>1 DEF Remember, Observe
<1>2. ASSUME NEW s \in Stores, NEW k \in Keys, RememberUnsaved(s, k) PROVE MemoryInv'
  BY <1>2 DEF RememberUnsaved, Observe
<1>3. CASE Reload
  BY <1>3 DEF Reload, NoEntries
<1>4. CASE UNCHANGED memoryVars
  BY <1>4 DEF memoryVars
<1>5. QED
  BY <1>1, <1>2, <1>3, <1>4 DEF MemoryNext

\* Nothing a caller was told was remembered is lost, however many saves fail
\* and however often the process restarts, until a process that could not read
\* the store's file saves over it.  (MemoryStore._save, _load)
THEOREM MemoryIsKept == MemorySpec => []MemoryKept
<1>1. MemorySpec => []MemoryInv
  BY MemoryInitInv, MemoryStepInv, PTL DEF MemorySpec
<1>2. MemoryInv => MemoryKept
  BY DEF MemoryInv
<1>3. QED
  BY <1>1, <1>2, PTL

------------------------------------------------------------------------------
(* The inductive invariant.                                                 *)

USE ToolsAssumption

Arg == DOMAIN SelectorOf \cup Texts \cup {""}
CallKinds == {"none", "find", "tap", "text", "launch", "shot"}

\* The scores of some strategies.
Scores == UNION {[S -> Stats] : S \in SUBSET Strategies}

CallRecords ==
  [at : Places, kind : CallKinds, arg : Arg, screen : Screens \cup {NoScreen},
   app : Apps, blob : Contents \cup {NoBlob}, scores : Scores, boost : Nat,
   order : Seq(Strategies), tried : Seq(Strategies),
   scrolls : 0..(MaxScroll - 1), acted : Nat, late : Nat, answer : Answers]

Types ==
  /\ screen \in Screens
  /\ blobs \in [Contents -> {"absent", "whole"}]
  /\ Counted(tracker)
  /\ th \in [Threads -> CallRecords]

IsSearch(c) == c.kind \in {"find", "tap"}

\* Which calls can be where.
Fits(c) ==
  /\ c.at = "idle" => c = Idle
  /\ (c.at = "answered") = (c.answer # "none")
  /\ IsSearch(c) => c.arg \in DOMAIN SelectorOf
  /\ c.at \in {"dump", "detect", "match", "score", "penalty", "fallback", "learn"} => IsSearch(c)
  /\ c.at \in {"exists", "write", "publish"} => IsSearch(c) \/ c.kind = "shot"
  /\ c.at \in {"exists", "write", "publish"} => c.blob \in Contents
  /\ c.at = "capture" => c.kind = "shot"
  /\ c.at \in {"dumpText", "swipe"} => c.kind = "text"
  /\ c.at = "swipe" => c.scrolls < MaxScroll - 1
  /\ c.at = "tap" => c.kind \in {"tap", "text"}
  /\ c.at \in {"resolve", "start", "monkey", "guess"} => c.kind = "launch"

\* The acknowledged taps and launches of the call, and the most of its effects
\* that may have been late.
Told(c) == IF c.at = "learn" /\ c.kind = "tap" /\ Matched(c) THEN 1 ELSE Said(c)
LateMax(c) ==
  IF c.at = "answered" THEN IF c.kind = "launch" THEN 3 - Said(c)
                            ELSE IF c.answer = "error" THEN 1 ELSE 0
  ELSE IF c.at = "guess" THEN 2
  ELSE IF c.at = "monkey" THEN 1 ELSE 0

\* What the call has done to the device.
Balance(c) == c.acted = c.late + c.scrolls + Told(c) /\ c.late <= LateMax(c)

\* The search went on from the original through derived fallbacks, each once.
TriedInOrder(c) ==
  /\ c.tried # <<>> /\ c.tried[1] = Original(c) /\ IsInjective(c.tried)
  /\ \A i \in 2..Len(c.tried) : c.tried[i] \in Derived(c)
  /\ \A i \in 1..(Len(c.tried) - 1) : ~Hits(c, c.tried[i])

AllTried(c) ==
  \A s \in {Original(c)} \cup Derived(c) : ~Hits(c, s) /\ Contains(c.tried, s)

\* The original has missed, and there are scores still to be read.
Scoring(c) ==
  /\ TriedInOrder(c) /\ Len(c.tried) = 1 /\ ~Matched(c)
  /\ DOMAIN c.scores \subseteq Alternatives(c) /\ DOMAIN c.scores # Alternatives(c)

\* What is left to try is what has not been tried.
Left(c) ==
  /\ c.order # <<>> /\ IsInjective(c.order)
  /\ \A i \in DOMAIN c.order : c.order[i] \in Derived(c) /\ ~Contains(c.tried, c.order[i])
  /\ \A s \in {Original(c)} \cup Derived(c) :
       (Contains(c.tried, s) /\ ~Hits(c, s)) \/ Contains(c.order, s)

Healing(c) ==
  IsSearch(c) =>
    /\ c.at \in {"dump", "detect", "exists", "write", "publish", "match"} =>
         c.tried = <<>> /\ c.scores = <<>>
    /\ c.tried # <<>> => TriedInOrder(c)
    /\ c.at \in {"tap", "fallback", "learn"} => c.tried # <<>>
    /\ c.at \in {"score", "penalty"} => Scoring(c)
    /\ c.at = "fallback" => Left(c) /\ ~Matched(c)
    /\ c.at = "tap" => Matched(c)
    /\ c.at = "learn" => Matched(c) \/ (c.kind = "tap" /\ AllTried(c))
    /\ c.answer \in {"found", "tapped"} => Matched(c)
    /\ c.answer = "unmatched" => AllTried(c)

\* The call relies on its blob.
Holds(c) ==
  /\ c.blob # NoBlob
  /\ \/ c.at \in {"match", "score", "penalty", "fallback", "learn"}
     \/ c.at = "tap" /\ c.kind = "tap"
     \/ c.answer \in {"found", "captured"}

CallInv(c) == Fits(c) /\ Balance(c) /\ Healing(c)

IInv ==
  /\ Types
  /\ \A t \in Threads : /\ CallInv(th[t])
                        /\ Holds(th[t]) => blobs[th[t].blob] = "whole"

LEMMA CallFields ==
  ASSUME NEW c \in CallRecords
  PROVE  /\ c.at \in Places /\ c.kind \in CallKinds /\ c.arg \in Arg
         /\ c.screen \in Screens \cup {NoScreen} /\ c.app \in Apps
         /\ c.blob \in Contents \cup {NoBlob} /\ c.scores \in Scores /\ c.boost \in Nat
         /\ c.order \in Seq(Strategies) /\ c.tried \in Seq(Strategies)
         /\ c.scrolls \in 0..(MaxScroll - 1) /\ c.acted \in Nat /\ c.late \in Nat
         /\ c.answer \in Answers /\ (Holds(c) => c.blob \in Contents)
  BY DEF CallRecords, Holds

LEMMA IdleCall == Idle \in CallRecords /\ CallInv(Idle) /\ ~Holds(Idle)
<1>1. Idle \in CallRecords
  <2>1. 0 \in 0..(MaxScroll - 1) /\ <<>> \in Seq(Strategies)
    OBVIOUS
  <2>2. <<>> \in [{} -> Stats] /\ {} \in SUBSET Strategies
    OBVIOUS
  <2>3. <<>> \in Scores
    BY <2>2 DEF Scores
  <2> QED
    BY <2>1, <2>3 DEF Idle, CallRecords, Places, CallKinds, Arg, Apps, Answers
<1>2. ~Holds(Idle)
  BY DEF Idle, Holds
<1>3. Fits(Idle) /\ Healing(Idle)
  BY DEF Idle, Fits, Healing, IsSearch
<1>4. Balance(Idle)
  BY DEF Idle, Balance, Told, Said, LateMax
<1> QED
  BY <1>1, <1>2, <1>3, <1>4 DEF CallInv

\* What a search makes of its strategies depends on its argument and its dump.
LEMMA SameSearch ==
  ASSUME NEW c, NEW r, c.arg = r.arg, c.screen = r.screen, c.tried = r.tried
  PROVE  /\ Original(c) = Original(r) /\ Derived(c) = Derived(r)
         /\ Alternatives(c) = Alternatives(r)
         /\ \A s : Hits(c, s) <=> Hits(r, s)
         /\ Matched(c) <=> Matched(r)
         /\ TriedInOrder(c) <=> TriedInOrder(r)
         /\ AllTried(c) <=> AllTried(r)
<1>1. Original(c) = Original(r) /\ Derived(c) = Derived(r)
  BY DEF Original, Derived
<1>2. \A s : Hits(c, s) <=> Hits(r, s)
  BY DEF Hits, Found, SelectorFor
<1> QED
  BY <1>1, <1>2 DEF Matched, TriedInOrder, AllTried, Alternatives

\* A step of one thread.
LEMMA OneCall ==
  ASSUME IInv, NEW t \in Threads, NEW c \in CallRecords, CallInv(c),
         th' = [th EXCEPT ![t] = c], screen' = screen, Counted(tracker'),
         blobs' \in [Contents -> {"absent", "whole"}],
         \A x \in Contents : blobs[x] = "whole" => blobs'[x] = "whole",
         Holds(c) => blobs'[c.blob] = "whole"
  PROVE  IInv'
<1>1. Types'
  BY DEF IInv, Types, Counted
<1>2. ASSUME NEW u \in Threads
      PROVE  CallInv(th'[u]) /\ (Holds(th'[u]) => blobs'[th'[u].blob] = "whole")
  <2>1. CASE u = t
    BY <2>1 DEF IInv, Types
  <2>2. CASE u # t
    <3>1. th'[u] = th[u] /\ CallInv(th[u]) /\ (Holds(th[u]) => blobs[th[u].blob] = "whole")
      BY <2>2 DEF IInv, Types
    <3>2. Holds(th[u]) => th[u].blob \in Contents
      BY CallFields DEF IInv, Types
    <3> QED
      BY <3>1, <3>2
  <2> QED
    BY <2>1, <2>2
<1> QED
  BY <1>1, <1>2 DEF IInv

LEMMA GoesInv ==
  ASSUME IInv, NEW t \in Threads, NEW c \in CallRecords, CallInv(c), Goes(t, c),
         Holds(c) => blobs[c.blob] = "whole"
  PROVE  IInv'
<1>1. /\ th' = [th EXCEPT ![t] = c] /\ screen' = screen /\ tracker' = tracker
      /\ blobs' = blobs
  BY DEF Goes, Env, Shared
<1>2. Counted(tracker') /\ blobs' \in [Contents -> {"absent", "whole"}]
  BY <1>1 DEF IInv, Types
<1> QED
  BY <1>1, <1>2, OneCall

\* The call of a thread.
LEMMA ThisCall ==
  ASSUME IInv, NEW t \in Threads
  PROVE  /\ th[t] \in CallRecords /\ CallInv(th[t])
         /\ Holds(th[t]) => blobs[th[t].blob] = "whole" /\ th[t].blob \in Contents
  BY CallFields DEF IInv, Types

\* Before a call is answered or learns, all it did to the device was to swipe,
\* or was late; and a search before its match has tried nothing.
LEMMA Untried ==
  ASSUME NEW r \in CallRecords, CallInv(r), r.at \notin {"learn", "answered"}
  PROVE  /\ r.answer = "none" /\ r.acted = r.late + r.scrolls /\ r.late <= LateMax(r)
         /\ r.at \notin {"guess", "monkey"} => r.late = 0 /\ r.acted = r.scrolls
         /\ r.acted \in Nat /\ r.late \in Nat /\ r.scrolls \in Nat
         /\ IsSearch(r) /\ r.at \in {"dump", "detect", "exists", "write", "publish", "match"} =>
              r.tried = <<>> /\ r.scores = <<>>
<1>1. r.answer = "none" /\ r.acted \in Nat /\ r.late \in Nat /\ r.scrolls \in Nat
  BY CallFields DEF CallInv, Fits
<1>2. Told(r) = 0
  BY <1>1 DEF Told, Said
<1>3. r.acted = r.late + r.scrolls /\ r.late <= LateMax(r)
  BY <1>1, <1>2 DEF CallInv, Balance
<1>4. r.at \notin {"guess", "monkey"} => r.late = 0 /\ r.acted = r.scrolls
  BY <1>1, <1>3 DEF LateMax
<1> QED
  BY <1>1, <1>3, <1>4 DEF CallInv, Healing

\* A command that raises changes the counts of effects, or nothing.
LEMMA RaisedCall ==
  ASSUME NEW r \in CallRecords, NEW c \in Raised(r)
  PROVE  /\ c \in CallRecords /\ c.at = r.at /\ c.kind = r.kind /\ c.arg = r.arg
         /\ c.screen = r.screen /\ c.blob = r.blob /\ c.scores = r.scores
         /\ c.order = r.order /\ c.tried = r.tried /\ c.answer = r.answer
         /\ c.scrolls = r.scrolls
         /\ \E d \in {0, 1} : c.acted = r.acted + d /\ c.late = r.late + d
<1>1. r.acted \in Nat /\ r.late \in Nat
  BY CallFields
<1>2. CASE c = r
  <2>1. c.acted = r.acted + 0 /\ c.late = r.late + 0
    BY <1>1, <1>2
  <2> QED
    BY <1>2, <2>1
<1>3. CASE c = [r EXCEPT !.acted = @ + 1, !.late = @ + 1]
  <2>1. c = [r EXCEPT !.acted = r.acted + 1, !.late = r.late + 1]
    BY <1>3
  <2>2. r.acted + 1 \in Nat /\ r.late + 1 \in Nat
    BY <1>1
  <2> QED
    BY <2>1, <2>2 DEF CallRecords
<1> QED
  BY <1>2, <1>3 DEF Raised

\* A call that ends in an error, after a command that raised.
LEMMA ErrorCall ==
  ASSUME NEW r \in CallRecords, CallInv(r), r.at \notin {"idle", "learn", "answered"},
         NEW q \in Raised(r)
  PROVE  /\ Answered(q, "error") \in CallRecords /\ CallInv(Answered(q, "error"))
         /\ ~Holds(Answered(q, "error"))
<1> DEFINE c == Answered(q, "error")
<1>1. /\ q \in CallRecords /\ q.kind = r.kind /\ q.arg = r.arg /\ q.scrolls = r.scrolls
      /\ q.screen = r.screen /\ q.tried = r.tried
  BY RaisedCall
<1>2. PICK d \in {0, 1} : q.acted = r.acted + d /\ q.late = r.late + d
  BY RaisedCall
<1>3. /\ c \in CallRecords /\ c.at = "answered" /\ c.answer = "error" /\ c.kind = r.kind
      /\ c.arg = r.arg /\ c.screen = r.screen /\ c.tried = r.tried
      /\ c.acted = r.acted + d /\ c.late = r.late + d /\ c.scrolls = r.scrolls
  BY <1>1, <1>2 DEF Answered, CallRecords, Places, Answers
<1>4. /\ r.acted = r.late + r.scrolls /\ r.late <= LateMax(r)
      /\ r.acted \in Nat /\ r.late \in Nat /\ r.scrolls \in Nat
  BY Untried
<1> HIDE DEF c
<1>5. Balance(c)
  <2>1. r.at \in {"guess", "monkey"} => r.kind = "launch"
    BY DEF CallInv, Fits
  <2>2. Said(c) = 0 /\ Told(c) = 0
    BY <1>3 DEF Said, Told
  <2>3. LateMax(r) + 1 <= LateMax(c)
    BY <1>3, <2>1, <2>2 DEF LateMax
  <2> QED
    BY <1>3, <1>4, <2>2, <2>3 DEF Balance, LateMax
<1>6. Fits(c)
  BY <1>3 DEF CallInv, Fits, IsSearch
<1>7. Healing(c)
  BY <1>3, SameSearch DEF CallInv, Healing, IsSearch
<1>8. ~Holds(c)
  BY <1>3 DEF Holds
<1> QED
  BY <1>3, <1>5, <1>6, <1>7, <1>8 DEF CallInv, c

LEMMA ErrorInv ==
  ASSUME IInv, NEW t \in Threads, th[t].at \notin {"idle", "learn", "answered"},
         NEW c \in Raised(th[t]), Goes(t, Answered(c, "error"))
  PROVE  IInv'
  BY ThisCall, ErrorCall, GoesInv

\* A call that is not a search, or has not searched yet, goes on.
LEMMA PlainCall ==
  ASSUME NEW c \in CallRecords, Fits(c), c.tried = <<>>, c.scores = <<>>,
         c.acted = c.scrolls, c.late = 0, c.answer = "none",
         c.at \notin {"tap", "learn", "score", "penalty", "fallback"} \/ ~IsSearch(c)
  PROVE  CallInv(c)
<1>1. Balance(c)
  <2>1. c.acted \in Nat /\ c.scrolls \in Nat
    BY CallFields
  <2>2. ~(c.at = "learn" /\ c.kind = "tap")
    BY DEF IsSearch
  <2>3. c.at # "answered"
    BY DEF Fits
  <2> QED
    BY <2>1, <2>2, <2>3 DEF Balance, Told, Said, LateMax
<1>2. Healing(c)
  BY DEF Healing, IsSearch
<1> QED
  BY <1>1, <1>2 DEF CallInv

------------------------------------------------------------------------------
(* Starting a call, and storing what it has dumped.                         *)

LEMMA BeginInv ==
  ASSUME IInv, NEW t \in Threads, NEW k \in Kinds, NEW a \in Arguments(k), Begin(t, k, a)
  PROVE  IInv'
<1> DEFINE c == [Idle EXCEPT !.at = FirstPlace[k], !.kind = k, !.arg = a]
<1>1. /\ k \in {"find", "tap", "text", "launch", "shot"}
      /\ FirstPlace[k] \in {"dump", "dumpText", "resolve", "capture"}
      /\ FirstPlace[k] = "dump" => k \in {"find", "tap"}
      /\ FirstPlace[k] = "dumpText" => k = "text"
      /\ FirstPlace[k] = "resolve" => k = "launch"
      /\ FirstPlace[k] = "capture" => k = "shot"
      /\ k \in {"find", "tap"} => a \in DOMAIN SelectorOf
      /\ a \in Arg
  <2>1. k \in {"find", "tap", "text", "launch", "shot"}
    OBVIOUS
  <2>2. CASE k \in {"find", "tap"}
    <3>1. Arguments(k) = DOMAIN SelectorOf
      BY <2>2 DEF Arguments
    <3>2. FirstPlace[k] = "dump"
      BY <2>2 DEF FirstPlace
    <3> QED
      BY <2>2, <3>1, <3>2 DEF Arg
  <2>3. CASE k = "text"
    BY <2>3 DEF FirstPlace, Arguments, Arg
  <2>4. CASE k \in {"launch", "shot"}
    <3>1. Arguments(k) = {""}
      BY <2>4 DEF Arguments
    <3>2. FirstPlace[k] = IF k = "launch" THEN "resolve" ELSE "capture"
      BY <2>4 DEF FirstPlace
    <3> QED
      BY <2>4, <3>1, <3>2 DEF Arg
  <2> QED
    BY <2>1, <2>2, <2>3, <2>4
<1>2. /\ c.at = FirstPlace[k] /\ c.kind = k /\ c.arg = a /\ c.tried = <<>> /\ c.scores = <<>>
      /\ c.acted = 0 /\ c.late = 0 /\ c.scrolls = 0 /\ c.answer = "none"
  BY DEF Idle
<1>3. c \in CallRecords
  BY <1>1, IdleCall DEF CallRecords, Places, CallKinds
<1>4. th' = [th EXCEPT ![t] = c] /\ UNCHANGED <<screen, tracker, blobs>>
  BY DEF Begin, Shared
<1> HIDE DEF c
<1>5. Fits(c) /\ ~Holds(c)
  BY <1>1, <1>2 DEF Fits, Holds, IsSearch
<1>6. CallInv(c)
  BY <1>1, <1>2, <1>3, <1>5, PlainCall
<1>7. Counted(tracker') /\ blobs' \in [Contents -> {"absent", "whole"}]
  BY <1>4 DEF IInv, Types
<1> QED
  BY <1>3, <1>4, <1>5, <1>6, <1>7, OneCall

LEMMA ReturnInv ==
  ASSUME IInv, NEW t \in Threads, Return(t)
  PROVE  IInv'
  BY IdleCall, GoesInv DEF Return

LEMMA DumpInv ==
  ASSUME IInv, NEW t \in Threads, Dump(t) \/ Detect(t)
  PROVE  IInv'
<1> DEFINE r == th[t]
<1>1. r \in CallRecords /\ CallInv(r) /\ r.at \in {"dump", "detect"} /\ IsSearch(r)
  BY ThisCall DEF Dump, Detect, CallInv, Fits
<1>2. /\ r.answer = "none" /\ r.acted = r.scrolls /\ r.late = 0 /\ r.tried = <<>>
      /\ r.scores = <<>> /\ r.arg \in DOMAIN SelectorOf
  BY <1>1, Untried DEF CallInv, Fits
<1>3. screen \in Screens
  BY DEF IInv, Types
<1>4. CASE Goes(t, Answered(r, "error"))
  BY <1>1, <1>4, ErrorInv DEF Raised
<1>5. ASSUME r.at = "dump", NEW s \in {screen, NoScreen}, NEW b \in {<<"xml", s>>, NoBlob},
             Goes(t, [r EXCEPT !.at = "detect", !.screen = s, !.blob = b])
      PROVE  IInv'
  <2> DEFINE c == [r EXCEPT !.at = "detect", !.screen = s, !.blob = b]
  <2>1. b \in Contents \cup {NoBlob} /\ s \in Screens \cup {NoScreen}
    <3>1. <<"xml", s>> \in Contents
      BY <1>3
    <3> QED
      BY <1>3, <3>1
  <2> HIDE DEF r
  <2>2. /\ c \in CallRecords /\ c.at = "detect" /\ c.kind = r.kind /\ c.arg = r.arg
        /\ c.tried = <<>> /\ c.scores = <<>> /\ c.acted = c.scrolls /\ c.late = 0
        /\ c.answer = "none"
    <3>1. "detect" \in Places
      BY DEF Places
    <3>2. /\ c \in CallRecords /\ c.at = "detect" /\ c.kind = r.kind /\ c.arg = r.arg
          /\ c.tried = r.tried /\ c.scores = r.scores /\ c.acted = r.acted
          /\ c.scrolls = r.scrolls /\ c.late = r.late /\ c.answer = r.answer
      BY <1>1, <2>1, <3>1 DEF CallRecords
    <3> QED
      BY <1>2, <3>2
  <2> HIDE DEF c
  <2>3. Fits(c) /\ ~Holds(c)
    BY <1>1, <1>2, <2>2 DEF Fits, Holds, IsSearch
  <2>4. CallInv(c)
    BY <2>2, <2>3, PlainCall
  <2> QED
    BY <1>5, <2>2, <2>3, <2>4, GoesInv DEF c
<1>6. ASSUME r.at = "detect", NEW a \in {App[screen], NoApp}, NEW next \in {"match", "exists"},
             next = IF r.blob = NoBlob THEN "match" ELSE "exists",
             Goes(t, [r EXCEPT !.at = next, !.app = a])
      PROVE  IInv'
  <2> DEFINE c == [r EXCEPT !.at = next, !.app = a]
  <2>1. a \in Apps
    BY <1>3 DEF Apps
  <2> HIDE DEF r
  <2>2. /\ c \in CallRecords /\ c.at = next /\ c.kind = r.kind /\ c.arg = r.arg
        /\ c.tried = <<>> /\ c.scores = <<>> /\ c.acted = c.scrolls /\ c.late = 0
        /\ c.answer = "none" /\ c.blob = r.blob
    <3>1. next \in Places
      BY <1>6 DEF Places
    <3>2. /\ c \in CallRecords /\ c.at = next /\ c.kind = r.kind /\ c.arg = r.arg
          /\ c.tried = r.tried /\ c.scores = r.scores /\ c.acted = r.acted
          /\ c.scrolls = r.scrolls /\ c.late = r.late /\ c.answer = r.answer
          /\ c.blob = r.blob
      BY <1>1, <2>1, <3>1 DEF CallRecords
    <3> QED
      BY <1>2, <3>2
  <2>3. r.blob \in Contents \cup {NoBlob}
    BY <1>1, CallFields
  <2> HIDE DEF c
  <2>4. Fits(c)
    BY <1>1, <1>2, <1>6, <2>2, <2>3 DEF Fits, IsSearch
  <2>5. ~Holds(c)
    BY <1>6, <2>2 DEF Holds
  <2>6. CallInv(c)
    BY <1>6, <2>2, <2>4, PlainCall
  <2> QED
    BY <1>6, <2>2, <2>5, <2>6, GoesInv DEF c
<1>7. CASE Dump(t)
  BY <1>4, <1>5, <1>7 DEF Dump
<1>8. CASE Detect(t)
  BY <1>6, <1>8 DEF Detect
<1> QED
  BY <1>7, <1>8

\* What put returns a reference to is whole.
LEMMA StoredInv ==
  ASSUME NEW r \in CallRecords, CallInv(r), r.at \in {"exists", "publish"}, NEW c \in Stored(r)
  PROVE  /\ c \in CallRecords /\ CallInv(c) /\ c.blob = r.blob /\ r.blob \in Contents
<1>1. /\ r.answer = "none" /\ r.acted = r.scrolls /\ r.late = 0 /\ r.blob \in Contents
      /\ IsSearch(r) => r.tried = <<>> /\ r.scores = <<>> /\ r.arg \in DOMAIN SelectorOf
      /\ IsSearch(r) \/ r.kind = "shot"
  BY Untried DEF CallInv, Fits
<1>2. r.acted \in Nat /\ r.late \in Nat /\ r.scrolls \in Nat
  BY Untried
<1>3. CASE r.kind = "shot"
  <2>1. PICK a \in {"captured", "error"} : c = Answered(r, a)
    BY <1>3 DEF Stored
  <2>2. /\ c \in CallRecords /\ c.at = "answered" /\ c.answer = a /\ c.kind = "shot"
        /\ c.blob = r.blob /\ c.acted = r.acted /\ c.late = r.late /\ c.scrolls = r.scrolls
    BY <1>3, <2>1 DEF Answered, CallRecords, Places, Answers
  <2>3. Fits(c) /\ Healing(c)
    BY <1>1, <2>2 DEF Fits, Healing, IsSearch
  <2>4. Balance(c)
    BY <1>1, <1>2, <2>2 DEF Balance, Told, Said, LateMax
  <2> QED
    BY <1>1, <2>2, <2>3, <2>4 DEF CallInv
<1>4. CASE r.kind # "shot"
  <2>1. c = [r EXCEPT !.at = "match"]
    BY <1>4 DEF Stored
  <2>2. /\ c \in CallRecords /\ c.at = "match" /\ c.answer = "none" /\ c.tried = <<>>
        /\ c.kind = r.kind /\ c.blob = r.blob /\ c.acted = c.scrolls /\ c.late = 0
        /\ c.arg = r.arg /\ c.scores = <<>>
    BY <1>1, <1>4, <2>1 DEF CallRecords, Places, Answers
  <2>3. Fits(c)
    BY <1>1, <1>4, <2>2 DEF Fits, IsSearch
  <2> QED
    BY <1>1, <2>2, <2>3, PlainCall
<1> QED
  BY <1>3, <1>4

\* A call that stores its dump or picture goes on to its next place there.
LEMMA StoringCall ==
  ASSUME NEW r \in CallRecords, CallInv(r), r.at \in {"capture", "exists", "write"},
         NEW next \in {"exists", "write", "publish"}, NEW b \in Contents
  PROVE  LET c == [r EXCEPT !.at = next, !.blob = b] IN
         c \in CallRecords /\ CallInv(c) /\ ~Holds(c)
<1> DEFINE c == [r EXCEPT !.at = next, !.blob = b]
<1>1. /\ c \in CallRecords /\ c.at = next /\ c.kind = r.kind /\ c.blob = b
      /\ c.acted = r.acted /\ c.late = r.late /\ c.answer = r.answer /\ c.arg = r.arg
      /\ c.tried = r.tried /\ c.scores = r.scores /\ c.scrolls = r.scrolls
  BY DEF CallRecords, Places
<1>2. /\ r.answer = "none" /\ r.acted = r.scrolls /\ r.late = 0 /\ r.acted \in Nat
      /\ IsSearch(r) => r.tried = <<>> /\ r.scores = <<>> /\ r.arg \in DOMAIN SelectorOf
      /\ IsSearch(r) \/ r.kind = "shot"
  BY Untried DEF CallInv, Fits, IsSearch
<1> HIDE DEF c
<1>3. Fits(c) /\ ~Holds(c) /\ Healing(c)
  BY <1>1, <1>2 DEF Fits, Holds, Healing, IsSearch
<1>4. Balance(c)
  BY <1>1, <1>2 DEF Balance, Told, Said, LateMax
<1> QED
  BY <1>1, <1>3, <1>4 DEF CallInv, c

LEMMA CaptureInv ==
  ASSUME IInv, NEW t \in Threads, Capture(t)
  PROVE  IInv'
<1> DEFINE r == th[t]
           c == [r EXCEPT !.at = "exists", !.blob = <<"png", screen>>]
<1>1. r \in CallRecords /\ CallInv(r) /\ r.at = "capture"
  BY ThisCall DEF Capture
<1>2. CASE Goes(t, Answered(r, "error"))
  BY <1>1, <1>2, ErrorInv DEF Raised
<1>3. CASE Goes(t, c)
  <2>1. <<"png", screen>> \in Contents
    BY DEF IInv, Types
  <2>2. c \in CallRecords /\ CallInv(c) /\ ~Holds(c)
    BY <1>1, <2>1, StoringCall
  <2> HIDE DEF c
  <2> QED
    BY <1>3, <2>2, GoesInv
<1> QED
  BY <1>2, <1>3 DEF Capture

LEMMA CheckBlobInv ==
  ASSUME IInv, NEW t \in Threads, CheckBlob(t)
  PROVE  IInv'
<1> DEFINE r == th[t]
           c == [r EXCEPT !.at = "write"]
<1>1. r \in CallRecords /\ CallInv(r) /\ r.at = "exists"
  BY ThisCall DEF CheckBlob
<1>2. r.blob \in Contents
  BY <1>1 DEF CallInv, Fits
<1>3. ASSUME BlobExists(r.blob), NEW d \in Stored(r), Goes(t, d)
      PROVE  IInv'
  <2>1. d \in CallRecords /\ CallInv(d) /\ d.blob = r.blob
    BY <1>1, <1>3, StoredInv
  <2>2. blobs[r.blob] = "whole"
    BY <1>2, <1>3 DEF BlobExists, IInv, Types
  <2> QED
    BY <1>3, <2>1, <2>2, GoesInv
<1>4. CASE Goes(t, c)
  <2>1. c = [r EXCEPT !.at = "write", !.blob = r.blob]
    BY <1>1 DEF CallRecords
  <2>2. c \in CallRecords /\ CallInv(c) /\ ~Holds(c)
    BY <1>1, <1>2, <2>1, StoringCall
  <2> HIDE DEF c
  <2> QED
    BY <1>4, <2>2, GoesInv
<1> QED
  BY <1>3, <1>4 DEF CheckBlob

LEMMA WriteBlobInv ==
  ASSUME IInv, NEW t \in Threads, WriteBlob(t)
  PROVE  IInv'
<1> DEFINE r == th[t]
           c == [r EXCEPT !.at = "publish"]
<1>1. r \in CallRecords /\ CallInv(r) /\ r.at = "write"
  BY ThisCall DEF WriteBlob
<1>2. CASE Goes(t, Answered(r, "error"))
  BY <1>1, <1>2, ErrorInv DEF Raised
<1>3. CASE ~Goes(t, Answered(r, "error"))
  <2>1. th' = [th EXCEPT ![t] = c] /\ UNCHANGED <<screen, tracker, blobs>>
    BY <1>1, <1>3 DEF WriteBlob, WriteTemporary, Env
  <2>2. r.blob \in Contents /\ c = [r EXCEPT !.at = "publish", !.blob = r.blob]
    BY <1>1 DEF CallRecords, CallInv, Fits
  <2>3. c \in CallRecords /\ CallInv(c) /\ ~Holds(c)
    BY <1>1, <2>2, StoringCall
  <2> HIDE DEF c
  <2>4. Counted(tracker') /\ blobs' \in [Contents -> {"absent", "whole"}]
    BY <2>1 DEF IInv, Types
  <2> QED
    BY <2>1, <2>3, <2>4, OneCall
<1> QED
  BY <1>2, <1>3

LEMMA PublishInv ==
  ASSUME IInv, NEW t \in Threads, Publish(t)
  PROVE  IInv'
<1> DEFINE r == th[t]
<1>1. r \in CallRecords /\ CallInv(r) /\ r.at = "publish"
  BY ThisCall DEF Publish
<1>2. CASE Goes(t, Answered(r, "error"))
  BY <1>1, <1>2, ErrorInv DEF Raised
<1>3. CASE ~Goes(t, Answered(r, "error"))
  <2>1. PICK c \in Stored(r) : th' = [th EXCEPT ![t] = c]
    BY <1>1, <1>3 DEF Publish
  <2>2. /\ UNCHANGED <<screen, tracker>>
        /\ blobs' = [blobs EXCEPT ![r.blob] = "whole"]
    BY <1>1, <1>3 DEF Publish, PublishBlob, Env
  <2>3. c \in CallRecords /\ CallInv(c) /\ c.blob = r.blob /\ r.blob \in Contents
    BY <1>1, StoredInv
  <2> HIDE DEF r
  <2>4. blobs \in [Contents -> {"absent", "whole"}]
    BY DEF IInv, Types
  <2>5. Counted(tracker') /\ blobs' \in [Contents -> {"absent", "whole"}]
        /\ (\A x \in Contents : blobs[x] = "whole" => blobs'[x] = "whole")
        /\ blobs'[c.blob] = "whole"
    BY <2>2, <2>3, <2>4 DEF IInv, Types
  <2> QED
    BY <2>1, <2>2, <2>3, <2>5, OneCall
<1> QED
  BY <1>2, <1>3

------------------------------------------------------------------------------
(* Self-healing.                                                            *)

\* Counting an outcome.
LEMMA RecordCounted ==
  ASSUME Counted(tracker), NEW c \in CallRecords, IsSearch(c), NEW s \in Strategies
  PROVE  Counted(Record(c, s))
<1> DEFINE k == <<c.app, c.kind, s>>
           st == StatsOf(k)
           counted == IF Hits(c, s) THEN [st EXCEPT !.success = @ + 1]
                                    ELSE [st EXCEPT !.failure = @ + 1]
<1>1. k \in Apps \X {"find", "tap"} \X Strategies
  BY CallFields DEF IsSearch
<1>2. st \in Stats
  BY DEF StatsOf, Counted, Stats, NoStats
<1> HIDE DEF k, st, counted
<1>3. counted \in Stats /\ counted # NoStats
  <2>1. st.success \in Nat /\ st.failure \in Nat
    BY <1>2 DEF Stats
  <2>2. /\ [st EXCEPT !.success = @ + 1] \in Stats
        /\ [st EXCEPT !.success = @ + 1].success = st.success + 1
        /\ [st EXCEPT !.failure = @ + 1] \in Stats
        /\ [st EXCEPT !.failure = @ + 1].failure = st.failure + 1
    BY <1>2, <2>1 DEF Stats
  <2>3. NoStats.success = 0 /\ NoStats.failure = 0
    BY DEF NoStats
  <2>4. CASE Hits(c, s)
    <3>1. counted = [st EXCEPT !.success = @ + 1]
      BY <2>4 DEF counted
    <3>2. counted \in Stats /\ counted.success # NoStats.success
      BY <2>1, <2>2, <2>3, <3>1
    <3> QED
      BY <3>2
  <2>5. CASE ~Hits(c, s)
    <3>1. counted = [st EXCEPT !.failure = @ + 1]
      BY <2>5 DEF counted
    <3>2. counted \in Stats /\ counted.failure # NoStats.failure
      BY <2>1, <2>2, <2>3, <3>1
    <3> QED
      BY <3>2
  <2> QED
    BY <2>4, <2>5
<1>4. Record(c, s) = [x \in DOMAIN tracker \cup {k} |-> IF x = k THEN counted ELSE tracker[x]]
  BY DEF Record, Entry, k, st, counted
<1> QED
  BY <1>1, <1>3, <1>4 DEF Counted

\* What a search may try next: the original first, then a derived fallback not
\* tried yet.
MayTry(r, strategy) ==
  /\ \/ r.tried = <<>> /\ strategy = Original(r)
     \/ TriedInOrder(r) /\ ~Matched(r) /\ strategy \in Derived(r)
  /\ ~Contains(r.tried, strategy)

StrategiesOf(r) == {Original(r)} \cup Derived(r)

LEMMA StrategiesType ==
  ASSUME NEW r
  PROVE  StrategiesOf(r) \subseteq Strategies
  BY ClassifyType, DerivedType DEF StrategiesOf, Original, Derived

\* One more strategy tried.
LEMMA TriedNext ==
  ASSUME NEW r \in CallRecords, NEW strategy, MayTry(r, strategy),
         NEW c, c.arg = r.arg, c.screen = r.screen, c.tried = Append(r.tried, strategy)
  PROVE  /\ TriedInOrder(c) /\ (Matched(c) <=> Hits(r, strategy))
         /\ \A s : Contains(c.tried, s) <=> Contains(r.tried, s) \/ s = strategy
         /\ \A s : Hits(c, s) <=> Hits(r, s)
         /\ Original(c) = Original(r) /\ Derived(c) = Derived(r)
<1> DEFINE n == Len(r.tried)
<1>1. strategy \in Strategies
  BY StrategiesType DEF MayTry, StrategiesOf
<1>2. r.tried \in Seq(Strategies) /\ n \in Nat
  BY CallFields
<1>3. /\ Len(c.tried) = n + 1 /\ c.tried[n + 1] = strategy /\ c.tried # <<>>
      /\ \A i \in 1..n : c.tried[i] = r.tried[i]
      /\ DOMAIN c.tried = 1..(n + 1) /\ DOMAIN r.tried = 1..n
  BY <1>1, <1>2
<1>4. /\ Original(c) = Original(r) /\ Derived(c) = Derived(r)
      /\ \A s : Hits(c, s) <=> Hits(r, s)
  BY DEF Original, Derived, Hits, Found, SelectorFor
<1> HIDE DEF n
<1>5. \A s : Contains(c.tried, s) <=> Contains(r.tried, s) \/ s = strategy
  <2> SUFFICES ASSUME NEW s
               PROVE  (\E i \in 1..(n + 1) : c.tried[i] = s)
                      <=> (\E i \in 1..n : r.tried[i] = s) \/ s = strategy
    BY <1>3 DEF Contains, n
  <2>1. \A i \in 1..(n + 1) : i \in 1..n \/ i = n + 1
    BY <1>2
  <2>2. 1..n \subseteq 1..(n + 1) /\ n + 1 \in 1..(n + 1)
    BY <1>2
  <2> QED
    BY <1>3, <2>1, <2>2
<1>6. Matched(c) <=> Hits(r, strategy)
  BY <1>3, <1>4 DEF Matched
<1>7. n = 0 => r.tried = <<>>
  BY <1>2 DEF n
<1>8. IsInjective(c.tried)
  <2>1. \A i \in 1..n : r.tried[i] # strategy
    BY DEF MayTry, Contains, n
  <2>2. \A i, j \in 1..n : r.tried[i] = r.tried[j] => i = j
    <3>1. CASE r.tried = <<>>
      BY <1>3, <3>1
    <3>2. CASE TriedInOrder(r)
      BY <1>3, <3>2 DEF TriedInOrder, IsInjective
    <3> QED
      BY <3>1, <3>2 DEF MayTry
  <2>3. \A i \in 1..(n + 1) : i \in 1..n \/ i = n + 1
    BY <1>2
  <2> QED
    BY <1>3, <2>1, <2>2, <2>3 DEF IsInjective
<1>9. TriedInOrder(c)
  <2>1. CASE r.tried = <<>> /\ strategy = Original(r)
    <3>1. n = 0
      BY <2>1 DEF n
    <3> QED
      BY <1>3, <1>4, <1>8, <2>1, <3>1 DEF TriedInOrder
  <2>2. CASE TriedInOrder(r) /\ ~Matched(r) /\ strategy \in Derived(r)
    <3>1. /\ n > 0 /\ r.tried[1] = Original(r)
          /\ \A i \in 2..n : r.tried[i] \in Derived(r)
          /\ \A i \in 1..(n - 1) : ~Hits(r, r.tried[i])
          /\ ~Hits(r, r.tried[n])
      BY <1>2, <1>7, <2>2 DEF TriedInOrder, Matched, n
    <3>2. c.tried[1] = Original(c)
      BY <1>2, <1>3, <1>4, <3>1
    <3>3. \A i \in 2..(n + 1) : c.tried[i] \in Derived(c)
      BY <1>2, <1>3, <1>4, <2>2, <3>1
    <3>4. \A i \in 1..n : ~Hits(c, c.tried[i])
      <4> SUFFICES ASSUME NEW i \in 1..n PROVE ~Hits(r, r.tried[i])
        BY <1>3, <1>4
      <4>1. i \in 1..(n - 1) \/ i = n
        BY <1>2
      <4> QED
        BY <3>1, <4>1
    <3> QED
      BY <1>2, <1>3, <1>8, <3>2, <3>3, <3>4 DEF TriedInOrder
  <2> QED
    BY <2>1, <2>2 DEF MayTry
<1> QED
  BY <1>4, <1>5, <1>6, <1>9

\* A search that has just tried a strategy.
Searching(c) ==
  /\ IsSearch(c) /\ c.arg \in DOMAIN SelectorOf /\ c.answer = "none"
  /\ c.acted = c.scrolls /\ c.late = 0 /\ TriedInOrder(c)

\* c is the call r with one more strategy tried, and order left.
Tries(c, r, order, strategy) == c = Attempt([r EXCEPT !.order = order], strategy)

OneMore(c, r, order, strategy) ==
  /\ Searching(c) /\ c.at = r.at /\ c.blob = r.blob
  /\ c.order = order /\ c.scores = r.scores
  /\ Original(c) = Original(r) /\ Derived(c) = Derived(r)
  /\ c.tried = Append(r.tried, strategy)
  /\ \A s : Contains(c.tried, s) <=> Contains(r.tried, s) \/ s = strategy
  /\ \A s : Hits(c, s) <=> Hits(r, s)
  /\ Matched(c) <=> Hits(c, strategy)

LEMMA AttemptCall ==
  ASSUME NEW r \in CallRecords, CallInv(r), r.at \in {"match", "fallback"},
         NEW order \in Seq(Strategies), NEW strategy, MayTry(r, strategy),
         NEW c, Tries(c, r, order, strategy)
  PROVE  c \in CallRecords /\ OneMore(c, r, order, strategy)
<1>1. strategy \in Strategies
  BY StrategiesType DEF MayTry, StrategiesOf
<1>2. Append(r.tried, strategy) \in Seq(Strategies)
  BY <1>1, CallFields
<1>3. /\ c \in CallRecords /\ c.at = r.at /\ c.kind = r.kind /\ c.arg = r.arg
      /\ c.screen = r.screen /\ c.tried = Append(r.tried, strategy) /\ c.order = order
      /\ c.acted = r.acted /\ c.late = r.late /\ c.scrolls = r.scrolls
      /\ c.answer = r.answer /\ c.blob = r.blob /\ c.scores = r.scores
  BY <1>2 DEF Tries, Attempt, CallRecords
<1>4. /\ IsSearch(r) /\ r.arg \in DOMAIN SelectorOf /\ r.answer = "none"
      /\ r.acted = r.scrolls /\ r.late = 0
  BY Untried DEF CallInv, Fits
<1>5. /\ TriedInOrder(c) /\ (Matched(c) <=> Hits(r, strategy))
      /\ \A s : Contains(c.tried, s) <=> Contains(r.tried, s) \/ s = strategy
      /\ \A s : Hits(c, s) <=> Hits(r, s)
      /\ Original(c) = Original(r) /\ Derived(c) = Derived(r)
  <2>1. c.arg = r.arg /\ c.screen = r.screen /\ c.tried = Append(r.tried, strategy)
    BY <1>3
  <2> QED
    BY <2>1, TriedNext, Zenon
<1>6. Searching(c)
  BY <1>3, <1>4, <1>5 DEF Searching, IsSearch
<1> QED
  BY <1>3, <1>5, <1>6 DEF OneMore

LEMMA MovedCall ==
  ASSUME NEW r \in CallRecords, NEW p \in Places, NEW c, c = [r EXCEPT !.at = p]
  PROVE  /\ c \in CallRecords /\ c.at = p /\ c.kind = r.kind /\ c.arg = r.arg
         /\ c.screen = r.screen /\ c.tried = r.tried /\ c.acted = r.acted
         /\ c.late = r.late /\ c.scrolls = r.scrolls /\ c.blob = r.blob
         /\ c.scores = r.scores /\ c.answer = r.answer
  BY DEF CallRecords

\* What a search becomes after a hit.
LEMMA HitCall ==
  ASSUME NEW a \in CallRecords, Searching(a), Matched(a)
  PROVE  AfterHit(a) \in CallRecords /\ CallInv(AfterHit(a)) /\ AfterHit(a).blob = a.blob
<1> DEFINE c == AfterHit(a)
<1>1. a.kind \in {"find", "tap"} /\ a.tried # <<>> /\ a.acted \in Nat
  BY CallFields DEF Searching, IsSearch, TriedInOrder
<1>2. /\ c \in CallRecords /\ c.kind = a.kind /\ c.arg = a.arg
      /\ c.screen = a.screen /\ c.tried = a.tried /\ c.acted = a.acted
      /\ c.late = a.late /\ c.scrolls = a.scrolls /\ c.blob = a.blob
      /\ \/ c.at = "tap" /\ c.answer = "none" /\ c.kind = "tap"
         \/ c.at = "learn" /\ c.answer = "none" /\ c.kind = "find"
         \/ c.at = "answered" /\ c.answer = "found" /\ c.kind = "find"
  <2>1. CASE a.kind = "tap"
    <3>1. c = [a EXCEPT !.at = "tap"] /\ "tap" \in Places
      BY <2>1 DEF AfterHit, Places
    <3>2. a.answer = "none"
      BY DEF Searching
    <3> HIDE DEF c
    <3> QED
      BY <2>1, <3>1, <3>2, MovedCall
  <2>2. CASE a.kind = "find" /\ Len(a.tried) = 1
    <3>1. c = Answered(a, "found")
      BY <2>2 DEF AfterHit
    <3> QED
      BY <2>2, <3>1 DEF Answered, CallRecords, Places, Answers
  <2>3. CASE a.kind = "find" /\ Len(a.tried) # 1
    <3>1. c = [a EXCEPT !.at = "learn"] /\ "learn" \in Places
      BY <2>3 DEF AfterHit, Places
    <3>2. a.answer = "none"
      BY DEF Searching
    <3> HIDE DEF c
    <3> QED
      BY <2>3, <3>1, <3>2, MovedCall
  <2> QED
    BY <1>1, <2>1, <2>2, <2>3
<1> HIDE DEF c
<1>3. TriedInOrder(c) /\ Matched(c)
  BY <1>2, SameSearch DEF Searching
<1>4. Fits(c) /\ Healing(c)
  BY <1>1, <1>2, <1>3 DEF Searching, Fits, Healing, IsSearch
<1>5. Balance(c)
  BY <1>1, <1>2 DEF Searching, Balance, Told, Said, LateMax
<1> QED
  BY <1>2, <1>4, <1>5 DEF CallInv, c

\* What a search becomes when all has been tried in vain.
LEMMA MissCall ==
  ASSUME NEW a \in CallRecords, Searching(a), ~Matched(a), AllTried(a)
  PROVE  AfterMiss(a) \in CallRecords /\ CallInv(AfterMiss(a)) /\ AfterMiss(a).blob = a.blob
<1> DEFINE c == AfterMiss(a)
<1>1. a.kind \in {"find", "tap"} /\ a.tried # <<>> /\ a.acted \in Nat
  BY CallFields DEF Searching, IsSearch, TriedInOrder
<1>2. /\ c \in CallRecords /\ c.kind = a.kind /\ c.arg = a.arg
      /\ c.screen = a.screen /\ c.tried = a.tried /\ c.acted = a.acted
      /\ c.late = a.late /\ c.scrolls = a.scrolls /\ c.blob = a.blob
      /\ \/ c.at = "learn" /\ c.answer = "none" /\ c.kind = "tap"
         \/ c.at = "answered" /\ c.answer = "unmatched" /\ c.kind = "find"
  <2>1. CASE a.kind = "tap"
    <3>1. c = [a EXCEPT !.at = "learn"] /\ "learn" \in Places
      BY <2>1 DEF AfterMiss, Places
    <3>2. a.answer = "none"
      BY DEF Searching
    <3> HIDE DEF c
    <3> QED
      BY <2>1, <3>1, <3>2, MovedCall
  <2>2. CASE a.kind = "find"
    <3>1. c = Answered(a, "unmatched")
      BY <2>2 DEF AfterMiss
    <3> QED
      BY <2>2, <3>1 DEF Answered, CallRecords, Places, Answers
  <2> QED
    BY <1>1, <2>1, <2>2
<1> HIDE DEF c
<1>3. TriedInOrder(c) /\ AllTried(c) /\ ~Matched(c)
  BY <1>2, SameSearch DEF Searching
<1>4. Fits(c) /\ Healing(c)
  BY <1>1, <1>2, <1>3 DEF Searching, Fits, Healing, IsSearch
<1>5. Balance(c)
  BY <1>1, <1>2, <1>3 DEF Searching, Balance, Told, Said, LateMax
<1> QED
  BY <1>2, <1>4, <1>5 DEF CallInv, c

\* A search that goes on.
LEMMA SearchGoesOn ==
  ASSUME NEW c \in CallRecords, Searching(c), c.at \in {"score", "penalty", "fallback"},
         IF c.at = "fallback" THEN Left(c) /\ ~Matched(c) ELSE Scoring(c)
  PROVE  CallInv(c)
<1>1. c.tried # <<>> /\ c.acted \in Nat
  BY CallFields DEF Searching, TriedInOrder
<1>2. Fits(c) /\ Healing(c)
  BY <1>1 DEF Searching, Fits, Healing, IsSearch
<1>3. Balance(c)
  BY <1>1 DEF Searching, Balance, Told, Said, LateMax
<1> QED
  BY <1>2, <1>3 DEF CallInv

LEMMA TryInv ==
  ASSUME IInv, NEW t \in Threads, th[t].at \in {"match", "fallback"},
         NEW c \in CallRecords, Searching(c), c.blob = th[t].blob,
         NEW miss, ~Matched(c) => miss \in CallRecords /\ CallInv(miss) /\ miss.blob = c.blob,
         Try(t, c, miss)
  PROVE  IInv'
<1> DEFINE d == IF Matched(c) THEN AfterHit(c) ELSE miss
<1>1. d \in CallRecords /\ CallInv(d) /\ d.blob = c.blob
  BY HitCall
<1>2. /\ th' = [th EXCEPT ![t] = d] /\ screen' = screen /\ blobs' = blobs
      /\ tracker' = Record(c, c.tried[Len(c.tried)])
  BY DEF Try, Env
<1> HIDE DEF d
<1>3. c.tried[Len(c.tried)] \in Strategies
  BY CallFields DEF Searching, TriedInOrder
<1>4. Counted(tracker')
  BY <1>2, <1>3, RecordCounted DEF IInv, Types, Searching
<1>5. Holds(d) => blobs'[d.blob] = "whole"
  <2>1. d.blob # NoBlob => Holds(th[t])
    BY <1>1 DEF Holds
  <2> QED
    BY <1>1, <1>2, <2>1, ThisCall DEF Holds
<1>6. blobs' \in [Contents -> {"absent", "whole"}]
  BY <1>2 DEF IInv, Types
<1> QED
  BY <1>1, <1>2, <1>4, <1>5, <1>6, OneCall

LEMMA TryOriginalInv ==
  ASSUME IInv, NEW t \in Threads, TryOriginal(t)
  PROVE  IInv'
<1> DEFINE r == th[t]
           c == Attempt(r, Original(r))
           miss == IF Alternatives(c) = {} THEN AfterMiss(c) ELSE [c EXCEPT !.at = "score"]
<1>1. /\ r \in CallRecords /\ CallInv(r) /\ r.at = "match"
      /\ r.tried = <<>> /\ r.scores = <<>>
  <2>1. r \in CallRecords /\ CallInv(r) /\ r.at = "match"
    BY ThisCall DEF TryOriginal
  <2> QED
    BY <2>1, Untried DEF CallInv, Fits
<1>2. Try(t, c, miss)
  BY DEF TryOriginal
<1>3. MayTry(r, Original(r)) /\ \A s : ~Contains(r.tried, s)
  <2>1. 1..Len(r.tried) = {}
    BY <1>1
  <2> QED
    BY <1>1, <2>1 DEF MayTry, Contains
<1>4. Tries(c, r, r.order, Original(r)) /\ r.order \in Seq(Strategies)
  BY <1>1, CallFields DEF Tries, CallRecords
<1> HIDE DEF c, r
<1>5. /\ c \in CallRecords /\ Searching(c) /\ c.blob = r.blob /\ c.scores = <<>>
      /\ Original(c) = Original(r) /\ c.tried = Append(r.tried, Original(r))
      /\ \A s : Contains(c.tried, s) <=> s = Original(r)
      /\ Matched(c) <=> Hits(c, Original(r))
  <2>1. r.at \in {"match", "fallback"}
    BY <1>1
  <2>2. c \in CallRecords /\ OneMore(c, r, r.order, Original(r))
    BY <1>1, <1>3, <1>4, <2>1, AttemptCall, Zenon
  <2> QED
    BY <1>1, <1>3, <2>2 DEF OneMore
<1>6. Len(c.tried) = 1
  BY <1>1, <1>5
<1>7. ASSUME ~Matched(c) PROVE miss \in CallRecords /\ CallInv(miss) /\ miss.blob = c.blob
  <2>1. CASE Alternatives(c) = {}
    <3>1. AllTried(c)
      BY <1>5, <1>7, <2>1 DEF AllTried, Alternatives
    <3> QED
      BY <1>5, <1>7, <2>1, <3>1, MissCall
  <2>2. CASE Alternatives(c) # {}
    <3> DEFINE d == [c EXCEPT !.at = "score"]
    <3>1. /\ d \in CallRecords /\ d.at = "score" /\ d.kind = c.kind /\ d.arg = c.arg
          /\ d.screen = c.screen /\ d.tried = c.tried /\ d.acted = c.acted
          /\ d.late = c.late /\ d.scrolls = c.scrolls /\ d.blob = c.blob
          /\ d.scores = <<>> /\ d.answer = c.answer
      BY <1>5 DEF CallRecords, Places
    <3>2. miss = d
      BY <2>2
    <3> HIDE DEF d
    <3>3. /\ TriedInOrder(d) /\ ~Matched(d) /\ Alternatives(d) # {}
      BY <1>5, <1>7, <2>2, <3>1, SameSearch DEF Searching
    <3>4. Searching(d)
      BY <1>5, <3>1, <3>3 DEF Searching, IsSearch
    <3>5. Scoring(d)
      <4>1. DOMAIN d.scores = {}
        BY <3>1
      <4> QED
        BY <1>6, <3>1, <3>3, <4>1 DEF Scoring
    <3> QED
      BY <3>1, <3>2, <3>4, <3>5, SearchGoesOn
  <2> QED
    BY <2>1, <2>2
<1> HIDE DEF miss
<1> QED
  BY <1>1, <1>2, <1>5, <1>7, TryInv DEF r

\* The next strategy whose score is read.
LEMMA NextToScoreType ==
  ASSUME NEW c, Alternatives(c) \ DOMAIN c.scores # {}
  PROVE  NextToScore(c) \in Alternatives(c) \ DOMAIN c.scores
<1> DEFINE unread == Alternatives(c) \ DOMAIN c.scores
           Next1(i) == StrategyOrder[i] \in unread
           First(i) == Next1(i) /\ \A j \in 1..(i - 1) : ~Next1(j)
<1>1. DOMAIN StrategyOrder = 1..8
  BY DEF StrategyOrder
<1>2. NextToScore(c) = StrategyOrder[CHOOSE i \in 1..8 : First(i)]
  BY <1>1 DEF NextToScore
<1>3. \E i \in 1..8 : Next1(i)
  <2>1. PICK s \in Strategies : s \in unread
    BY StrategiesType DEF StrategiesOf, Alternatives
  <2>2. \E i \in 1..8 : StrategyOrder[i] = s
    BY DEF Strategies, StrategyOrder
  <2> QED
    BY <2>1, <2>2
<1>4. \E i \in 1..8 : First(i)
  <2> HIDE DEF Next1
  <2> QED
    BY <1>3
<1> HIDE DEF First
<1>5. First(CHOOSE i \in 1..8 : First(i))
  BY <1>4
<1> QED
  BY <1>2, <1>5 DEF First

\* One more score read; the last one fixes the order.
LEMMA ScoredCall ==
  ASSUME NEW r \in CallRecords, CallInv(r), r.at \in {"score", "penalty"}, NEW st \in Stats
  PROVE  Scored(r, st) \in CallRecords /\ CallInv(Scored(r, st)) /\ Scored(r, st).blob = r.blob
<1> DEFINE s == NextToScore(r)
           scores == [x \in DOMAIN r.scores \cup {s} |-> IF x = s THEN st ELSE r.scores[x]]
           order == FallbackOrder(Alternatives(r), scores)
<1>1. /\ IsSearch(r) /\ r.arg \in DOMAIN SelectorOf /\ r.answer = "none"
      /\ r.acted = r.scrolls /\ r.late = 0 /\ Scoring(r)
  BY Untried DEF CallInv, Fits, Healing
<1>2. Alternatives(r) \subseteq Strategies
  BY StrategiesType DEF Alternatives, StrategiesOf
<1>3. PICK S \in SUBSET Strategies : r.scores \in [S -> Stats]
  BY CallFields DEF Scores
<1>4. S \subseteq Alternatives(r) /\ s \in Alternatives(r) \ S
  BY <1>1, <1>3, NextToScoreType DEF Scoring
<1> HIDE DEF s
<1>5. scores \in [S \cup {s} -> Stats] /\ DOMAIN scores = S \cup {s}
  BY <1>3
<1>6. scores \in Scores /\ S \cup {s} \subseteq Alternatives(r)
  BY <1>2, <1>4, <1>5 DEF Scores
<1> HIDE DEF scores, order
<1>7. CASE DOMAIN scores = Alternatives(r)
  <2> DEFINE c == [r EXCEPT !.at = "fallback", !.scores = <<>>, !.boost = 0, !.order = order]
  <2>1. Scored(r, st) = c
    BY <1>7 DEF Scored, scores, order, s
  <2>2. /\ order \in Seq(Alternatives(r)) /\ IsInjective(order)
        /\ \A x \in Alternatives(r) : \E i \in DOMAIN order : order[i] = x
    BY <1>2, <1>5, <1>7, FallbackOrderComplete DEF order
  <2>3. <<>> \in Scores
    BY IdleCall DEF CallRecords, Idle
  <2>4. order \in Seq(Strategies)
    BY <1>2, <2>2
  <2>5. /\ c \in CallRecords /\ c.at = "fallback" /\ c.kind = r.kind /\ c.arg = r.arg
        /\ c.screen = r.screen /\ c.tried = r.tried /\ c.acted = r.acted
        /\ c.late = r.late /\ c.scrolls = r.scrolls /\ c.blob = r.blob
        /\ c.answer = r.answer /\ c.order = order
    BY <2>3, <2>4 DEF CallRecords, Places
  <2> HIDE DEF c
  <2>6. /\ TriedInOrder(c) /\ ~Matched(c) /\ Original(c) = Original(r)
        /\ Derived(c) = Derived(r) /\ Alternatives(c) = Alternatives(r)
    BY <1>1, <2>5, SameSearch DEF Scoring
  <2>7. Searching(c)
    BY <1>1, <2>5, <2>6 DEF Searching, IsSearch
  <2>8. /\ \A x : Contains(c.tried, x) <=> x = Original(c)
        /\ ~Hits(c, Original(c))
    <3>1. Len(c.tried) = 1 /\ c.tried[1] = Original(c)
      BY <1>1, <2>5, <2>6 DEF Scoring, TriedInOrder
    <3> QED
      BY <2>6, <3>1 DEF Contains, Matched, TriedInOrder
  <2>9. Left(c)
    <3>1. DOMAIN order = 1..Len(order) /\ \A i \in DOMAIN order : order[i] \in Alternatives(r)
      BY <2>2
    <3>2. order # <<>>
      <4>1. PICK i \in DOMAIN order : order[i] = s
        BY <1>4, <2>2
      <4>2. DOMAIN <<>> = {}
        OBVIOUS
      <4> QED
        BY <4>1, <4>2
    <3>3. \A x \in Alternatives(r) : Contains(order, x)
      BY <2>2, <3>1 DEF Contains
    <3>4. \A x \in {Original(c)} \cup Derived(c) : x = Original(c) \/ x \in Alternatives(r)
      BY <2>6 DEF Alternatives
    <3>5. \A x \in Alternatives(r) : x \in Derived(c) /\ x # Original(c)
      BY <2>6 DEF Alternatives
    <3> QED
      BY <2>2, <2>5, <2>8, <3>1, <3>2, <3>3, <3>4, <3>5 DEF Left
  <2>10. CallInv(c)
    BY <2>5, <2>6, <2>7, <2>9, SearchGoesOn
  <2> QED
    BY <2>1, <2>5, <2>10
<1>8. CASE DOMAIN scores # Alternatives(r)
  <2> DEFINE c == [r EXCEPT !.at = "score", !.scores = scores, !.boost = 0]
  <2>1. Scored(r, st) = c
    BY <1>8 DEF Scored, scores, s
  <2>2. /\ c \in CallRecords /\ c.at = "score" /\ c.kind = r.kind /\ c.arg = r.arg
        /\ c.screen = r.screen /\ c.tried = r.tried /\ c.acted = r.acted
        /\ c.late = r.late /\ c.scrolls = r.scrolls /\ c.blob = r.blob
        /\ c.answer = r.answer /\ c.scores = scores
    BY <1>6 DEF CallRecords, Places
  <2> HIDE DEF c
  <2>3. TriedInOrder(c) /\ ~Matched(c) /\ Alternatives(c) = Alternatives(r)
    BY <1>1, <2>2, SameSearch DEF Scoring
  <2>4. Searching(c)
    BY <1>1, <2>2, <2>3 DEF Searching, IsSearch
  <2>5. Scoring(c)
    BY <1>1, <1>5, <1>6, <1>8, <2>2, <2>3 DEF Scoring
  <2>6. CallInv(c)
    BY <2>2, <2>4, <2>5, SearchGoesOn
  <2> QED
    BY <2>1, <2>2, <2>6
<1> QED
  BY <1>7, <1>8

LEMMA ReadInv ==
  ASSUME IInv, NEW t \in Threads, ReadSuccesses(t) \/ ReadFailures(t)
  PROVE  IInv'
<1> DEFINE r == th[t]
           k == Entry(r, NextToScore(r))
<1>1. r \in CallRecords /\ CallInv(r) /\ r.at \in {"score", "penalty"}
  BY ThisCall DEF ReadSuccesses, ReadFailures
<1>2. ASSUME NEW c \in CallRecords, CallInv(c), c.blob = r.blob, Goes(t, c)
      PROVE  IInv'
  <2>1. Holds(c) => Holds(r)
    BY <1>1, <1>2 DEF Holds
  <2> QED
    BY <1>2, <2>1, ThisCall, GoesInv
<1>3. ASSUME NEW st \in Stats, Goes(t, Scored(r, st)) PROVE IInv'
  BY <1>1, <1>2, <1>3, ScoredCall
<1>4. NoStats \in Stats
  BY DEF NoStats, Stats
<1>5. \A x \in DOMAIN tracker : tracker[x].success \in Nat /\ tracker[x].failure \in Nat
  BY DEF IInv, Types, Counted, Stats
<1>6. CASE ReadSuccesses(t)
  <2> DEFINE c == [r EXCEPT !.at = "penalty", !.boost = tracker[k].success]
  <2>1. CASE k \in DOMAIN tracker
    <3>1. tracker[k].success \in Nat
      BY <1>5, <2>1
    <3>2. /\ c \in CallRecords /\ c.at = "penalty" /\ c.kind = r.kind /\ c.arg = r.arg
          /\ c.screen = r.screen /\ c.tried = r.tried /\ c.acted = r.acted
          /\ c.late = r.late /\ c.scrolls = r.scrolls /\ c.blob = r.blob
          /\ c.answer = r.answer /\ c.scores = r.scores
      BY <1>1, <3>1 DEF CallRecords, Places
    <3>3. Goes(t, c)
      BY <1>6, <2>1 DEF ReadSuccesses
    <3> HIDE DEF c, r
    <3>4. /\ IsSearch(r) /\ r.arg \in DOMAIN SelectorOf /\ r.answer = "none"
          /\ r.acted = r.scrolls /\ r.late = 0 /\ Scoring(r)
      BY <1>1, Untried DEF CallInv, Fits, Healing
    <3>5. TriedInOrder(c) /\ ~Matched(c) /\ Alternatives(c) = Alternatives(r)
      BY <3>2, <3>4, SameSearch DEF Scoring
    <3>6. Searching(c) /\ Scoring(c)
      BY <3>2, <3>4, <3>5 DEF Searching, IsSearch, Scoring
    <3>7. CallInv(c)
      BY <3>2, <3>6, SearchGoesOn
    <3> QED
      BY <1>2, <3>2, <3>3, <3>7
  <2>2. CASE k \notin DOMAIN tracker
    BY <1>3, <1>4, <1>6, <2>2 DEF ReadSuccesses
  <2> QED
    BY <2>1, <2>2
<1>7. CASE ReadFailures(t)
  <2> DEFINE st == [success |-> r.boost, failure |-> StatsOf(k).failure]
  <2>1. StatsOf(k).failure \in Nat
    BY <1>5 DEF StatsOf, NoStats
  <2>2. st \in Stats
    BY <1>1, <2>1, CallFields DEF Stats
  <2>3. Goes(t, Scored(r, st))
    BY <1>7 DEF ReadFailures
  <2> QED
    BY <1>3, <2>2, <2>3
<1> QED
  BY <1>6, <1>7

LEMMA TryFallbackInv ==
  ASSUME IInv, NEW t \in Threads, TryFallback(t)
  PROVE  IInv'
<1> DEFINE r == th[t]
           strategy == Head(r.order)
           rest == Tail(r.order)
           n == Len(r.order)
<1>1. r \in CallRecords /\ CallInv(r) /\ r.at = "fallback" /\ IsSearch(r)
  BY ThisCall DEF TryFallback, CallInv, Fits
<1>2. Left(r) /\ ~Matched(r) /\ TriedInOrder(r)
  BY <1>1 DEF CallInv, Healing
<1> DEFINE c == Attempt([r EXCEPT !.order = rest], strategy)
           miss == IF c.order = <<>> THEN AfterMiss(c) ELSE c
<1>3. Try(t, c, miss)
  BY DEF TryFallback
<1>4. r.order \in Seq(Strategies) /\ r.order # <<>>
  BY <1>1, <1>2, CallFields DEF Left
<1>5. /\ n \in Nat /\ n > 0 /\ DOMAIN r.order = 1..n
      /\ strategy = r.order[1] /\ rest \in Seq(Strategies)
      /\ Len(rest) = n - 1 /\ DOMAIN rest = 1..(n - 1)
      /\ \A i \in 1..(n - 1) : rest[i] = r.order[i + 1]
  BY <1>4
<1> HIDE DEF n, strategy, rest, c
<1>6. \A i, j \in 1..n : r.order[i] = r.order[j] => i = j
  BY <1>2, <1>5 DEF Left, IsInjective
<1>7. \A i \in 1..n : r.order[i] \in Derived(r) /\ ~Contains(r.tried, r.order[i])
  BY <1>2, <1>5 DEF Left
<1> HIDE DEF r
<1>8. \A i \in DOMAIN rest : /\ rest[i] \in Derived(r) /\ rest[i] # strategy
                           /\ ~Contains(r.tried, rest[i])
  <2> SUFFICES ASSUME NEW i \in 1..(n - 1)
               PROVE  /\ rest[i] \in Derived(r) /\ rest[i] # strategy
                      /\ ~Contains(r.tried, rest[i])
    BY <1>5
  <2>1. i + 1 \in 1..n /\ 1 \in 1..n /\ i + 1 # 1 /\ rest[i] = r.order[i + 1]
    BY <1>5
  <2> QED
    BY <1>5, <1>6, <1>7, <2>1
<1>9. IsInjective(rest)
  <2> SUFFICES ASSUME NEW i \in 1..(n - 1), NEW j \in 1..(n - 1), rest[i] = rest[j]
               PROVE  i = j
    BY <1>5 DEF IsInjective
  <2>1. i + 1 \in 1..n /\ j + 1 \in 1..n /\ r.order[i + 1] = r.order[j + 1]
    BY <1>5
  <2>2. i + 1 = j + 1
    BY <1>6, <2>1
  <2> QED
    BY <2>2
<1>10. \A s : Contains(r.order, s) => s = strategy \/ Contains(rest, s)
  <2> SUFFICES ASSUME NEW i \in 1..n PROVE r.order[i] = strategy \/ Contains(rest, r.order[i])
    BY <1>5 DEF Contains, n
  <2>1. CASE i = 1
    BY <1>5, <2>1
  <2>2. CASE i # 1
    <3>1. i - 1 \in 1..(n - 1) /\ (i - 1) + 1 = i
      BY <1>5, <2>2
    <3>2. rest[i - 1] = r.order[i]
      BY <1>5, <3>1
    <3> QED
      BY <1>5, <3>1, <3>2 DEF Contains
  <2> QED
    BY <2>1, <2>2
<1>11. strategy \in Derived(r) /\ ~Contains(r.tried, strategy)
  <2>1. 1 \in 1..n
    BY <1>5
  <2> QED
    BY <1>5, <1>7, <2>1
<1>12. \A s \in {Original(r)} \cup Derived(r) :
         (Contains(r.tried, s) /\ ~Hits(r, s)) \/ s = strategy \/ Contains(rest, s)
  BY <1>2, <1>10 DEF Left
<1>13. MayTry(r, strategy)
  BY <1>2, <1>11 DEF MayTry
<1> HIDE DEF miss
<1>14. Tries(c, r, rest, strategy)
  BY DEF Tries, c
<1>15. /\ c \in CallRecords /\ Searching(c) /\ c.at = "fallback" /\ c.blob = r.blob
       /\ c.order = rest /\ Original(c) = Original(r) /\ Derived(c) = Derived(r)
       /\ \A s : Contains(c.tried, s) <=> Contains(r.tried, s) \/ s = strategy
       /\ \A s : Hits(c, s) <=> Hits(r, s)
       /\ Matched(c) <=> Hits(c, strategy)
  <2>1. r.at \in {"match", "fallback"}
    BY <1>1
  <2>2. c \in CallRecords /\ OneMore(c, r, rest, strategy)
    BY <1>1, <1>5, <1>13, <1>14, <2>1, AttemptCall, Zenon
  <2> QED
    BY <1>1, <2>2 DEF OneMore
<1>16. ASSUME ~Matched(c) PROVE miss \in CallRecords /\ CallInv(miss) /\ miss.blob = c.blob
  <2>1. CASE rest = <<>>
    <3>1. \A s : ~Contains(rest, s)
      <4>1. 1..Len(rest) = {}
        BY <2>1
      <4> QED
        BY <4>1 DEF Contains
    <3>2. AllTried(c)
      BY <1>12, <1>15, <1>16, <3>1 DEF AllTried
    <3> QED
      BY <1>15, <1>16, <2>1, <3>2, MissCall DEF miss
  <2>2. CASE rest # <<>>
    <3>1. Left(c)
      BY <1>8, <1>9, <1>12, <1>15, <1>16, <2>2 DEF Left
    <3>2. CallInv(c)
      BY <1>15, <1>16, <3>1, SearchGoesOn
    <3> QED
      BY <1>15, <2>2, <3>2 DEF miss
  <2> QED
    BY <2>1, <2>2
<1> QED
  BY <1>1, <1>3, <1>15, <1>16, TryInv DEF r


------------------------------------------------------------------------------
(* After the search.                                                        *)

LEMMA AcknowledgedCall ==
  ASSUME NEW r \in CallRecords
  PROVE  LET c == Acknowledged(r) IN
         /\ c \in CallRecords /\ c.acted = r.acted + 1 /\ c.late = r.late
         /\ c.at = r.at /\ c.answer = r.answer /\ c.kind = r.kind /\ c.arg = r.arg
         /\ c.screen = r.screen /\ c.tried = r.tried /\ c.blob = r.blob
         /\ c.scrolls = r.scrolls /\ c.scores = r.scores
<1>1. r.acted \in Nat /\ r.acted + 1 \in Nat
  BY CallFields
<1>2. Acknowledged(r) = [r EXCEPT !.acted = r.acted + 1]
  BY DEF Acknowledged
<1> QED
  BY <1>1, <1>2 DEF CallRecords

LEMMA AnsweredCall ==
  ASSUME NEW r \in CallRecords, NEW a \in Answers
  PROVE  LET c == Answered(r, a) IN
         /\ c \in CallRecords /\ c.acted = r.acted /\ c.late = r.late
         /\ c.at = "answered" /\ c.answer = a /\ c.kind = r.kind /\ c.arg = r.arg
         /\ c.screen = r.screen /\ c.tried = r.tried /\ c.blob = r.blob
         /\ c.scrolls = r.scrolls /\ c.scores = r.scores
  BY DEF Answered, CallRecords, Places

\* A call that is not a search.
LEMMA OtherCall ==
  ASSUME NEW c \in CallRecords, Fits(c), ~IsSearch(c),
         c.acted = c.late + c.scrolls + Said(c), c.late <= LateMax(c)
  PROVE  CallInv(c)
<1>1. Balance(c)
  BY DEF Balance, Told, IsSearch
<1>2. Healing(c)
  BY DEF Healing
<1> QED
  BY <1>1, <1>2 DEF CallInv

LEMMA TapElementInv ==
  ASSUME IInv, NEW t \in Threads, TapElement(t)
  PROVE  IInv'
<1> DEFINE r == th[t]
           c == IF r.kind = "text" THEN Answered(Acknowledged(r), "tapped")
                ELSE [Acknowledged(r) EXCEPT !.at = "learn"]
<1>1. /\ r \in CallRecords /\ CallInv(r) /\ r.at = "tap" /\ r.kind \in {"tap", "text"}
      /\ r.answer = "none" /\ r.acted = r.scrolls /\ r.late = 0 /\ r.acted \in Nat
  <2>1. r \in CallRecords /\ CallInv(r) /\ r.at = "tap"
    BY ThisCall DEF TapElement
  <2> QED
    BY <2>1, Untried, CallFields DEF CallInv, Fits
<1>2. CASE \E d \in Raised(r) : Goes(t, Answered(d, "error"))
  BY <1>1, <1>2, ErrorInv
<1>3. CASE Goes(t, c) /\ r.kind = "text"
  <2>1. c = Answered(Acknowledged(r), "tapped")
    BY <1>3
  <2>2. /\ c \in CallRecords /\ c.at = "answered" /\ c.kind = "text" /\ c.answer = "tapped"
        /\ c.acted = r.acted + 1 /\ c.late = r.late /\ c.scrolls = r.scrolls
    <3> DEFINE d == Acknowledged(r)
    <3>1. /\ d \in CallRecords /\ d.kind = "text" /\ d.acted = r.acted + 1
          /\ d.late = r.late /\ d.scrolls = r.scrolls
      BY <1>1, <1>3, AcknowledgedCall
    <3>2. c = Answered(d, "tapped") /\ "tapped" \in Answers
      BY <2>1 DEF Answers
    <3> HIDE DEF c, d, r
    <3> QED
      BY <3>1, <3>2, AnsweredCall
  <2> HIDE DEF c, r
  <2>3. Fits(c) /\ ~IsSearch(c) /\ ~Holds(c)
    BY <2>2 DEF Fits, IsSearch, Holds
  <2>4. c.acted = c.late + c.scrolls + Said(c) /\ c.late <= LateMax(c)
    BY <1>1, <2>2 DEF Said, LateMax
  <2>5. CallInv(c)
    BY <2>2, <2>3, <2>4, OtherCall
  <2> QED
    BY <1>3, <2>2, <2>3, <2>5, GoesInv DEF r
<1>4. CASE Goes(t, c) /\ r.kind = "tap"
  <2>1. c = [Acknowledged(r) EXCEPT !.at = "learn"]
    BY <1>4
  <2>2. /\ c \in CallRecords /\ c.at = "learn" /\ c.kind = "tap" /\ c.answer = "none"
        /\ c.acted = r.acted + 1 /\ c.late = r.late /\ c.arg = r.arg /\ c.screen = r.screen
        /\ c.tried = r.tried /\ c.blob = r.blob /\ c.scrolls = r.scrolls
    <3> DEFINE d == Acknowledged(r)
    <3>1. /\ d \in CallRecords /\ d.kind = "tap" /\ d.answer = "none"
          /\ d.acted = r.acted + 1 /\ d.late = r.late /\ d.arg = r.arg
          /\ d.screen = r.screen /\ d.tried = r.tried /\ d.blob = r.blob
          /\ d.scrolls = r.scrolls
      BY <1>1, <1>4, AcknowledgedCall
    <3>2. c = [d EXCEPT !.at = "learn"] /\ "learn" \in Places
      BY <2>1 DEF Places
    <3> HIDE DEF c, d, r
    <3> QED
      BY <3>1, <3>2, MovedCall
  <2> HIDE DEF c, r
  <2>3. /\ r.arg \in DOMAIN SelectorOf /\ r.tried # <<>> /\ TriedInOrder(r) /\ Matched(r)
        /\ Holds(c) => Holds(r)
    BY <1>1, <1>4, <2>2 DEF CallInv, Fits, Healing, IsSearch, Holds
  <2>4. TriedInOrder(c) /\ Matched(c)
    BY <2>2, <2>3, SameSearch
  <2>5. Fits(c) /\ Healing(c)
    BY <2>2, <2>3, <2>4 DEF Fits, Healing, IsSearch
  <2>6. Balance(c)
    BY <1>1, <2>2, <2>4 DEF Balance, Told, Said, LateMax
  <2>7. Holds(c) => blobs[c.blob] = "whole"
    BY <2>2, <2>3, ThisCall DEF r
  <2> QED
    BY <1>4, <2>2, <2>5, <2>6, <2>7, GoesInv DEF CallInv
<1> QED
  BY <1>1, <1>2, <1>3, <1>4 DEF TapElement

LEMMA LearnInv ==
  ASSUME IInv, NEW t \in Threads, Learn(t)
  PROVE  IInv'
<1> DEFINE r == th[t]
           done == IF ~Matched(r) THEN "unmatched"
                   ELSE IF r.kind = "tap" THEN "tapped" ELSE "found"
<1>1. /\ r \in CallRecords /\ CallInv(r) /\ r.at = "learn" /\ IsSearch(r)
      /\ r.acted \in Nat /\ r.late \in Nat
  <2>1. r \in CallRecords /\ CallInv(r) /\ r.at = "learn"
    BY ThisCall DEF Learn
  <2> QED
    BY <2>1, CallFields DEF CallInv, Fits
<1>2. Holds(r) => blobs[r.blob] = "whole"
  BY ThisCall
<1>3. PICK a \in {done, "unlearned"} : th' = [th EXCEPT ![t] = Answered(r, a)]
  BY DEF Learn
<1>4. screen' = screen /\ tracker' = tracker /\ blobs' = blobs
  BY DEF Learn, Env
<1> DEFINE c == Answered(r, a)
<1>5. a \in Answers \ {"none"}
  BY DEF Answers
<1>6. /\ c \in CallRecords /\ c.at = "answered" /\ c.answer = a /\ c.kind = r.kind
      /\ c.acted = r.acted /\ c.late = r.late /\ c.arg = r.arg /\ c.screen = r.screen
      /\ c.tried = r.tried /\ c.blob = r.blob /\ c.scrolls = r.scrolls
  BY <1>1, <1>5 DEF Answered, CallRecords, Places
<1> HIDE DEF c, r
<1>7. /\ Matched(c) <=> Matched(r)
      /\ TriedInOrder(c) <=> TriedInOrder(r)
      /\ AllTried(c) <=> AllTried(r)
  BY <1>6, SameSearch
<1>8. /\ r.arg \in DOMAIN SelectorOf /\ r.tried # <<>> /\ TriedInOrder(r)
      /\ Matched(r) \/ (r.kind = "tap" /\ AllTried(r))
  BY <1>1 DEF CallInv, Fits, Healing
<1>9. r.answer = "none" /\ r.kind \in {"find", "tap"}
  BY <1>1 DEF CallInv, Fits, IsSearch
<1>10. /\ r.acted = r.late + r.scrolls + IF r.kind = "tap" /\ Matched(r) THEN 1 ELSE 0
       /\ r.late <= 0
  BY <1>1, <1>9 DEF CallInv, Balance, Told, Said, LateMax
<1>11. \/ a = "unlearned"
       \/ a = "unmatched" /\ ~Matched(r)
       \/ a = "tapped" /\ Matched(r) /\ r.kind = "tap"
       \/ a = "found" /\ Matched(r) /\ r.kind = "find"
  BY <1>3, <1>9
<1>12. Fits(c)
  BY <1>1, <1>5, <1>6, <1>8 DEF Fits, IsSearch
<1>13. Balance(c)
  BY <1>1, <1>6, <1>7, <1>9, <1>10, <1>11 DEF Balance, Told, Said, LateMax
<1>14. Healing(c)
  BY <1>6, <1>7, <1>8, <1>11 DEF Healing, IsSearch
<1>15. Counted(tracker') /\ blobs' \in [Contents -> {"absent", "whole"}]
  BY <1>4 DEF IInv, Types
<1>16. CallInv(c) /\ (Holds(c) => Holds(r))
  BY <1>1, <1>6, <1>12, <1>13, <1>14 DEF CallInv, Holds
<1>17. th' = [th EXCEPT ![t] = c]
  BY <1>3 DEF c, r
<1> QED
  BY <1>2, <1>4, <1>6, <1>15, <1>16, <1>17, OneCall

LEMMA TextInv ==
  ASSUME IInv, NEW t \in Threads, DumpText(t) \/ Swipe(t)
  PROVE  IInv'
<1> DEFINE r == th[t]
           d == [r EXCEPT !.screen = screen]
<1>1. r \in CallRecords /\ CallInv(r) /\ r.at \in {"dumpText", "swipe"} /\ r.kind = "text"
  BY ThisCall DEF DumpText, Swipe, CallInv, Fits
<1>2. /\ r.answer = "none" /\ r.acted = r.scrolls /\ r.late = 0
      /\ r.scrolls \in 0..(MaxScroll - 1)
  BY <1>1, Untried, CallFields
<1>3. screen \in Screens
  BY DEF IInv, Types
<1>4. CASE Goes(t, Answered(r, "error"))
  BY <1>1, <1>4, ErrorInv DEF Raised
<1>5. ASSUME NEW c \in CallRecords, c.at \in {"tap", "swipe", "dumpText", "answered"},
             c.kind = "text", c.acted = c.scrolls, c.late = 0,
             c.answer = IF c.at = "answered" THEN "unmatched" ELSE "none",
             c.at = "swipe" => c.scrolls < MaxScroll - 1, Goes(t, c)
      PROVE  IInv'
  <2> HIDE DEF r
  <2>1. Fits(c) /\ ~IsSearch(c) /\ ~Holds(c)
    BY <1>5 DEF Fits, IsSearch, Holds
  <2>2. c.acted = c.late + c.scrolls + Said(c) /\ c.late <= LateMax(c)
    <3>1. c.acted \in Nat /\ Said(c) = 0
      BY <1>5, CallFields DEF Said
    <3> QED
      BY <1>5, <3>1 DEF LateMax
  <2>3. CallInv(c)
    BY <1>5, <2>1, <2>2, OtherCall
  <2> QED
    BY <1>5, <2>1, <2>3, GoesInv
<1>6. /\ [d EXCEPT !.at = "tap"] \in CallRecords
      /\ [d EXCEPT !.at = "swipe"] \in CallRecords
      /\ Answered(d, "unmatched") \in CallRecords
  <2>1. d \in CallRecords
    BY <1>1, <1>3 DEF CallRecords
  <2>2. "tap" \in Places /\ "swipe" \in Places /\ "unmatched" \in Answers
    BY DEF Places, Answers
  <2> HIDE DEF d
  <2> QED
    BY <2>1, <2>2, MovedCall, AnsweredCall
<1>7. CASE Goes(t, [d EXCEPT !.at = "tap"])
  <2> DEFINE c == [d EXCEPT !.at = "tap"]
  <2>1. /\ c \in CallRecords /\ c.at = "tap" /\ c.kind = "text" /\ c.acted = c.scrolls
        /\ c.late = 0 /\ c.answer = "none"
    BY <1>1, <1>2, <1>6 DEF CallRecords
  <2> HIDE DEF c, r
  <2> QED
    BY <1>5, <1>7, <2>1 DEF c
<1>8. CASE ~LastDump(d) /\ Goes(t, [d EXCEPT !.at = "swipe"])
  <2> DEFINE c == [d EXCEPT !.at = "swipe"]
  <2>1. /\ c \in CallRecords /\ c.at = "swipe" /\ c.kind = "text" /\ c.acted = c.scrolls
        /\ c.late = 0 /\ c.answer = "none" /\ c.scrolls = r.scrolls
    BY <1>1, <1>2, <1>6 DEF CallRecords
  <2>2. r.scrolls # MaxScroll - 1
    BY <1>1, <1>8 DEF LastDump, CallRecords
  <2> HIDE DEF c, r
  <2>3. c.scrolls < MaxScroll - 1
    BY <1>2, <2>1, <2>2
  <2> QED
    BY <1>5, <1>8, <2>1, <2>3 DEF c
<1>9. CASE Goes(t, Answered(d, "unmatched"))
  <2> DEFINE c == Answered(d, "unmatched")
  <2>1. /\ c \in CallRecords /\ c.at = "answered" /\ c.kind = "text" /\ c.acted = c.scrolls
        /\ c.late = 0 /\ c.answer = "unmatched"
    BY <1>1, <1>2, <1>6 DEF CallRecords, Answered
  <2> HIDE DEF c, r
  <2> QED
    BY <1>5, <1>9, <2>1 DEF c
<1>10. ASSUME Swipe(t), Goes(t, [Acknowledged(r) EXCEPT !.at = "dumpText", !.scrolls = @ + 1])
       PROVE  IInv'
  <2> DEFINE d1 == Acknowledged(r)
             c == [d1 EXCEPT !.at = "dumpText", !.scrolls = @ + 1]
  <2>1. r.scrolls + 1 \in 0..(MaxScroll - 1)
    <3>1. r.scrolls < MaxScroll - 1
      BY <1>1, <1>10 DEF Swipe, CallInv, Fits
    <3> HIDE DEF r
    <3> QED
      BY <1>2, <3>1
  <2>2. /\ d1 \in CallRecords /\ d1.acted = r.acted + 1 /\ d1.late = 0 /\ d1.kind = "text"
        /\ d1.answer = "none" /\ d1.scrolls = r.scrolls
    BY <1>1, <1>2, AcknowledgedCall
  <2>3. Goes(t, c)
    BY <1>10
  <2> HIDE DEF d1, r
  <2>4. /\ c \in CallRecords /\ c.at = "dumpText" /\ c.kind = "text" /\ c.acted = c.scrolls
        /\ c.late = 0 /\ c.answer = "none"
    BY <1>2, <2>1, <2>2 DEF CallRecords, Places
  <2> HIDE DEF c
  <2> QED
    BY <1>5, <2>3, <2>4
<1>11. CASE Swipe(t) /\ \E c \in Raised(r) : Goes(t, Answered(c, "error"))
  BY <1>1, <1>11, ErrorInv
<1> QED
  BY <1>4, <1>7, <1>8, <1>9, <1>10, <1>11 DEF DumpText, Swipe

\* A launch that was acknowledged, and one that goes on to its next method.
LEMMA LaunchedInv ==
  ASSUME IInv, NEW t \in Threads, th[t].at \in {"start", "monkey", "guess"},
         Goes(t, Answered(Acknowledged(th[t]), "launched"))
  PROVE  IInv'
<1> DEFINE r == th[t]
           d == Acknowledged(r)
           c == Answered(d, "launched")
<1>1. r \in CallRecords /\ CallInv(r) /\ r.kind = "launch"
  BY ThisCall DEF CallInv, Fits
<1>2. r.acted = r.late + r.scrolls /\ r.late <= 2 /\ r.late \in Nat /\ r.scrolls \in Nat
  BY <1>1, Untried DEF LateMax
<1>3. /\ d \in CallRecords /\ d.kind = "launch" /\ d.acted = r.acted + 1
      /\ d.late = r.late /\ d.scrolls = r.scrolls
  BY <1>1, AcknowledgedCall
<1>4. "launched" \in Answers
  BY DEF Answers
<1> HIDE DEF d
<1>5. /\ c \in CallRecords /\ c.kind = "launch" /\ c.acted = r.acted + 1 /\ c.late = r.late
      /\ c.at = "answered" /\ c.answer = "launched" /\ c.scrolls = r.scrolls
  BY <1>3, <1>4, AnsweredCall
<1>6. Goes(t, c)
  BY DEF d
<1> HIDE DEF c, r
<1>7. Fits(c) /\ ~IsSearch(c) /\ ~Holds(c)
  BY <1>5 DEF Fits, IsSearch, Holds
<1>8. c.acted = c.late + c.scrolls + Said(c) /\ c.late <= LateMax(c)
  BY <1>2, <1>5 DEF Said, LateMax
<1>9. CallInv(c)
  BY <1>5, <1>7, <1>8, OtherCall
<1> QED
  BY <1>5, <1>6, <1>7, <1>9, GoesInv

LEMMA NextMethodInv ==
  ASSUME IInv, NEW t \in Threads, NEW place \in {"start", "monkey"}, th[t].at = place,
         NEW d \in Raised(th[t]), NEW next,
         next = IF place = "start" THEN "monkey" ELSE "guess",
         Goes(t, [d EXCEPT !.at = next])
  PROVE  IInv'
<1> DEFINE r == th[t]
           c == [d EXCEPT !.at = next]
<1>1. r \in CallRecords /\ CallInv(r) /\ r.kind = "launch"
  BY ThisCall DEF CallInv, Fits
<1>2. /\ d \in CallRecords /\ d.kind = "launch" /\ d.answer = r.answer
      /\ d.scrolls = r.scrolls
  BY <1>1, RaisedCall
<1>3. PICK e \in {0, 1} : d.acted = r.acted + e /\ d.late = r.late + e
  BY <1>1, RaisedCall
<1>4. /\ r.acted = r.late + r.scrolls /\ r.late <= LateMax(r) /\ r.answer = "none"
      /\ r.late \in Nat /\ r.scrolls \in Nat
  BY <1>1, Untried
<1>5. next \in {"monkey", "guess"} /\ next \in Places
  BY DEF Places
<1> HIDE DEF r, c
<1>6. /\ c \in CallRecords /\ c.kind = "launch" /\ c.acted = d.acted /\ c.late = d.late
      /\ c.scrolls = d.scrolls /\ c.at = next /\ c.answer = "none"
  BY <1>2, <1>4, <1>5, MovedCall DEF c
<1>7. Fits(c) /\ ~IsSearch(c) /\ ~Holds(c)
  BY <1>5, <1>6 DEF Fits, IsSearch, Holds
<1>8. c.late <= LateMax(c)
  <2>1. r.late + 1 <= IF next = "monkey" THEN 1 ELSE 2
    BY <1>4 DEF LateMax, r
  <2> QED
    BY <1>3, <1>4, <1>5, <1>6, <2>1 DEF LateMax
<1>9. c.acted = c.late + c.scrolls + Said(c)
  BY <1>2, <1>3, <1>4, <1>6 DEF Said
<1>10. CallInv(c)
  BY <1>6, <1>7, <1>8, <1>9, OtherCall
<1> QED
  BY <1>6, <1>7, <1>10, GoesInv DEF c

\* resolve-activity does nothing to the device.
LEMMA ResolveInv ==
  ASSUME IInv, NEW t \in Threads, Resolve(t)
  PROVE  IInv'
<1> DEFINE r == th[t]
<1>1. r \in CallRecords /\ CallInv(r) /\ r.at = "resolve" /\ r.kind = "launch"
  BY ThisCall DEF Resolve, CallInv, Fits
<1>2. r.acted = r.scrolls /\ r.late = 0 /\ r.scrolls \in Nat /\ r.answer = "none"
  BY <1>1, Untried
<1>3. PICK next \in {"start", "monkey"} : Goes(t, [r EXCEPT !.at = next])
  BY DEF Resolve
<1> DEFINE c == [r EXCEPT !.at = next]
<1>4. next \in Places /\ Goes(t, c)
  BY <1>3 DEF Places
<1> HIDE DEF r
<1>5. /\ c \in CallRecords /\ c.kind = "launch" /\ c.acted = c.scrolls /\ c.late = 0
      /\ c.scrolls = r.scrolls /\ c.at = next /\ c.answer = "none"
  BY <1>1, <1>2, <1>4, MovedCall
<1> HIDE DEF c
<1>6. Fits(c) /\ ~IsSearch(c) /\ ~Holds(c)
  BY <1>5 DEF Fits, IsSearch, Holds
<1>7. c.acted = c.late + c.scrolls + Said(c) /\ c.late <= LateMax(c)
  BY <1>2, <1>5 DEF Said, LateMax
<1>8. CallInv(c)
  BY <1>5, <1>6, <1>7, OtherCall
<1> QED
  BY <1>4, <1>5, <1>6, <1>8, GoesInv

LEMMA LaunchInv ==
  ASSUME IInv, NEW t \in Threads,
         Resolve(t) \/ StartResolved(t) \/ StartMonkey(t) \/ StartGuess(t)
  PROVE  IInv'
<1>1. ASSUME NEW place \in {"start", "monkey"}, NEW next,
             next = IF place = "start" THEN "monkey" ELSE "guess", Method(t, place, next)
      PROVE  IInv'
  <2>1. th[t].at = place /\ th[t].at \in {"start", "monkey", "guess"}
    BY <1>1 DEF Method
  <2> QED
    BY <1>1, <2>1, LaunchedInv, NextMethodInv DEF Method
<1>2. CASE StartGuess(t)
  BY <1>2, LaunchedInv, ErrorInv DEF StartGuess
<1> QED
  BY <1>1, <1>2, ResolveInv DEF StartResolved, StartMonkey

------------------------------------------------------------------------------
(* Every step.                                                              *)

LEMMA CrashInv ==
  ASSUME IInv, Crash
  PROVE  IInv'
<1>1. /\ th' = [t \in Threads |-> Idle] /\ tracker' = <<>> /\ screen' = screen
      /\ blobs' = blobs
  BY DEF Crash
<1>2. Types'
  <2>1. DOMAIN <<>> = {}
    OBVIOUS
  <2>2. Counted(tracker')
    BY <1>1, <2>1 DEF Counted
  <2> QED
    BY <1>1, <2>2, IdleCall DEF IInv, Types
<1>3. \A t \in Threads : th'[t] = Idle
  BY <1>1
<1> QED
  BY <1>2, <1>3, IdleCall DEF IInv

LEMMA UnchangedInv ==
  ASSUME IInv, screen' \in Screens, UNCHANGED <<th, tracker, blobs>>
  PROVE  IInv'
<1>1. th' = th /\ tracker' = tracker /\ blobs' = blobs
  OBVIOUS
<1>2. Types'
  BY <1>1 DEF IInv, Types, Counted
<1> QED
  BY <1>1, <1>2 DEF IInv

LEMMA InitInv == Init => IInv
<1> SUFFICES ASSUME Init PROVE IInv
  OBVIOUS
<1>1. Types
  <2>1. Counted(tracker)
    BY DEF Init
  <2> QED
    BY <2>1, IdleCall DEF Init, BlobInit, Types
<1>2. \A t \in Threads : th[t] = Idle
  BY DEF Init
<1> QED
  BY <1>1, <1>2, IdleCall DEF IInv

LEMMA StepInv == IInv /\ [Next]_vars => IInv'
<1> SUFFICES ASSUME IInv, [Next]_vars PROVE IInv'
  OBVIOUS
<1>1. CASE ScreenChanges
  BY <1>1, UnchangedInv DEF ScreenChanges, Shared
<1>2. CASE Crash
  BY <1>2, CrashInv
<1>3. CASE UNCHANGED vars
  BY <1>3, UnchangedInv DEF vars, IInv, Types
<1>4. ASSUME NEW t \in Threads, NEW k \in Kinds, NEW a \in Arguments(k), Begin(t, k, a)
      PROVE  IInv'
  BY <1>4, BeginInv
<1>5. ASSUME NEW t \in Threads,
             \/ Dump(t) \/ Detect(t) \/ Capture(t)
             \/ CheckBlob(t) \/ WriteBlob(t) \/ Publish(t)
      PROVE  IInv'
  BY <1>5, DumpInv, CaptureInv, CheckBlobInv, WriteBlobInv, PublishInv
<1>6. ASSUME NEW t \in Threads,
             \/ TryOriginal(t) \/ ReadSuccesses(t) \/ ReadFailures(t) \/ TryFallback(t)
             \/ TapElement(t) \/ Learn(t)
      PROVE  IInv'
  BY <1>6, TryOriginalInv, ReadInv, TryFallbackInv, TapElementInv, LearnInv
<1>7. ASSUME NEW t \in Threads,
             \/ DumpText(t) \/ Swipe(t) \/ Return(t)
             \/ Resolve(t) \/ StartResolved(t) \/ StartMonkey(t) \/ StartGuess(t)
      PROVE  IInv'
  BY <1>7, TextInv, LaunchInv, ReturnInv
<1> QED
  BY <1>1, <1>2, <1>3, <1>4, <1>5, <1>6, <1>7 DEF Next

\* The invariant holds in every state of every run.
THEOREM ToolsInvariance == Spec => []IInv
  BY InitInv, StepInv, PTL DEF Spec

------------------------------------------------------------------------------
(* What the tools promise.                                                  *)

\* What a call learns is one of the store's entries.
LEMMA LearnsKeys ==
  ASSUME IInv, NEW t \in Threads, Learn(t)
  PROVE  \E s \in Stores, k \in Keys : Remember(s, k) \/ RememberUnsaved(s, k)
<1> DEFINE r == th[t]
           store == IF Matched(r) THEN "skill" ELSE "failure"
           name == IF ~Matched(r) THEN r.arg
                   ELSE IF r.kind = "tap" THEN "tap_last" ELSE "find_last"
           key == <<r.app, name>>
<1>1. Remember(store, key) \/ RememberUnsaved(store, key)
  BY DEF Learn
<1>2. r \in CallRecords /\ CallInv(r) /\ r.at = "learn"
  BY ThisCall DEF Learn
<1>3. r.app \in Apps /\ r.arg \in DOMAIN SelectorOf
  BY <1>2, CallFields DEF CallInv, Fits
<1>4. name \in {"find_last", "tap_last"} \cup DOMAIN SelectorOf
  BY <1>3
<1>5. store \in Stores
  OBVIOUS
<1> HIDE DEF name, store, r
<1>6. key \in Keys
  BY <1>3, <1>4
<1> HIDE DEF key
<1> QED
  BY <1>1, <1>5, <1>6

LEMMA MemoryStep == IInv /\ [Next]_vars => [MemoryNext]_memoryVars
<1> SUFFICES ASSUME IInv, [Next]_vars PROVE [MemoryNext]_memoryVars
  OBVIOUS
<1>1. CASE ScreenChanges
  BY <1>1 DEF ScreenChanges, Shared
<1>2. CASE Crash
  BY <1>2 DEF Crash, MemoryNext
<1>3. CASE UNCHANGED vars
  BY <1>3 DEF vars
<1>4. ASSUME NEW t \in Threads, NEW k \in Kinds, NEW a \in Arguments(k), Begin(t, k, a)
      PROVE  UNCHANGED memoryVars
  BY <1>4 DEF Begin, Shared
<1>5. ASSUME NEW t \in Threads, Learn(t) PROVE MemoryNext
  BY <1>5, LearnsKeys DEF MemoryNext
<1>6. ASSUME NEW t \in Threads, Dump(t) \/ Detect(t) \/ Capture(t) \/ Return(t)
      PROVE  UNCHANGED memoryVars
  BY <1>6 DEF Dump, Detect, Capture, Return, Goes, Shared
<1>7. ASSUME NEW t \in Threads, CheckBlob(t) \/ WriteBlob(t) \/ Publish(t)
      PROVE  UNCHANGED memoryVars
  BY <1>7 DEF CheckBlob, WriteBlob, Publish, Goes, Shared
<1>8. ASSUME NEW t \in Threads,
             TryOriginal(t) \/ ReadSuccesses(t) \/ ReadFailures(t) \/ TryFallback(t)
      PROVE  UNCHANGED memoryVars
  BY <1>8 DEF TryOriginal, ReadSuccesses, ReadFailures, TryFallback, Try, Goes, Shared
<1>9. ASSUME NEW t \in Threads, TapElement(t) \/ DumpText(t) \/ Swipe(t)
      PROVE  UNCHANGED memoryVars
  BY <1>9 DEF TapElement, DumpText, Swipe, Goes, Shared
<1>10. ASSUME NEW t \in Threads,
              Resolve(t) \/ StartResolved(t) \/ StartMonkey(t) \/ StartGuess(t)
       PROVE  UNCHANGED memoryVars
  BY <1>10 DEF Resolve, StartResolved, StartMonkey, StartGuess, Method, Goes, Shared
<1> QED
  BY <1>1, <1>2, <1>3, <1>4, <1>5, <1>6, <1>7, <1>8, <1>9, <1>10 DEF Next

\* Whatever the tools do, they use the memory as a memory store: each step of
\* theirs is one of its steps or leaves it alone.  (ui_find_elements and
\* ui_tap_element, remember_skill and remember_failure)
THEOREM ToolsUseMemory == Spec => MemorySpec
<1>1. Init => MemoryInit
  BY DEF Init
<1> QED
  BY <1>1, ToolsInvariance, MemoryStep, PTL DEF Spec, MemorySpec

\* Nothing a call was told was remembered is lost.
THEOREM ToolsKeepMemory == Spec => []MemoryKept
  BY ToolsUseMemory, MemoryIsKept, PTL

\* Every call is at a place its kind has, with values of its fields; the
\* tracker, the stores and the blobs hold what they may hold.
THEOREM ToolsTypeCorrect == Spec => []ToolsTypeOK
<1>1. MemorySpec => []MemoryInv
  BY MemoryInitInv, MemoryStepInv, PTL DEF MemorySpec
<1>2. ASSUME IInv, MemoryInv PROVE ToolsTypeOK
  <2>1. blobs \in [Contents -> {"absent", "partial", "whole"}]
    BY <1>2 DEF IInv, Types
  <2>2. ASSUME NEW t \in Threads
        PROVE  /\ th[t].at \in Places /\ th[t].answer \in Answers
               /\ (th[t].at = "answered") = (th[t].answer # "none")
               /\ th[t].screen \in Screens \cup {NoScreen} /\ th[t].app \in Apps
               /\ th[t].blob \in Contents \cup {NoBlob}
               /\ th[t].scrolls \in 0..(MaxScroll - 1)
    BY <1>2, ThisCall, CallFields DEF CallInv, Fits
  <2> QED
    BY <1>2, <2>1, <2>2 DEF ToolsTypeOK, IInv, Types, MemoryInv, MemoryTypeOK
<1> QED
  BY <1>1, <1>2, ToolsInvariance, ToolsUseMemory, PTL

\* A search that reports a hit has one, with the first strategy that has; one
\* that reports none has tried everything the selector gives, whatever other
\* calls counted meanwhile.  (SelfHealingSelector.find)
THEOREM SearchesAreHonest == Spec => []HealingIsHonest
<1>1. ASSUME IInv PROVE HealingIsHonest
  <2> SUFFICES ASSUME NEW t \in Threads, Searched(th[t])
               PROVE  LET c == th[t] IN
                      /\ c.tried[1] = Original(c) /\ IsInjective(c.tried)
                      /\ \A i \in 2..Len(c.tried) : c.tried[i] \in Derived(c)
                      /\ \A i \in 1..(Len(c.tried) - 1) : ~Hits(c, c.tried[i])
                      /\ c.at = "tap" \/ c.answer \in {"found", "tapped"} => Matched(c)
                      /\ c.answer = "unmatched" =>
                           \A s \in {Original(c)} \cup Derived(c) :
                             ~Hits(c, s) /\ Contains(c.tried, s)
    BY DEF HealingIsHonest
  <2>1. Healing(th[t]) /\ IsSearch(th[t]) /\ th[t].tried # <<>>
    BY <1>1, ThisCall DEF CallInv, Searched, IsSearch
  <2> QED
    BY <2>1 DEF Healing, TriedInOrder, AllTried
<1> QED
  BY <1>1, ToolsInvariance, PTL

\* What a tool answers and what it did to the device agree: the tap or launch
\* it tells of and the swipes of tap_text's search happened once each, and all
\* else was commands that took effect and timed out: one at most, ending the
\* call with an error, or, in a launch, up to one for each of its methods.
\* (launch_app, tap_text, ui_tap_element)
THEOREM AnswersAreTrue == Spec => []AnswersMatchDevice
<1>1. ASSUME IInv, NEW t \in Threads, th[t].at = "answered"
      PROVE  /\ th[t].acted = Said(th[t]) + th[t].scrolls + th[t].late
             /\ th[t].late <= IF th[t].kind = "launch" THEN 3 - Said(th[t])
                              ELSE IF th[t].answer = "error" THEN 1 ELSE 0
  <2> DEFINE c == th[t]
  <2>1. Balance(c) /\ c.acted \in Nat /\ c.late \in Nat /\ c.scrolls \in Nat
    BY <1>1, ThisCall, CallFields DEF CallInv
  <2>2. Told(c) = Said(c) /\ Said(c) \in {0, 1}
    BY <1>1 DEF Told, Said
  <2>3. c.at = "answered"
    BY <1>1
  <2> HIDE DEF c
  <2>4. /\ c.acted = Said(c) + c.scrolls + c.late
        /\ c.late <= IF c.kind = "launch" THEN 3 - Said(c)
                     ELSE IF c.answer = "error" THEN 1 ELSE 0
    BY <2>1, <2>2, <2>3 DEF Balance, LateMax
  <2> QED
    BY <2>4 DEF c
<1>2. IInv => AnswersMatchDevice
  BY <1>1 DEF AnswersMatchDevice
<1> QED
  BY <1>2, ToolsInvariance, PTL

\* A reference that a caller holds is to a whole content.  (LocalBlobStore.put)
THEOREM ReferencesHold == Spec => []RefsReadable
<1>1. ASSUME IInv, NEW t \in Threads, th[t].blob # NoBlob,
             \/ th[t].at \in {"match", "score", "penalty", "fallback", "learn"}
             \/ th[t].answer \in {"found", "captured"}
      PROVE  blobs[th[t].blob] = "whole"
  BY <1>1, ThisCall DEF Holds
<1>2. IInv => RefsReadable
  BY <1>1 DEF RefsReadable
<1> QED
  BY <1>2, ToolsInvariance, PTL
==============================================================================
