------------------------------ MODULE Selectors ------------------------------
(***************************************************************************)
(* Finding a node in a dump: what the parser makes of the XML, what a      *)
(* selector matches, and the fallback selectors self-healing derives.      *)
(*                                                                         *)
(* A label (a text, a description) is the set of its words, {} when the    *)
(* attribute is absent or empty; contained in means subset.  A selector    *)
(* may also ask for the label "", Blank, which no node has.  A resource id *)
(* is a package and a name in words; a selector may leave the package out. *)
(* Of the boolean predicates one stands for all: clickable.                *)
(***************************************************************************)
EXTENDS Confidence, FiniteSets, TLC

None == {}
Blank == {""}
NoId == [package |-> "", words |-> None]

\* What Python takes as true: neither None nor "".
Given(label) == label \notin {None, Blank}

\* A selector that leaves everything open.
AnyNode == [text |-> None, text_contains |-> None, resource_id |-> NoId,
            description |-> None, class_name |-> "any", clickable |-> "any",
            match |-> "first"]

------------------------------------------------------------------------------
(* uiautomator_parser: the XML is a sequence of elements in document order, *)
(* each with its depth.                                                    *)

\* The last element inside element i.
LastInside(xml, i) ==
  CHOOSE j \in i..Len(xml) :
    /\ \A k \in (i + 1)..j : xml[k].depth > xml[i].depth
    /\ j = Len(xml) \/ xml[j + 1].depth <= xml[i].depth

\* _walk_node appends a node after its children have been: children come
\* before their parent, siblings in document order.
Walk(xml) ==
  LET Before(i, j) == \/ LastInside(xml, i) < LastInside(xml, j)
                      \/ LastInside(xml, i) = LastInside(xml, j) /\ i > j
        order == SortSeq([i \in DOMAIN xml |-> i], Before)
  IN [n \in DOMAIN xml |-> xml[order[n]]]

------------------------------------------------------------------------------
(* contract/ui.py                                                          *)

IdMatches(id, wanted) ==
  id # NoId /\ id.words = wanted.words /\ wanted.package \in {"", id.package}

\* _node_matches_selector.
NodeMatches(node, sel) ==
  /\ IF sel.text # None THEN node.text = sel.text
     ELSE sel.text_contains # None =>
            node.text # None /\ sel.text_contains \subseteq node.text \cup Blank
  /\ sel.description # None => node.description = sel.description
  /\ sel.resource_id # NoId => IdMatches(node.resource_id, sel.resource_id)
  /\ sel.class_name # "any" => node.class_name = sel.class_name
  /\ sel.clickable # "any" => node.clickable = sel.clickable

Longest(nodes) ==
  LET Label(n) == IF n.text # None THEN n.text ELSE n.description
      Length(i) == Cardinality(Label(nodes[i]))
  IN nodes[CHOOSE i \in DOMAIN nodes :
             /\ \A j \in DOMAIN nodes : Length(j) <= Length(i)
             /\ \A j \in 1..(i - 1) : Length(j) < Length(i)]

\* WorldState.find.
FindNodes(nodes, sel) ==
  LET matches == SelectSeq(nodes, LAMBDA n : NodeMatches(n, sel)) IN
  CASE matches = <<>> \/ sel.match = "all" -> matches
    [] matches # <<>> /\ sel.match = "last" -> <<matches[Len(matches)]>>
    [] matches # <<>> /\ sel.match = "best" -> <<Longest(matches)>>
    [] matches # <<>> /\ sel.match = "first" -> <<matches[1]>>

------------------------------------------------------------------------------
(* perception/selector.py                                                  *)

\* _classify_selector: the first predicate that is set, in this order.
Classify(sel) ==
  LET isSet == [TEXT_EXACT |-> sel.text # None, RESOURCE_ID |-> sel.resource_id # NoId,
                DESCRIPTION |-> sel.description # None,
                TEXT_CONTAINS |-> sel.text_contains # None,
                CLASS_NAME |-> sel.class_name # "any", BOUNDS_ONLY |-> TRUE]
      asked == <<"TEXT_EXACT", "RESOURCE_ID", "DESCRIPTION", "TEXT_CONTAINS",
                 "CLASS_NAME", "BOUNDS_ONLY">>
  IN asked[CHOOSE i \in 1..6 : isSet[asked[i]] /\ \A j \in 1..(i - 1) : ~isSet[asked[j]]]

\* _generate_fallbacks: a function from the strategies that can be derived to
\* their selectors.  Only the match strategy is carried over: the other
\* predicates of the selector are dropped.
Fallbacks(sel) ==
  LET value == IF Given(sel.text) THEN sel.text ELSE sel.description
      id == sel.resource_id
      meaningful == id.words \cup (IF id.package = "" THEN {} ELSE {id.package})
      base == [AnyNode EXCEPT !.match = sel.match]
      contains == IF Given(value) /\ sel.text_contains = None THEN value
                  ELSE IF Given(id.words) THEN meaningful ELSE None
      derived ==
        {x \in {<<"DESCRIPTION", [base EXCEPT !.description = value]>>} :
           Given(value) /\ sel.description = None}
        \cup {x \in {<<"TEXT_CONTAINS", [base EXCEPT !.text_contains = contains]>>} :
           contains # None}
        \cup {x \in {<<"CLASS_NAME",
                       [base EXCEPT !.text_contains = value,
                          !.class_name = IF sel.class_name \notin {"any", ""}
                                         THEN sel.class_name ELSE "Button"]>>} :
           Given(value)}
        \cup {x \in {<<"TEXT_EXACT", [base EXCEPT !.text = sel.text_contains]>>} :
           Given(sel.text_contains) /\ sel.text = None}
  IN [s \in {x[1] : x \in derived} |-> (CHOOSE x \in derived : x[1] = s)[2]]

\* A strategy comes before another when it is trusted more; equals stay in the
\* order of their declaration (sort is stable).
Before(s, u, stats) ==
  LET Rank(x) == CHOOSE i \in DOMAIN StrategyOrder : StrategyOrder[i] = x
      Key(x) == SortKey(x, stats[x])
  IN Key(s) > Key(u) \/ (Key(s) = Key(u) /\ Rank(s) < Rank(u))

\* get_fallback_order, as far as the strategies of S: the n-th has n - 1 of
\* them before it.
FallbackOrder(S, stats) ==
  [n \in 1..Cardinality(S) |->
     CHOOSE s \in S : Cardinality({u \in S : Before(u, s, stats)}) = n - 1]
==============================================================================
