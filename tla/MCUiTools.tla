------------------------------ MODULE MCUiTools ------------------------------
(* The instance of UiTools that TLC checks: a login screen whose button says
   more than its label, and a screen where the label is a description.  A
   description is asked for before a contained text, until it has failed once
   more than that: one failure, before the run or between two reads of the
   scores, changes the order of the fallbacks. *)
EXTENDS UiTools

CONSTANTS t1, t2

MCThreads == {t1, t2}
MCScreens == {"login", "menu"}
Element(depth, text, description, name) ==
  [depth |-> depth, text |-> text, description |-> description,
   resource_id |-> [package |-> "app", words |-> name],
   class_name |-> "Button", clickable |-> TRUE]
MCXml == [s \in MCScreens |->
            IF s = "login"
            THEN <<Element(0, {"title"}, {}, {"bar"}), Element(1, {"log", "in"}, {}, {"ok"}),
                   Element(0, {"log"}, {"in"}, {"cancel"})>>
            ELSE <<Element(0, {}, {"log"}, {"menu"})>>]
MCApp == [s \in MCScreens |-> "app"]
MCSelectorOf == [byText |-> [AnyNode EXCEPT !.text = {"log"}, !.match = "best"],
                 byId |-> [AnyNode EXCEPT !.resource_id =
                             [package |-> "", words |-> {"in"}]]]
MCTexts == {{"log", "in"}}
MCKinds == {"find", "tap", "text", "launch", "shot"}
MCHistories ==
  {<<>>, <<"app", "find", "DESCRIPTION">> :> [success |-> 0, failure |-> 1]}
MCStores == {"skill", "failure"}
MCKeys == Apps \X ({"find_last", "tap_last"} \cup DOMAIN SelectorOf)
MCContents == {"xml", "png"} \X (Screens \cup {NoScreen})
Symmetry == Permutations(Threads)
==============================================================================
