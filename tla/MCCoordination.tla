--------------------------- MODULE MCCoordination ---------------------------
(* Graphs and arrays for small instances of Coordination. *)
EXTENDS Coordination

\* two Expands feed the ports of a join, whose results are collected
JoinSource == [e \in 1..5 |-> CASE e \in {1, 2} -> "start" [] e = 3 -> "left" [] e = 4 -> "right" [] e = 5 -> "join"]
JoinTarget == [e \in 1..5 |-> CASE e = 1 -> "left" [] e = 2 -> "right" [] e \in {3, 4} -> "join" [] e = 5 -> "collect"]
JoinEdges == 1..5
Join == {"join"}
Collect1 == {"collect"}
FirstTwo == {1, 2}
None0 == {}

Keys == {"a", "b", "odd", "bad"}
Odd == {"odd"}
Bad == {"bad"}
LeftRight == {"left", "right"}
JoinArrays == [n \in LeftRight |->
    IF n = "left" THEN {<<"a", "b">>, <<"a", "a">>, <<"odd">>}
    ELSE {<<>>, <<"b", "a">>, <<"a", "a">>, <<"odd">>, <<"bad">>}]

\* one Expand feeds an Aggregator
FeedSource == [e \in 1..2 |-> IF e = 1 THEN "start" ELSE "left"]
FeedTarget == [e \in 1..2 |-> IF e = 1 THEN "left" ELSE "collect"]
FeedEdges == 1..2
Left == {"left"}
FeedArrays == [n \in Left |-> {<<>>, <<"a", "b">>}]
First == {1}
=============================================================================
