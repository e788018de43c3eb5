------------------------------ MODULE MCGraphRun ------------------------------
(***************************************************************************)
(* The graphs, limits and durations TLC checks GraphRun on.                *)
(***************************************************************************)
EXTENDS GraphRun

\* a duration, or a limit, that no behaviour reaches
Never == 9

\* in -> out
PairNodes  == {"in", "out"}
PairEdges  == {1}
PairSource == [e \in PairEdges |-> "in"]
PairTarget == [e \in PairEdges |-> "out"]
PairNone   == [n \in PairNodes |-> {}]
PairZero   == [n \in PairNodes |-> 0]
PairNever  == [n \in PairNodes |-> Never]
PairWaits  == [n \in PairNodes |-> IF n = "out" THEN {"response", "timer"} ELSE {}]
PairRetry  == [n \in PairNodes |-> IF n = "out" THEN 2 ELSE 0]
PairSlow   == [n \in PairNodes |-> IF n = "out" THEN 1 ELSE Never]

\* in -> route -> out
ChainNodes  == {"in", "route", "out"}
ChainEdges  == {1, 2}
ChainSource == [e \in ChainEdges |-> IF e = 1 THEN "in" ELSE "route"]
ChainTarget == [e \in ChainEdges |-> IF e = 1 THEN "route" ELSE "out"]
ChainNone   == [n \in ChainNodes |-> {}]
ChainOnce   == [n \in ChainNodes |-> IF n = "route" THEN 1 ELSE 0]
ChainSlow   == [n \in ChainNodes |-> IF n = "out" THEN 1 ELSE Never]
ChainRetry  == [n \in ChainNodes |-> IF n = "out" THEN 2 ELSE 0]

\* left and right start together and meet in out
VeeNodes  == {"left", "right", "out"}
VeeEdges  == {1, 2}
VeeSource == [e \in VeeEdges |-> IF e = 1 THEN "left" ELSE "right"]
VeeTarget == [e \in VeeEdges |-> "out"]
VeeNone   == [n \in VeeNodes |-> {}]
VeeZero   == [n \in VeeNodes |-> 0]
VeeNever  == [n \in VeeNodes |-> Never]

\* in -> route, which selects among two edges to merge and one to side;
\* merge -> out
FanNodes  == {"in", "route", "merge", "side", "out"}
FanEdges  == {1, 2, 3, 4, 5}
FanSource == [e \in FanEdges |-> CASE e = 1 -> "in" [] e \in {2, 3, 4} -> "route" [] e = 5 -> "merge"]
FanTarget == [e \in FanEdges |-> CASE e = 1 -> "route" [] e \in {2, 3} -> "merge"
                                   [] e = 4 -> "side" [] e = 5 -> "out"]
FanNone   == [n \in FanNodes |-> {}]
FanZero   == [n \in FanNodes |-> 0]
FanOnce   == [n \in FanNodes |-> IF n = "route" THEN 1 ELSE 0]
FanNever  == [n \in FanNodes |-> Never]
FanOut    == {"side", "out"}

InEntry   == {"in"}
VeeEntry  == {"left", "right"}
Route     == {"route"}
Merge     == {"merge"}
Out       == {"out"}
===============================================================================
