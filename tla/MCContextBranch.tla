--------------------------- MODULE MCContextBranch ---------------------------
(* Values of the constants of ContextBranch for the model checker: a scalar *)
(* "state", an array "log", and the patches somebody may submit.            *)
EXTENDS ContextBranch

Pair == {1, 2}
Triple == {1, 2, 3}
OneScalar == {"state"}
OneList == {"log"}
Empty == [state |-> <<>>, log |-> <<>>]

Op(kind, path, value) == [kind |-> kind, path |-> path, value |-> value]
Add(path, element) == [kind |-> "append", path |-> path, element |-> element]
Proposal(operation, ops) == [operation |-> operation, ops |-> ops]

Log == <<"log">>
State == <<"state">>

\* Two patches share the element e, as when one message is written again.
Mixed == {
    Proposal("p1", <<Add(Log, "e")>>),
    Proposal("p2", <<Add(Log, "e"), Add(Log, "f"), Op("add", State, <<"x">>)>>),
    Proposal("p3", <<Op("test", State, <<"x">>), Op("remove", State, <<>>)>>),
    Proposal("p4", <<Op("replace", <<"log", 1>>, "g")>>),
    Proposal("p5", <<Op("replace", Root, [state |-> <<"y">>, log |-> <<"h">>])>>)}
Appends == {
    Proposal("p1", <<Add(Log, "e")>>),
    Proposal("p2", <<Add(Log, "f")>>),
    Proposal("p3", <<Add(Log, "e"), Op("add", State, <<"x">>)>>),
    Proposal("p4", <<Op("add", State, <<"y">>)>>)}
Submitted == Mixed \cup Appends
Indexed == {
    Proposal("p0", <<Op("add", Log, <<"a", "b", "c">>)>>),
    Proposal("p1", <<Op("remove", <<"log", 1>>, <<>>)>>),
    Proposal("p2", <<Op("replace", <<"log", 2>>, "d")>>)}
=============================================================================
