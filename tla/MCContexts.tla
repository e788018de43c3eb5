----------------------------- MODULE MCContexts -----------------------------
(***************************************************************************)
(* Three views of contexts for the model checker.  On the first, with two   *)
(* branches, patches of every kind are submitted; on the second, with       *)
(* three, appends and merges of merges; the third is one branch that the    *)
(* nodes of a run read and write.  Which of them a behaviour is about is    *)
(* chosen in its initial state, the variables of the others sleep.          *)
(***************************************************************************)
EXTENDS MCContextBranch

CONSTANTS Places, Else, Records, MaxAttempts, MaxReadReconciles, MaxEdits, MaxChanges

VARIABLES which, config, run, nodes, lineage, memory

(* A Router and a writer, or two writers, all at one place of the document. *)
Written == [place : {"a"}, op : {"add", "append", "replace", "remove"}]
Bound == [place : {"a"}, context : {"snapshot", "validate_on_commit"},
          memory : {"snapshot", "validate_on_commit"}, required : BOOLEAN]
RunGraphs ==
    [router : Bound, writer : {w \in Written : w.op \in {"add", "append"}}]
    \cup [other : Written, writer : {w \in Written : w.op \in {"replace", "append"}}]

ASSUME Views == Pair \cup Triple \subseteq Branches /\ Mixed \cup Appends \subseteq Proposals
ASSUME SomebodyElse == "a" \in Places /\ Else \notin {"router", "other", "writer"}

Run == INSTANCE RunContext WITH Graphs <- RunGraphs

store == <<commits, branches, projection, snapshots>>
access == <<config, run, nodes, lineage, memory>>

StoreSleeps == commits = 0 /\ branches = 0 /\ projection = 0 /\ snapshots = 0
AccessSleeps == config = 0 /\ run = 0 /\ nodes = 0 /\ lineage = 0 /\ memory = 0

ContextsInit ==
    /\ which \in {"patches", "merges", "runs"}
    /\ IF which = "runs" THEN Run!Init ELSE AccessSleeps
    /\ IF which = "runs" THEN StoreSleeps ELSE Init
ContextsNext ==
    \/ which = "patches" /\ StepsOn(Pair, Mixed, DOMAIN commits) /\ UNCHANGED <<which, access>>
    \/ which = "merges" /\ StepsOn(Triple, Appends, {}) /\ UNCHANGED <<which, access>>
    \/ which = "runs" /\ Run!Next /\ UNCHANGED <<which, store>>
ContextsSpec == ContextsInit /\ [][ContextsNext]_<<which, store, access>>

\* The document kept beside each head is the one its history replays to.
HeadsReplay ==
    IF which = "runs" THEN Run!TypeOK ELSE TypeOK /\ ProjectionIsReplay
\* No patch is accepted where what it names is not what its author saw.
StaleWritesRefused == which # "runs" => NoStaleWrite
\* A merge loses no change and repeats no element of either side.
MergesKeepBothSides == which # "runs" => MergeKeepsBothSides
\* What a node of a run completes with rests on what it has read: a Router's decision on
\* what it would read now, a static write on the place as its node saw it; and a node that
\* does not complete writes nothing.
ResultsRestOnReads ==
    [][which = "runs" => Run!ResultHolds]_<<which, access>>
=============================================================================
