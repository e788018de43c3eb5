--------------------------- MODULE ContextsProofs ---------------------------
(***************************************************************************)
(* What contexts owe their readers, proved for every set of branches,      *)
(* patches, places and records and for every bound.  The invariant of      *)
(* RunContext says what an open attempt knows of the branch it read; the    *)
(* one of ContextBranch, that every document kept beside a head or in a     *)
(* snapshot follows from the first parent of its commit, that every         *)
(* appended item is told apart by its origin, that every merge has kept     *)
(* both sides, and what every patch was checked against.  A behaviour of    *)
(* MCContexts is about one of the two, so that the theorems at the end,     *)
(* about the properties of the run Contexts, follow from both.              *)
(***************************************************************************)
EXTENDS MCContexts, FiniteSetTheorems, SequenceTheorems, WellFoundedInduction, TLAPS

-----------------------------------------------------------------------------
(* The nodes of a run.                                                      *)
\* An open attempt knows no more of the branch and of memory
\* than there is; what it found is what it would find, as long as memory's token is the
\* one it was given; a writer has its commit exactly when it has completed.
Findings == (UNION {[D -> Nat] : D \in SUBSET Records}) \cup {<<>>}
Attempt == [status : {"idle", "open", "completed", "failed"}, no : Nat, rereads : Nat, head : Nat,
            base : Nat, found : Findings, revision : Nat]
LineageRow == [by : Run!Writers \cup {Else}, place : Places, op : Run!Ops]
MemoryView == [version : [Records -> Nat], obsolete : SUBSET Records, revision : Nat]
RunTyped ==
    /\ config \in RunGraphs /\ run \in {"running", "failed"}
    /\ nodes \in [DOMAIN config -> Attempt]
    /\ lineage \in Seq(LineageRow)
    /\ memory \in MemoryView
Mine(w) == {i \in DOMAIN lineage : lineage[i].by = w}
Knows(n, row) ==
    row.status = "open" =>
        /\ row.head <= Len(lineage)
        /\ n \in Run!Writers => row.base = row.head
        /\ n \in Run!Routers =>
             /\ row.revision <= memory.revision
             /\ row.revision = memory.revision => row.found = Run!Found
WritesHold(w) ==
    /\ nodes[w].status = "completed" => \E k : Mine(w) = {k}
    /\ nodes[w].status # "completed" => Mine(w) = {}
RunInv ==
    /\ RunTyped
    /\ \A n \in DOMAIN config : Knows(n, nodes[n])
    /\ \A w \in Run!Writers : WritesHold(w)

\* What a graph says of its nodes.
LEMMA GraphsOfRuns ==
  ASSUME NEW g \in RunGraphs
  PROVE  /\ DOMAIN g \subseteq {"router", "other", "writer"}
         /\ \A n \in DOMAIN g : g[n] \in Bound \/ g[n] \in Written
<1>1. CASE g \in [router : Bound, writer : {w \in Written : w.op \in {"add", "append"}}]
  <2>1. DOMAIN g = {"router", "writer"} /\ g["router"] \in Bound /\ g["writer"] \in Written
    BY <1>1
  <2> QED BY <2>1
<1>2. CASE g \in [other : Written, writer : {w \in Written : w.op \in {"replace", "append"}}]
  <2>1. DOMAIN g = {"other", "writer"} /\ g["other"] \in Written /\ g["writer"] \in Written
    BY <1>2
  <2> QED BY <2>1
<1> QED BY <1>1, <1>2 DEF RunGraphs

\* Nobody else is a node.
LEMMA NodesAreNamed ==
  ASSUME RunTyped
  PROVE  /\ DOMAIN config \subseteq {"router", "other", "writer"} /\ Else \notin DOMAIN config
         /\ Run!Nodes = DOMAIN config
         /\ \A n \in DOMAIN config : (n \in Run!Routers \/ n \in Run!Writers) /\ ~(n \in Run!Routers /\ n \in Run!Writers)
         /\ \A n \in Run!Routers : n \in DOMAIN config
         /\ \A w \in Run!Writers : w \in DOMAIN config /\ config[w].op \in Run!Ops /\ config[w].place \in Places
<1>1. DOMAIN config \subseteq {"router", "other", "writer"} /\ \A n \in DOMAIN config : config[n] \in Bound \/ config[n] \in Written
  BY GraphsOfRuns DEF RunTyped
<1>2. ASSUME NEW w \in DOMAIN config, "context" \notin DOMAIN config[w]
      PROVE  config[w].op \in Run!Ops /\ config[w].place \in Places
  <2>1. config[w] \in Written
    BY <1>1, <1>2 DEF Bound
  <2> QED BY <2>1, SomebodyElse DEF Written, Run!Ops
<1> QED BY <1>1, <1>2, SomebodyElse DEF Run!Nodes, Run!Routers, Run!Writers

\* The view of memory, and a lineage, as numbers.
LEMMA RunRows ==
  ASSUME RunTyped
  PROVE  /\ Len(lineage) \in Nat /\ DOMAIN lineage = 1..Len(lineage) /\ Run!Tip = Len(lineage)
         /\ memory.revision \in Nat /\ memory.version \in [Records -> Nat] /\ memory.obsolete \subseteq Records
         /\ Run!Found \in Findings
         /\ \A n \in DOMAIN config : nodes[n] \in Attempt
<1>1. Len(lineage) \in Nat /\ DOMAIN lineage = 1..Len(lineage)
  BY DEF RunTyped
<1>2. memory.revision \in Nat /\ memory.version \in [Records -> Nat] /\ memory.obsolete \subseteq Records
  BY DEF RunTyped, MemoryView
<1>3. Run!Found \in Findings
  <2> DEFINE D == {r \in Records : memory.version[r] > 0} \ memory.obsolete
  <2>1. D \in SUBSET Records
    OBVIOUS
  <2>2. Run!Found \in [D -> Nat]
    BY <1>2 DEF Run!Found
  <2> HIDE DEF D
  <2> QED BY <2>1, <2>2 DEF Findings
<1> QED BY <1>1, <1>2, <1>3 DEF RunTyped, Run!Tip

\* The graph of a run does not change.
LEMMA GraphStays ==
  ASSUME UNCHANGED config
  PROVE  Run!Writers' = Run!Writers /\ Run!Routers' = Run!Routers /\ LineageRow' = LineageRow
BY DEF Run!Writers, Run!Routers, Run!Nodes, LineageRow

\* A step that changes one attempt, and nothing of the branch or of memory.
LEMMA AttemptChanges ==
  ASSUME RunInv, NEW n \in DOMAIN config, NEW row \in Attempt, nodes' = [nodes EXCEPT ![n] = row],
         UNCHANGED <<config, lineage, memory>>, run' \in {"running", "failed"}, Knows(n, row),
         n \in Run!Writers => (row.status = "completed" <=> nodes[n].status = "completed")
  PROVE  RunInv'
<1>1. RunTyped'
  BY GraphStays DEF RunInv, RunTyped
<1>2. Run!Found' = Run!Found /\ Run!Writers' = Run!Writers /\ Run!Routers' = Run!Routers
  BY DEF Run!Found, Run!Writers, Run!Routers, Run!Nodes
<1>3. \A m \in DOMAIN config : nodes'[m] = IF m = n THEN row ELSE nodes[m]
  BY DEF RunInv, RunTyped
<1>4. ASSUME NEW m \in DOMAIN config' PROVE Knows(m, nodes[m])'
  <2>1. Knows(m, nodes'[m])
    BY <1>3, <1>4 DEF RunInv
  <2> QED BY <1>2, <2>1 DEF Knows
<1>5. ASSUME NEW w \in Run!Writers' PROVE WritesHold(w)'
  <2>1. w \in Run!Writers /\ w \in DOMAIN config
    BY <1>2, NodesAreNamed DEF RunInv
  <2>2. nodes'[w].status = "completed" <=> nodes[w].status = "completed"
    BY <1>3, <2>1
  <2>3. WritesHold(w)
    BY <2>1 DEF RunInv
  <2>4. Mine(w)' = Mine(w)
    BY DEF Mine
  <2> QED BY <2>2, <2>3, <2>4 DEF WritesHold
<1> QED BY <1>1, <1>4, <1>5 DEF RunInv

\* The run ends with the node that fails.
LEMMA RunFails ==
  ASSUME RunInv, NEW n \in DOMAIN config, Run!FailRun(n), nodes[n].status # "completed"
  PROVE  RunInv' /\ ~(\E m \in DOMAIN config : nodes[m].status = "open" /\ nodes'[m].status = "completed")
<1> DEFINE row == [nodes[n] EXCEPT !.status = "failed"]
<1>1. nodes[n] \in Attempt
  BY DEF RunInv, RunTyped
<1>2. row \in Attempt /\ row.status = "failed"
  BY <1>1 DEF Attempt
<1>3. nodes' = [nodes EXCEPT ![n] = row] /\ run' = "failed" /\ UNCHANGED <<config, lineage, memory>>
  BY DEF Run!FailRun
<1> HIDE DEF row
<1>4. RunInv'
  BY <1>2, <1>3, AttemptChanges DEF Knows
<1>5. \A m \in DOMAIN config : nodes'[m] = IF m = n THEN row ELSE nodes[m]
  BY <1>3 DEF RunInv, RunTyped
<1> QED BY <1>2, <1>4, <1>5

\* An attempt is opened on what there is.
LEMMA ReadOpens ==
  ASSUME RunInv, NEW n \in DOMAIN config, NEW no \in Nat, NEW rereads \in Nat, Run!Read(n, no, rereads),
         UNCHANGED <<config, run, lineage, memory>>, nodes[n].status # "completed"
  PROVE  RunInv' /\ ~(\E m \in DOMAIN config : nodes[m].status = "open" /\ nodes'[m].status = "completed")
<1> DEFINE found == IF n \in Run!Routers THEN Run!Found ELSE <<>>
           revision == IF n \in Run!Routers THEN memory.revision ELSE 0
           row == [status |-> "open", no |-> no, rereads |-> rereads, head |-> Run!Tip,
                   base |-> Run!Base(n), found |-> found, revision |-> revision]
<1>1. Run!Tip \in Nat /\ Run!Base(n) \in Nat /\ found \in Findings /\ revision \in Nat /\ Run!Tip = Len(lineage)
  BY RunRows DEF RunInv, Run!Base, Findings
<1>2. n \in Run!Writers => Run!Base(n) = Run!Tip
  BY DEF Run!Base
<1>3. n \in Run!Routers => revision = memory.revision /\ found = Run!Found
  OBVIOUS
<1>4. nodes' = [nodes EXCEPT ![n] = row]
  BY DEF Run!Read
<1> HIDE DEF found, revision
<1>5. row \in Attempt
  BY <1>1 DEF Attempt
<1>6. Knows(n, row)
  <2>1. Run!Tip <= Len(lineage) /\ memory.revision <= memory.revision
    BY <1>1, RunRows DEF RunInv
  <2> QED BY <1>2, <1>3, <2>1 DEF Knows
<1>7. row.status = "open"
  OBVIOUS
<1> HIDE DEF row
<1>8. run' \in {"running", "failed"}
  BY DEF RunInv, RunTyped
<1>9. RunInv'
  BY <1>4, <1>5, <1>6, <1>7, <1>8, AttemptChanges
<1>10. \A m \in DOMAIN config : nodes'[m] = IF m = n THEN row ELSE nodes[m]
  BY <1>4 DEF RunInv, RunTyped
<1> QED BY <1>7, <1>9, <1>10

\* A step that completes no node.
Quiet == ~(\E m \in DOMAIN config : nodes[m].status = "open" /\ nodes'[m].status = "completed")

\* A node that is activated reads, or fails the run.
LEMMA ActivateKeeps ==
  ASSUME RunInv, NEW n \in DOMAIN config, Run!Activate(n)
  PROVE  RunInv' /\ Quiet
<1>1. CASE Run!Read(n, 1, 0) /\ UNCHANGED <<config, run, lineage, memory>>
  <2>1. nodes[n].status # "completed" /\ 1 \in Nat /\ 0 \in Nat
    BY DEF Run!Activate
  <2> QED BY <1>1, <2>1, ReadOpens DEF Quiet
<1>2. CASE Run!FailRun(n)
  BY <1>2, RunFails DEF Run!Activate, Quiet
<1> QED BY <1>1, <1>2 DEF Run!Activate

\* A node whose attempt is replaced keeps what it has read.
LEMMA ReplaceKeeps ==
  ASSUME RunInv, NEW n \in DOMAIN config, Run!Replace(n)
  PROVE  RunInv' /\ Quiet
<1>0. nodes[n].status = "open" /\ run = "running"
  BY DEF Run!Replace, Run!Open
<1>1. CASE nodes' = [nodes EXCEPT ![n].no = @ + 1] /\ UNCHANGED <<config, run, lineage, memory>>
  <2> DEFINE no == nodes[n].no + 1
             row == [nodes[n] EXCEPT !.no = no]
  <2>1. nodes[n] \in Attempt /\ no \in Nat
    BY DEF RunInv, RunTyped, Attempt
  <2>2. nodes' = [nodes EXCEPT ![n] = row]
    BY <1>1
  <2> HIDE DEF no
  <2>3. /\ row \in Attempt /\ row.status = nodes[n].status /\ row.head = nodes[n].head /\ row.base = nodes[n].base
        /\ row.found = nodes[n].found /\ row.revision = nodes[n].revision
    BY <2>1 DEF Attempt
  <2> HIDE DEF row
  <2>4. Knows(n, nodes[n])
    BY DEF RunInv
  <2>5. Knows(n, row)
    BY <2>3, <2>4 DEF Knows
  <2>6. run' \in {"running", "failed"}
    BY <1>0, <1>1
  <2>7. RunInv'
    BY <1>1, <2>2, <2>3, <2>5, <2>6, AttemptChanges
  <2>8. \A m \in DOMAIN config : nodes'[m] = IF m = n THEN row ELSE nodes[m]
    BY <2>2 DEF RunInv, RunTyped
  <2> QED BY <1>0, <2>3, <2>7, <2>8 DEF Quiet
<1>2. CASE Run!FailRun(n)
  BY <1>0, <1>2, RunFails DEF Quiet
<1> QED BY <1>1, <1>2 DEF Run!Replace

\* A node that fails.
LEMMA FailKeeps ==
  ASSUME RunInv, NEW n \in DOMAIN config, Run!Fail(n)
  PROVE  RunInv' /\ Quiet
BY RunFails DEF Run!Fail, Run!Open, Quiet

\* A Router that reads again.
LEMMA ReconcileKeeps ==
  ASSUME RunInv, NEW r \in Run!Routers, Run!Reconcile(r)
  PROVE  RunInv' /\ Quiet
<1>0. r \in DOMAIN config /\ nodes[r].status = "open"
  BY DEF Run!Reconcile, Run!Open, Run!Routers, Run!Nodes
<1>1. CASE Run!Read(r, nodes[r].no + 1, nodes[r].rereads + 1) /\ UNCHANGED <<config, run, lineage, memory>>
  <2>1. nodes[r].no + 1 \in Nat /\ nodes[r].rereads + 1 \in Nat
    BY <1>0 DEF RunInv, RunTyped, Attempt
  <2> QED BY <1>0, <1>1, <2>1, ReadOpens DEF Quiet
<1>2. CASE Run!FailRun(r)
  BY <1>0, <1>2, RunFails DEF Quiet
<1> QED BY <1>1, <1>2 DEF Run!Reconcile

\* A Router that decides has read what is there.
LEMMA DecideKeeps ==
  ASSUME RunInv, NEW r \in Run!Routers, Run!Decide(r)
  PROVE  /\ RunInv'
         /\ Run!DecidesOnPresent(r)
         /\ \A m \in DOMAIN config : nodes[m].status = "open" /\ nodes'[m].status = "completed" => m = r
<1> DEFINE row == [nodes[r] EXCEPT !.status = "completed"]
<1>1. r \in DOMAIN config /\ r \notin Run!Writers
  BY DEF Run!Routers, Run!Writers, Run!Nodes
<1>2. row \in Attempt /\ row.status = "completed"
  BY <1>1 DEF RunInv, RunTyped, Attempt
<1>3. nodes' = [nodes EXCEPT ![r] = row] /\ UNCHANGED <<config, run, lineage, memory>>
  BY DEF Run!Decide, Run!Complete
<1> HIDE DEF row
<1>4. run' \in {"running", "failed"}
  BY <1>3 DEF RunInv, RunTyped
<1>5. RunInv'
  BY <1>1, <1>2, <1>3, <1>4, AttemptChanges DEF Knows
<1>6. \A m \in DOMAIN config : nodes'[m] = IF m = r THEN row ELSE nodes[m]
  BY <1>3 DEF RunInv, RunTyped
<1>7. nodes[r].status = "open" /\ ~Run!HasConflict(r) /\ Knows(r, nodes[r])
  BY <1>1 DEF Run!Decide, Run!Open, RunInv
<1>8. Run!DecidesOnPresent(r)
  BY <1>7 DEF Run!DecidesOnPresent, Run!HasConflict, Knows
<1> QED BY <1>5, <1>6, <1>8

\* One more commit of the branch: the attempts know as much as before, and it is one more
\* of those who wrote it.
LEMMA CommitAdds ==
  ASSUME RunInv, NEW by \in Run!Writers \cup {Else}, NEW place \in Places, NEW op \in Run!Ops,
         Run!Commit(by, place, op), UNCHANGED config
  PROVE  /\ lineage' \in Seq(LineageRow) /\ Len(lineage') = Len(lineage) + 1
         /\ \A w : w # by => Mine(w)' = Mine(w)
         /\ Mine(by)' = Mine(by) \cup {Len(lineage) + 1}
<1> DEFINE new == [by |-> by, place |-> place, op |-> op]
<1>1. new \in LineageRow /\ new.by = by
  BY DEF LineageRow
<1>2. lineage \in Seq(LineageRow) /\ lineage' = Append(lineage, new)
  BY DEF RunInv, RunTyped, Run!Commit
<1> HIDE DEF new
<1>3. /\ Len(lineage) \in Nat /\ lineage' \in Seq(LineageRow) /\ Len(lineage') = Len(lineage) + 1
      /\ \A i \in 1..Len(lineage) : lineage'[i] = lineage[i]
      /\ lineage'[Len(lineage) + 1] = new
      /\ DOMAIN lineage = 1..Len(lineage) /\ DOMAIN lineage' = 1..(Len(lineage) + 1)
  BY <1>1, <1>2
<1>4. ASSUME NEW w PROVE Mine(w)' = Mine(w) \cup (IF w = by THEN {Len(lineage) + 1} ELSE {})
  <2>1. Mine(w)' = {i \in 1..(Len(lineage) + 1) : lineage'[i].by = w}
    BY <1>3 DEF Mine
  <2>2. Mine(w) = {i \in 1..Len(lineage) : lineage[i].by = w}
    BY <1>3 DEF Mine
  <2>3. \A i \in 1..(Len(lineage) + 1) : i \in 1..Len(lineage) \/ i = Len(lineage) + 1
    BY <1>3
  <2>4. 1..Len(lineage) \subseteq 1..(Len(lineage) + 1) /\ Len(lineage) + 1 \in 1..(Len(lineage) + 1)
    BY <1>3
  <2> QED BY <1>1, <1>3, <2>1, <2>2, <2>3, <2>4
<1>5. \A w : w # by => Mine(w)' = Mine(w)
  BY <1>4
<1>6. Mine(by)' = Mine(by) \cup {Len(lineage) + 1}
  BY <1>4
<1> QED BY <1>3, <1>5, <1>6

\* What an attempt knows of the branch it knows of a longer one.
LEMMA KnowsStill ==
  ASSUME RunInv, NEW n \in DOMAIN config, Knows(n, nodes[n]), UNCHANGED <<config, memory>>, nodes'[n] = nodes[n],
         Len(lineage') = Len(lineage) + 1
  PROVE  Knows(n, nodes[n])'
<1>1. Run!Found' = Run!Found /\ Run!Writers' = Run!Writers /\ Run!Routers' = Run!Routers
  BY DEF Run!Found, Run!Writers, Run!Routers, Run!Nodes
<1>2. nodes[n].head \in Nat /\ Len(lineage) \in Nat
  BY RunRows DEF RunInv, Attempt
<1>3. nodes[n].head <= Len(lineage) => nodes[n].head <= Len(lineage')
  BY <1>2
<1> QED BY <1>1, <1>3 DEF Knows

\* A writer that completes makes its one commit, over what it was activated on.
LEMMA WriteKeeps ==
  ASSUME RunInv, NEW w \in Run!Writers, Run!Write(w)
  PROVE  /\ RunInv'
         /\ \A m \in DOMAIN config : nodes[m].status = "open" /\ nodes'[m].status = "completed" => m = w /\ Run!WritesOverWhatItRead(w)
<1> DEFINE place == config[w].place
           op == config[w].op
           row == [nodes[w] EXCEPT !.status = "completed"]
<1>1. /\ w \in DOMAIN config /\ w \notin Run!Routers 
      /\ w # Else /\ op \in Run!Ops /\ place \in Places
  BY NodesAreNamed DEF RunInv
<1>2. nodes[w].status = "open" /\ run = "running" /\ Knows(w, nodes[w])
  BY <1>1 DEF Run!Write, Run!Open, RunInv
<1>3. CASE Run!FailRun(w)
  <2>1. RunInv' /\ ~(\E m \in DOMAIN config : nodes[m].status = "open" /\ nodes'[m].status = "completed")
    BY <1>1, <1>2, <1>3, RunFails
  <2> QED BY <2>1
<1>4. CASE /\ Run!Commit(w, place, op) /\ Run!Complete(w) /\ UNCHANGED <<config, run, memory>>
           /\ ~Run!ConflictsSince(nodes[w].base, place, op)
  <2>1. row \in Attempt /\ row.status = "completed"
    BY <1>1 DEF RunInv, RunTyped, Attempt
  <2>2. nodes' = [nodes EXCEPT ![w] = row]
    BY <1>4 DEF Run!Complete
  <2> HIDE DEF row
  <2>3. \A m \in DOMAIN config : nodes'[m] = IF m = w THEN row ELSE nodes[m]
    BY <2>2 DEF RunInv, RunTyped
  <2>4. /\ lineage' \in Seq(LineageRow) /\ Len(lineage') = Len(lineage) + 1
        /\ \A v : v # w => Mine(v)' = Mine(v)
        /\ Mine(w)' = Mine(w) \cup {Len(lineage) + 1}
    BY <1>1, <1>4, CommitAdds
  <2>5. RunTyped'
    BY <1>4, <2>1, <2>2, <2>4, GraphStays DEF RunInv, RunTyped
  <2>6. ASSUME NEW m \in DOMAIN config' PROVE Knows(m, nodes[m])'
    <3>1. CASE m = w
      BY <1>1, <1>4, <2>1, <2>3, <3>1 DEF Knows
    <3>2. CASE m # w
      <4>1. m \in DOMAIN config /\ Knows(m, nodes[m]) /\ nodes'[m] = nodes[m]
        BY <1>4, <2>3, <3>2 DEF RunInv
      <4> QED BY <1>4, <2>4, <4>1, KnowsStill
    <3> QED BY <3>1, <3>2
  <2>7. ASSUME NEW v \in Run!Writers' PROVE WritesHold(v)'
    <3>1. v \in Run!Writers /\ v \in DOMAIN config
      BY <1>4 DEF Run!Writers, Run!Nodes, Run!Routers
    <3>2. WritesHold(v)
      BY <3>1 DEF RunInv
    <3>3. CASE v = w
      <4>1. Mine(w) = {}
        BY <1>2, <3>2, <3>3 DEF WritesHold
      <4>2. Mine(w)' = {Len(lineage) + 1}
        BY <2>4, <4>1
      <4>3. nodes'[w].status = "completed"
        BY <1>1, <2>1, <2>3
      <4>4. \E k : Mine(w)' = {k}
        BY <4>2
      <4> QED BY <3>3, <4>3, <4>4 DEF WritesHold
    <3>4. CASE v # w
      BY <2>3, <2>4, <3>1, <3>2, <3>4 DEF WritesHold
    <3> QED BY <3>3, <3>4
  <2>8. Run!WritesOverWhatItRead(w)
    <3> DEFINE since == Run!Touching(place, Run!Tip) \ Run!Touching(place, nodes[w].head)
    <3>1. nodes[w].base = nodes[w].head /\ nodes[w].head \in Nat /\ Len(lineage) \in Nat /\ Run!Tip = Len(lineage)
      BY <1>1, <1>2, RunRows DEF Knows, RunInv, Attempt
    <3>2. ASSUME NEW i \in since PROVE op = "append" /\ lineage[i].op = "append"
      <4>1. i \in Run!Touching(place, Run!Tip) /\ i \in 1..Len(lineage) /\ i > nodes[w].base
        BY <3>1, <3>2 DEF Run!Touching
      <4> QED BY <1>4, <4>1 DEF Run!ConflictsSince
    <3> QED BY <3>2 DEF Run!WritesOverWhatItRead
  <2>9. RunInv'
    BY <2>5, <2>6, <2>7 DEF RunInv
  <2> QED BY <1>2, <2>3, <2>8, <2>9
<1> QED BY <1>3, <1>4 DEF Run!Write

\* Whoever else writes the branch leaves the nodes alone.
LEMMA EditKeeps ==
  ASSUME RunInv, NEW place \in Places, NEW op \in Run!Ops, Run!Edit(place, op)
  PROVE  RunInv' /\ Quiet
<1>1. Run!Commit(Else, place, op) /\ UNCHANGED <<config, run, nodes, memory>>
  BY DEF Run!Edit
<1>2. /\ lineage' \in Seq(LineageRow) /\ Len(lineage') = Len(lineage) + 1
      /\ \A w : w # Else => Mine(w)' = Mine(w)
  <2>1. Else \in Run!Writers \cup {Else}
    OBVIOUS
  <2> QED BY <1>1, <2>1, CommitAdds
<1>3. RunTyped'
  BY <1>1, <1>2, GraphStays DEF RunInv, RunTyped
<1>4. ASSUME NEW n \in DOMAIN config' PROVE Knows(n, nodes[n])'
  <2>1. n \in DOMAIN config /\ Knows(n, nodes[n]) /\ nodes'[n] = nodes[n]
    BY <1>1 DEF RunInv
  <2> QED BY <1>1, <1>2, <2>1, KnowsStill
<1>5. ASSUME NEW w \in Run!Writers' PROVE WritesHold(w)'
  <2>1. w \in Run!Writers
    BY <1>1 DEF Run!Writers, Run!Nodes, Run!Routers
  <2>2. w # Else /\ WritesHold(w)
    BY <2>1, NodesAreNamed DEF RunInv
  <2> QED BY <1>1, <1>2, <2>2 DEF WritesHold
<1> QED BY <1>1, <1>3, <1>4, <1>5 DEF RunInv, Quiet

\* A change of memory raises its token.
LEMMA RememberKeeps ==
  ASSUME RunInv, NEW m \in Records, NEW obsolete \in BOOLEAN, Run!Remember(m, obsolete)
  PROVE  RunInv' /\ Quiet
<1> DEFINE version == [memory.version EXCEPT ![m] = @ + 1]
           gone == IF obsolete THEN memory.obsolete \cup {m} ELSE memory.obsolete
           revision == memory.revision + 1
<1>1. UNCHANGED <<config, run, nodes, lineage>>
  BY DEF Run!Remember
<1>2. memory.revision \in Nat /\ memory.version \in [Records -> Nat] /\ memory.obsolete \subseteq Records
  BY RunRows DEF RunInv
<1>3. version \in [Records -> Nat] /\ gone \subseteq Records /\ revision \in Nat /\ revision > memory.revision
  BY <1>2
<1>4. memory' = [version |-> version, obsolete |-> gone, revision |-> revision]
  BY DEF Run!Remember
<1> HIDE DEF version, gone, revision
<1>5. memory' \in MemoryView /\ memory'.revision = revision
  BY <1>3, <1>4 DEF MemoryView
<1>6. RunTyped'
  BY <1>1, <1>5, GraphStays DEF RunInv, RunTyped
<1>7. Run!Writers' = Run!Writers /\ Run!Routers' = Run!Routers
  BY <1>1 DEF Run!Writers, Run!Routers, Run!Nodes
<1>8. ASSUME NEW n \in DOMAIN config' PROVE Knows(n, nodes[n])'
  <2>1. n \in DOMAIN config /\ Knows(n, nodes[n]) /\ nodes[n].revision \in Nat
    BY <1>1 DEF RunInv, RunTyped, Attempt
  <2>2. nodes[n].revision <= memory.revision => nodes[n].revision <= revision /\ nodes[n].revision # revision
    BY <1>2, <1>3, <2>1
  <2> QED BY <1>1, <1>5, <1>7, <2>1, <2>2 DEF Knows
<1>9. ASSUME NEW w \in Run!Writers' PROVE WritesHold(w)'
  <2>1. WritesHold(w) /\ Mine(w)' = Mine(w)
    BY <1>1, <1>7 DEF RunInv, Mine
  <2> QED BY <1>1, <2>1 DEF WritesHold
<1> QED BY <1>1, <1>6, <1>8, <1>9 DEF RunInv, Quiet

\* How many commits a writer has.
LEMMA CommitsAreCounted ==
  ASSUME RunInv, NEW w \in Run!Writers
  PROVE  Run!CommitsOf(w) = IF nodes[w].status = "completed" THEN 1 ELSE 0
<1>1. Run!CommitsOf(w) = Cardinality(Mine(w))
  BY DEF Run!CommitsOf, Mine, Run!Cardinality, Cardinality
<1>2. WritesHold(w)
  BY DEF RunInv
<1>3. CASE nodes[w].status = "completed"
  <2>1. PICK k : Mine(w) = {k}
    BY <1>2, <1>3 DEF WritesHold
  <2>2. Cardinality({k}) = 1
    BY FS_Singleton
  <2> QED BY <1>1, <1>3, <2>1, <2>2
<1>4. CASE nodes[w].status # "completed"
  <2>1. Cardinality({}) = 0
    BY FS_EmptySet
  <2> QED BY <1>1, <1>2, <1>4, <2>1 DEF WritesHold
<1> QED BY <1>3, <1>4

AllCounted == \A w \in Run!Writers : Run!CommitsOf(w) = IF nodes[w].status = "completed" THEN 1 ELSE 0
\* So has every writer.
LEMMA CommitsCount == RunInv => AllCounted
BY CommitsAreCounted DEF AllCounted

\* Every step of a run keeps what its attempts know, and completes a node only on that.
LEMMA RunAdvances ==
  ASSUME RunInv, Run!Next
  PROVE  RunInv' /\ Run!ResultHolds
<1> DEFINE Rests == \A n \in DOMAIN config : nodes[n].status = "open" /\ nodes'[n].status = "completed" =>
                      IF n \in Run!Routers THEN Run!DecidesOnPresent(n) ELSE Run!WritesOverWhatItRead(n)
<1>1. \A n \in Run!Nodes : n \in DOMAIN config
  BY DEF Run!Nodes
<1>2. ASSUME NEW n \in Run!Nodes, Run!Activate(n) \/ Run!Replace(n) \/ Run!Fail(n) PROVE RunInv' /\ Rests
  BY <1>1, <1>2, ActivateKeeps, ReplaceKeeps, FailKeeps DEF Quiet
<1>3. ASSUME NEW r \in Run!Routers, Run!Decide(r) PROVE RunInv' /\ Rests
  BY <1>3, DecideKeeps
<1>4. ASSUME NEW r \in Run!Routers, Run!Reconcile(r) PROVE RunInv' /\ Rests
  BY <1>4, ReconcileKeeps DEF Quiet
<1>5. ASSUME NEW w \in Run!Writers, Run!Write(w) PROVE RunInv' /\ Rests
  <2>1. w \notin Run!Routers
    BY DEF Run!Writers
  <2> QED BY <1>5, <2>1, WriteKeeps
<1>6. ASSUME NEW place \in Places, NEW op \in Run!Ops, Run!Edit(place, op) PROVE RunInv' /\ Rests
  BY <1>6, EditKeeps DEF Quiet
<1>7. ASSUME NEW m \in Records, NEW obsolete \in BOOLEAN, Run!Remember(m, obsolete) PROVE RunInv' /\ Rests
  BY <1>7, RememberKeeps DEF Quiet
<1>8. RunInv' /\ Rests
  BY <1>2, <1>3, <1>4, <1>5, <1>6, <1>7 DEF Run!Next
<1>9. config' = config
  BY DEF Run!Next, Run!Activate, Run!Replace, Run!Fail, Run!Decide, Run!Reconcile, Run!Write, Run!Edit, Run!Remember,
         Run!FailRun
<1>10. ASSUME NEW w \in Run!Writers PROVE Run!CommitsOf(w)' = IF nodes'[w].status = "completed" THEN 1 ELSE 0
  <2>1. w \in Run!Writers'
    BY <1>9, GraphStays
  <2>2. RunInv' => AllCounted'
    BY CommitsCount, PTL
  <2>3. AllCounted'
    BY <1>8, <2>2
  <2> QED BY <2>1, <2>3 DEF AllCounted
<1> QED BY <1>1, <1>8, <1>10 DEF Run!ResultHolds

\* A run begins with nothing read and nothing written.
LEMMA RunBegins ==
  ASSUME Run!Init
  PROVE  RunInv
<1>1. /\ config \in RunGraphs /\ run = "running" /\ nodes = [n \in DOMAIN config |-> Run!Idle] /\ lineage = <<>>
      /\ memory = [version |-> [m \in Records |-> 0], obsolete |-> {}, revision |-> 0]
  BY DEF Run!Init, Run!Nodes
<1>2. Run!Idle \in Attempt /\ Run!Idle.status = "idle"
  <2>1. <<>> \in Findings
    BY DEF Findings
  <2> QED BY <2>1 DEF Run!Idle, Attempt
<1>3. memory \in MemoryView
  BY <1>1 DEF MemoryView
<1>4. RunTyped
  BY <1>1, <1>2, <1>3 DEF RunTyped
<1>5. \A n \in DOMAIN config : nodes[n].status = "idle"
  BY <1>1, <1>2
<1>6. \A w : Mine(w) = {}
  BY <1>1 DEF Mine
<1> QED BY <1>4, <1>5, <1>6, NodesAreNamed DEF RunInv, Knows, WritesHold

\* Where nothing happens nothing is forgotten.
LEMMA RunSleeps ==
  ASSUME RunInv, UNCHANGED <<config, run, nodes, lineage, memory>>
  PROVE  RunInv'
<1>1. /\ Run!Writers' = Run!Writers /\ Run!Routers' = Run!Routers /\ LineageRow' = LineageRow
      /\ Run!Found' = Run!Found
  BY GraphStays DEF Run!Found
<1>2. RunTyped'
  BY <1>1 DEF RunInv, RunTyped
<1>3. \A n \in DOMAIN config' : Knows(n, nodes[n])'
  BY <1>1 DEF RunInv, Knows
<1>4. \A w \in Run!Writers' : WritesHold(w)'
  BY <1>1 DEF RunInv, WritesHold, Mine
<1> QED BY <1>2, <1>3, <1>4 DEF RunInv

\* The rows of a run have their types.
LEMMA RunIsTyped ==
  ASSUME RunInv
  PROVE  Run!TypeOK
<1>1. \A n \in Run!Nodes : config[n] \in Run!Bindings \cup Run!Writing
  <2>1. \A n \in DOMAIN config : config[n] \in Bound \/ config[n] \in Written
    BY GraphsOfRuns DEF RunInv, RunTyped
  <2>2. Bound \subseteq Run!Bindings /\ Written \subseteq Run!Writing
    BY SomebodyElse DEF Bound, Written, Run!Bindings, Run!Writing, Run!Ops
  <2> QED BY <2>1, <2>2 DEF Run!Nodes
<1>2. \A n \in Run!Nodes : nodes[n].status \in {"idle", "open", "completed", "failed"}
  BY DEF RunInv, RunTyped, Attempt, Run!Nodes
<1>3. lineage \in Seq([by : Run!Writers \cup {Else}, place : Places, op : Run!Ops])
  BY DEF RunInv, RunTyped, LineageRow
<1>4. DOMAIN memory.version = Records /\ memory.obsolete \subseteq Records
  BY RunRows DEF RunInv
<1> QED BY <1>1, <1>2, <1>3, <1>4 DEF Run!TypeOK, RunInv, RunTyped

-----------------------------------------------------------------------------
(* Documents and patches. A patch runs operation after operation: that each *)
(* value follows from the one before is shown by the smallest place at      *)
(* which it would not. Every document a patch of well-formed operations     *)
(* makes has all of its members, and a sequence where an array is.          *)
\* A set of numbers that is not empty has a least one.
LEMMA SmallestOf ==
  ASSUME NEW T \in SUBSET Nat, T # {}
  PROVE  \E k \in T : \A j \in T : k <= j
<1> DEFINE Below == {p \in Nat \X Nat : p[1] < p[2]}
<1>1. PICK k \in T : \A j \in T : ~(<<j, k>> \in Below)
  <2>1. IsWellFoundedOn(Below, Nat)
    BY NatLessThanWellFounded, Zenon DEF OpToRel
  <2> HIDE DEF Below
  <2> QED BY <2>1, WFMin
<1>2. ASSUME NEW j \in T PROVE k <= j
  <2>1. j \in Nat /\ k \in Nat
    OBVIOUS
  <2>2. ~(j < k)
    BY <1>1, <2>1
  <2> HIDE DEF Below
  <2> QED BY <2>1, <2>2
<1> QED BY <1>2

PatchStep(g, ops, ids, doc, i) ==
    IF i = 0 THEN doc ELSE IF Effective(ops[i], ids) THEN Step(g[i - 1], ops[i]) ELSE g[i - 1]
\* Applying a patch is a sequence of steps, of which each follows from the one before.
LEMMA PatchRuns ==
  ASSUME NEW ops, NEW ids, NEW doc, Len(ops) \in Nat
  PROVE  \E g : /\ g = [i \in 0..Len(ops) |-> PatchStep(g, ops, ids, doc, i)]
                /\ Patched(ops, ids, doc) = g[Len(ops)]
<1> DEFINE Runs(g, k) == g = [i \in 0..k |-> PatchStep(g, ops, ids, doc, i)]
           Bad == {k \in Nat : k <= Len(ops) /\ ~\E g : Runs(g, k)}
<1>1. ASSUME Bad # {} PROVE FALSE
  <2>1. PICK k \in Bad : \A j \in Bad : k <= j
    BY <1>1, SmallestOf
  <2>2. CASE k = 0
    <3> DEFINE g == [i \in 0..0 |-> doc]
    <3>1. \A i \in 0..0 : PatchStep(g, ops, ids, doc, i) = doc
      BY DEF PatchStep
    <3>2. Runs(g, 0)
      BY <3>1
    <3> QED BY <2>1, <2>2, <3>2
  <2>3. CASE k # 0
    <3>1. k - 1 \in Nat /\ k - 1 <= Len(ops) /\ k - 1 \notin Bad
      BY <2>1, <2>3
    <3>2. PICK g : Runs(g, k - 1)
      BY <3>1
    <3> DEFINE h == [i \in 0..k |-> IF i = k THEN PatchStep(g, ops, ids, doc, k) ELSE g[i]]
    <3>3. \A i \in 0..(k - 1) : h[i] = g[i] /\ g[i] = PatchStep(g, ops, ids, doc, i)
      <4>1. \A i \in 0..(k - 1) : i \in 0..k /\ i # k
        BY <2>1, <2>3
      <4>2. \A i \in 0..(k - 1) : h[i] = g[i]
        BY <4>1
      <4> HIDE DEF h
      <4>3. \A i \in 0..(k - 1) : g[i] = PatchStep(g, ops, ids, doc, i)
        BY <3>2, Zenon
      <4> QED BY <4>2, <4>3
    <3>4. ASSUME NEW i \in 0..k PROVE PatchStep(h, ops, ids, doc, i) = PatchStep(g, ops, ids, doc, i)
      <4>1. i # 0 => i - 1 \in 0..(k - 1)
        BY <2>1, <2>3
      <4>2. i # 0 => h[i - 1] = g[i - 1]
        BY <3>3, <4>1
      <4> HIDE DEF h
      <4> QED BY <4>2 DEF PatchStep
    <3>5. \A i \in 0..k : h[i] = PatchStep(h, ops, ids, doc, i)
      <4>1. \A i \in 0..k : i = k \/ i \in 0..(k - 1)
        BY <2>1, <2>3
      <4>2. h[k] = PatchStep(g, ops, ids, doc, k)
        BY <2>1
      <4> HIDE DEF h
      <4> QED BY <3>3, <3>4, <4>1, <4>2
    <3>6. h = [i \in 0..k |-> h[i]]
      OBVIOUS
    <3> HIDE DEF h
    <3>7. Runs(h, k)
      BY <3>5, <3>6
    <3> QED BY <2>1, <3>7
  <2> QED BY <2>2, <2>3
<1>2. \E g : Runs(g, Len(ops))
  <2>1. Len(ops) \notin Bad /\ Len(ops) <= Len(ops)
    BY <1>1
  <2> QED BY <2>1
<1>3. Patched(ops, ids, doc) = (CHOOSE f : f = [i \in 0..Len(ops) |-> PatchStep(f, ops, ids, doc, i)])[Len(ops)]
  BY DEF Patched, PatchStep
<1> DEFINE p == CHOOSE f : f = [i \in 0..Len(ops) |-> PatchStep(f, ops, ids, doc, i)]
<1>4. p = [i \in 0..Len(ops) |-> PatchStep(p, ops, ids, doc, i)]
  BY <1>2
<1> QED BY <1>3, <1>4

\* What a sequence is.
LEMMA SequenceHas ==
  ASSUME NEW s, IsSequence(s)
  PROVE  Len(s) \in Nat /\ DOMAIN s = 1..Len(s) /\ s \in Seq(Range(s)) /\ \A i \in 1..Len(s) : s[i] \in Range(s)
BY DEF IsSequence, Range

\* Whatever it is a sequence of.
LEMMA SequenceOf ==
  ASSUME NEW S, NEW s \in Seq(S)
  PROVE  IsSequence(s)
<1>1. Len(s) \in Nat /\ DOMAIN s = 1..Len(s) /\ s = [i \in 1..Len(s) |-> s[i]]
  OBVIOUS
<1>2. \A i \in 1..Len(s) : s[i] \in Range(s)
  BY <1>1 DEF Range
<1>3. s \in Seq(Range(s))
  BY <1>1, <1>2
<1> QED BY <1>3 DEF IsSequence

\* Sequences are what is appended to.
LEMMA AppendsToSequence ==
  ASSUME NEW s, NEW e, IsSequence(s)
  PROVE  /\ IsSequence(Append(s, e)) /\ Len(s) \in Nat /\ Len(Append(s, e)) = Len(s) + 1
         /\ DOMAIN s = 1..Len(s) /\ DOMAIN Append(s, e) = 1..(Len(s) + 1)
         /\ \A i \in 1..Len(s) : Append(s, e)[i] = s[i]
         /\ Append(s, e)[Len(s) + 1] = e
<1> DEFINE t == Append(s, e)
<1>1. /\ Len(s) \in Nat /\ Len(t) = Len(s) + 1
      /\ DOMAIN s = 1..Len(s) /\ DOMAIN t = 1..(Len(s) + 1)
      /\ \A i \in 1..Len(s) : t[i] = s[i]
      /\ t[Len(s) + 1] = e
  BY DEF IsSequence
<1>2. Range(t) = Range(s) \cup {e}
  BY <1>1 DEF Range
<1>3. Range(s) \subseteq Range(t) /\ e \in Range(t)
  BY <1>2
<1>4. s \in Seq(Range(t))
  BY <1>3, SeqMonotonic DEF IsSequence
<1>5. t \in Seq(Range(t))
  BY <1>3, <1>4
<1> QED BY <1>1, <1>5 DEF IsSequence

\* One after the other, or a part.
LEMMA SequencesJoin ==
  ASSUME NEW s, NEW t, IsSequence(s), IsSequence(t)
  PROVE  /\ IsSequence(s \o t) /\ Len(s \o t) = Len(s) + Len(t)
         /\ \A i \in 1..(Len(s) + Len(t)) : (s \o t)[i] = IF i <= Len(s) THEN s[i] ELSE t[i - Len(s)]
<1> DEFINE S == Range(s) \cup Range(t)
<1>1. s \in Seq(S) /\ t \in Seq(S)
  <2>1. s \in Seq(Range(s)) /\ t \in Seq(Range(t)) /\ Range(s) \subseteq S /\ Range(t) \subseteq S
    BY DEF IsSequence
  <2> HIDE DEF S
  <2> QED BY <2>1, SeqMonotonic
<1> HIDE DEF S
<1>2. s \o t \in Seq(S)
  BY <1>1, ConcatProperties
<1> QED BY <1>1, <1>2, ConcatProperties, SequenceOf

\* A part of a sequence.
LEMMA PartIsSequence ==
  ASSUME NEW s, IsSequence(s), NEW a \in Nat \ {0}, NEW b \in Nat, b <= Len(s)
  PROVE  IsSequence(SubSeq(s, a, b))
<1>1. \A i \in a..b : s[i] \in Range(s)
  BY SequenceHas
<1>2. SubSeq(s, a, b) \in Seq(Range(s))
  BY <1>1, SubSeqProperties
<1> QED BY <1>2, SequenceOf

IsDocument(doc) == doc = Broken \/ IsWhole(doc)
\* What an operation makes of an array is an array.
LEMMA ArraysStay ==
  ASSUME NEW old, IsSequence(old), NEW op, WellFormed(op), NEW m \in Lists, m \notin Scalars
  PROVE  /\ op.path = <<m>> /\ op.kind \in {"append", "add", "replace", "test"} => IsSequence(InMember(op, old))
         /\ Len(op.path) = 2 /\ op.path[2] \in 1..Len(old) /\ op.kind \in {"replace", "remove"} => IsSequence(InArray(op, old))
         /\ Len(op.path) = 2 /\ op.path[2] \in 1..(Len(old) + 1) /\ op.kind = "add" => IsSequence(InArray(op, old))
         /\ op.kind = "test" => InArray(op, old) = old
<1>0. Len(old) \in Nat /\ DOMAIN old = 1..Len(old)
  BY SequenceHas
<1>1. ASSUME op.path = <<m>>, op.kind \in {"append", "add", "replace", "test"} PROVE IsSequence(InMember(op, old))
  <2>1. CASE op.kind = "append"
    <3>1. IsSequence(Append(old, op.element))
      BY AppendsToSequence
    <3> QED BY <2>1, <3>1 DEF InMember
  <2>2. CASE op.kind \in {"add", "replace"}
    <3>1. IsSequence(op.value)
      BY <1>1, <2>2 DEF WellFormed
    <3> QED BY <2>2, <3>1 DEF InMember
  <2>3. CASE op.kind = "test"
    BY <2>3 DEF InMember
  <2> QED BY <1>1, <2>1, <2>2, <2>3
<1>2. ASSUME op.path[2] \in 1..Len(old), op.kind = "replace" PROVE IsSequence(InArray(op, old))
  <2> DEFINE new == [old EXCEPT ![op.path[2]] = op.value]
             S == Range(old) \cup {op.value}
  <2>1. old \in Seq(Range(old)) /\ Range(old) \subseteq S /\ op.value \in S
    BY DEF IsSequence
  <2> HIDE DEF S
  <2>2. old \in Seq(S)
    BY <2>1, SeqMonotonic
  <2>3. new \in Seq(S)
    BY <1>2, <2>1, <2>2, ExceptSeq
  <2> QED BY <1>2, <2>3, SequenceOf DEF InArray
<1>3. ASSUME op.path[2] \in 1..Len(old), op.kind = "remove" PROVE IsSequence(InArray(op, old))
  <2>1. IsSequence(SubSeq(old, 1, op.path[2] - 1)) /\ IsSequence(SubSeq(old, op.path[2] + 1, Len(old)))
    BY <1>0, <1>3, PartIsSequence
  <2>2. IsSequence(RemoveAt(old, op.path[2]))
    BY <2>1, SequencesJoin DEF RemoveAt
  <2> QED BY <1>3, <2>2 DEF InArray
<1>4. ASSUME op.path[2] \in 1..(Len(old) + 1), op.kind = "add" PROVE IsSequence(InArray(op, old))
  <2>1. IsSequence(SubSeq(old, 1, op.path[2] - 1)) /\ IsSequence(SubSeq(old, op.path[2], Len(old)))
    BY <1>0, <1>4, PartIsSequence
  <2>2. <<op.value>> \in Seq({op.value})
    OBVIOUS
  <2>3. IsSequence(<<op.value>>)
    BY <2>2, SequenceOf
  <2>4. IsSequence(SubSeq(old, 1, op.path[2] - 1) \o <<op.value>>)
    BY <2>1, <2>3, SequencesJoin
  <2>5. IsSequence(InsertAt(old, op.path[2], op.value))
    BY <2>1, <2>4, SequencesJoin DEF InsertAt
  <2> QED BY <1>4, <2>5 DEF InArray
<1>5. ASSUME op.kind = "test" PROVE InArray(op, old) = old
  BY <1>5 DEF InArray
<1> QED BY <1>1, <1>2, <1>3, <1>4, <1>5

\* A path is the root, a member, or a member and a place.
LEMMA PathsAre ==
  ASSUME NEW op, WellFormed(op)
  PROVE  \/ op.path = Root /\ Len(op.path) = 0 /\ DOMAIN op.path = {}
         \/ \E m \in Members : op.path = <<m>> /\ op.path # Root /\ Len(op.path) = 1 /\ op.path[1] = m /\ DOMAIN op.path = {1}
         \/ \E m \in Lists : /\ op.path # Root /\ Len(op.path) = 2 /\ op.path[1] = m /\ m \in Members
                             /\ DOMAIN op.path = {1, 2} /\ op.path = <<m, op.path[2]>>
<1>1. CASE op.path = Root
  BY <1>1 DEF Root
<1>2. ASSUME NEW m \in Members, op.path = <<m>>
      PROVE  op.path # Root /\ Len(op.path) = 1 /\ op.path[1] = m /\ DOMAIN op.path = {1}
  <2>1. Len(<<m>>) = 1 /\ <<m>>[1] = m /\ DOMAIN <<m>> = 1..1 /\ 1..1 = {1}
    OBVIOUS
  <2> QED BY <1>2, <2>1 DEF Root
<1>3. ASSUME NEW m \in Lists, NEW i, op.path = <<m, i>>
      PROVE  /\ op.path # Root /\ Len(op.path) = 2 /\ op.path[1] = m /\ m \in Members
             /\ DOMAIN op.path = {1, 2}
  <2>1. Len(<<m, i>>) = 2 /\ <<m, i>>[1] = m /\ DOMAIN <<m, i>> = 1..2 /\ 1..2 = {1, 2}
    OBVIOUS
  <2> QED BY <1>3, <2>1 DEF Root, Members
<1> QED BY <1>1, <1>2, <1>3 DEF WellFormed

\* An operation leaves a document, or breaks the patch.
LEMMA StepIsDocument ==
  ASSUME NEW doc, NEW op, IsDocument(doc), WellFormed(op)
  PROVE  IsDocument(Step(doc, op))
<1>1. CASE doc = Broken \/ ~Applies(op, doc)
  BY <1>1 DEF Step, IsDocument
<1>2. CASE doc # Broken /\ Applies(op, doc) /\ op.path = Root
  <2>1. op.kind \in {"add", "replace"} \/ doc = op.value
    <3>1. Len(op.path) = 0
      BY <1>2 DEF Root
    <3> QED BY <1>2, <3>1 DEF Applies
  <2> QED BY <1>2, <2>1 DEF Step, IsDocument, WellFormed
<1>3. CASE doc # Broken /\ Applies(op, doc) /\ op.path # Root
  <2> DEFINE m == op.path[1]
             new == IF Len(op.path) = 1 THEN InMember(op, doc[m]) ELSE InArray(op, doc[m])
  <2>0. IsWhole(doc) /\ Scalars \cap Lists = {} /\ m \in Members
    BY <1>3, PathsAre, ContextAssumption DEF IsDocument
  <2>1. Step(doc, op) = [doc EXCEPT ![m] = new]
    BY <1>3 DEF Step
  <2>2. m \in Lists => IsSequence(new)
    <3> SUFFICES ASSUME m \in Lists PROVE IsSequence(new)
      OBVIOUS
    <3>1. IsSequence(doc[m]) /\ m \notin Scalars /\ DOMAIN doc[m] = 1..Len(doc[m])
      BY <2>0, SequenceHas DEF IsWhole
    <3>2. CASE Len(op.path) = 1
      <4>1. op.path = <<m>>
        BY <1>3, <3>2, PathsAre
      <4>2. op.kind \in {"append", "add", "replace", "test"}
        BY <1>3, <3>1, <3>2 DEF Applies
      <4> QED BY <3>1, <3>2, <4>1, <4>2, ArraysStay
    <3>3. CASE Len(op.path) # 1
      <4>1. Len(op.path) = 2
        BY <1>3, <3>3 DEF Applies
      <4>2. \/ op.path[2] \in 1..Len(doc[m]) /\ op.kind \in {"replace", "remove"}
            \/ op.path[2] \in 1..(Len(doc[m]) + 1) /\ op.kind = "add"
            \/ op.kind = "test"
        BY <1>3, <3>1, <4>1 DEF Applies
      <4> QED BY <3>1, <3>3, <4>1, <4>2, ArraysStay
    <3> QED BY <3>2, <3>3
  <2> HIDE DEF new, m
  <2>3. DOMAIN Step(doc, op) = Members /\ \A n \in Members : Step(doc, op)[n] = IF n = m THEN new ELSE doc[n]
    BY <2>0, <2>1 DEF IsWhole
  <2>4. Lists \subseteq Members
    BY DEF Members
  <2>5. \A n \in Lists : IsSequence(Step(doc, op)[n])
    BY <2>0, <2>2, <2>3, <2>4 DEF IsWhole
  <2> QED BY <2>3, <2>5 DEF IsDocument, IsWhole
<1> QED BY <1>1, <1>2, <1>3

\* So does a patch.
LEMMA PatchIsDocument ==
  ASSUME NEW ops, NEW ids, NEW doc, Len(ops) \in Nat, IsDocument(doc), \A i \in 1..Len(ops) : WellFormed(ops[i])
  PROVE  IsDocument(Patched(ops, ids, doc))
<1>1. PICK g : /\ g = [i \in 0..Len(ops) |-> PatchStep(g, ops, ids, doc, i)]
               /\ Patched(ops, ids, doc) = g[Len(ops)]
  BY PatchRuns
<1> DEFINE Bad == {i \in 0..Len(ops) : ~IsDocument(g[i])}
<1>2. ASSUME Bad # {} PROVE FALSE
  <2>0. Bad \in SUBSET Nat
    OBVIOUS
  <2>1. PICK i \in Bad : \A j \in Bad : i <= j
    BY <1>2, <2>0, SmallestOf
  <2>2. g[i] = PatchStep(g, ops, ids, doc, i)
    BY <1>1, <2>1
  <2>3. CASE i = 0
    BY <2>1, <2>2, <2>3 DEF PatchStep
  <2>4. CASE i # 0
    <3>1. i - 1 \in 0..Len(ops) /\ i \in 1..Len(ops) /\ i - 1 < i /\ i - 1 \in Nat
      BY <2>1, <2>4
    <3>2. IsDocument(g[i - 1])
      BY <2>1, <3>1
    <3>3. IsDocument(Step(g[i - 1], ops[i]))
      BY <3>1, <3>2, StepIsDocument
    <3> QED BY <2>1, <2>2, <2>4, <3>2, <3>3 DEF PatchStep
  <2> QED BY <2>3, <2>4
<1>3. Len(ops) \notin Bad /\ Len(ops) \in 0..Len(ops)
  BY <1>2
<1> QED BY <1>1, <1>3

\* A document that is given as a whole is what its patch leaves.
LEMMA WholeIsPatched ==
  ASSUME NEW ids, NEW doc, NEW whole, DOMAIN doc = Members, whole = [m \in Members |-> whole[m]],
         NEW ops, Len(ops) = 1, ops[1].kind = "replace", ops[1].path = Root, ops[1].value = whole
  PROVE  Patched(ops, ids, doc) = whole
<1>3. PICK g : /\ g = [i \in 0..Len(ops) |-> PatchStep(g, ops, ids, doc, i)]
               /\ Patched(ops, ids, doc) = g[Len(ops)]
  BY PatchRuns
<1>4. 0 \in 0..Len(ops) /\ 1 \in 0..Len(ops) /\ 1 - 1 = 0 /\ 1 # 0
  OBVIOUS
<1>5. g[0] = PatchStep(g, ops, ids, doc, 0) /\ g[1] = PatchStep(g, ops, ids, doc, 1)
  BY <1>3, <1>4
<1>6. g[0] = doc
  BY <1>5 DEF PatchStep
<1>7. Effective(ops[1], ids)
  BY DEF Effective
<1>8. g[1] = Step(doc, ops[1])
  BY <1>4, <1>5, <1>6, <1>7 DEF PatchStep
<1>9. CASE doc # Broken
  <2>1. Applies(ops[1], doc)
    BY DEF Applies
  <2> QED BY <1>3, <1>8, <1>9, <2>1 DEF Step
<1>10. CASE doc = Broken
  <2>1. Members = {}
    BY <1>10 DEF Broken
  <2>2. whole = Broken
    <3>1. whole = [m \in {} |-> whole[m]] /\ Broken = [m \in {} |-> Broken[m]]
      BY <2>1 DEF Broken
    <3> QED BY <3>1
  <2> QED BY <1>3, <1>8, <1>10, <2>2 DEF Step
<1> QED BY <1>9, <1>10

-----------------------------------------------------------------------------
(* What a merge makes of appended items.                                    *)
\* Items that are told apart by the commit they come from and by their place in it.
Ordered(X) ==
    /\ \A x \in X : x.branch \in Nat /\ x.seq \in Nat /\ x.index \in Nat
    /\ \A x, y \in X : x.branch = y.branch /\ x.seq = y.seq /\ x.index = y.index => x = y

\* They are in one order.
LEMMA EarlierOrders ==
  ASSUME NEW X, Ordered(X), NEW x \in X, NEW y \in X, NEW z \in X
  PROVE  /\ ~Earlier(x, x)
         /\ x = y \/ Earlier(x, y) \/ Earlier(y, x)
         /\ Earlier(x, y) /\ Earlier(y, z) => Earlier(x, z)
         /\ Earlier(x, y) => ~Earlier(y, x)
<1>1. /\ x.branch \in Nat /\ x.seq \in Nat /\ x.index \in Nat
      /\ y.branch \in Nat /\ y.seq \in Nat /\ y.index \in Nat
      /\ z.branch \in Nat /\ z.seq \in Nat /\ z.index \in Nat
  BY DEF Ordered
<1>2. x.branch = y.branch /\ x.seq = y.seq /\ x.index = y.index => x = y
  BY DEF Ordered
<1>3. ~Earlier(x, x)
  BY <1>1 DEF Earlier
<1>4. x = y \/ Earlier(x, y) \/ Earlier(y, x)
  BY <1>1, <1>2 DEF Earlier
<1>5. Earlier(x, y) /\ Earlier(y, z) => Earlier(x, z)
  BY <1>1 DEF Earlier
<1>6. Earlier(x, y) => ~Earlier(y, x)
  BY <1>1 DEF Earlier
<1> QED BY <1>3, <1>4, <1>5, <1>6

\* An item's place among others is a number, and the later ones have a larger one.
LEMMA PlacesGrow ==
  ASSUME NEW X, IsFiniteSet(X), Ordered(X), NEW x \in X
  PROVE  /\ Place(x, X) \in 1..Cardinality(X)
         /\ \A y \in X : Earlier(x, y) => Place(x, X) < Place(y, X)
<1> DEFINE Before(v) == {w \in X : Earlier(w, v)}
<1>1. ASSUME NEW v \in X
      PROVE  /\ IsFiniteSet(Before(v)) /\ Cardinality(Before(v)) \in Nat
             /\ Place(v, X) = Cardinality(Before(v)) + 1 /\ v \notin Before(v)
  <2>1. Before(v) \in SUBSET X
    OBVIOUS
  <2>2. IsFiniteSet(Before(v))
    BY <2>1, FS_Subset
  <2>3. ~Earlier(v, v)
    BY <1>1, EarlierOrders
  <2>4. v \notin Before(v)
    BY <2>3
  <2>5. Place(v, X) = Cardinality(Before(v)) + 1
    BY DEF Place
  <2> HIDE DEF Before
  <2> QED BY <2>2, <2>4, <2>5, FS_CardinalityType
<1>2. Before(x) \in SUBSET X /\ Cardinality(X) \in Nat
  BY FS_CardinalityType
<1>3. ASSUME NEW y \in X, Earlier(x, y) PROVE Before(x) \in SUBSET Before(y) /\ x \in Before(y)
  BY <1>3, EarlierOrders
<1> HIDE DEF Before
<1>4. Place(x, X) \in 1..Cardinality(X)
  <2>1. Cardinality(Before(x)) <= Cardinality(X) /\ (Cardinality(X) = Cardinality(Before(x)) => X = Before(x))
    BY <1>2, FS_Subset
  <2>2. X # Before(x)
    BY <1>1
  <2> QED BY <1>1, <1>2, <2>1, <2>2
<1>5. ASSUME NEW y \in X, Earlier(x, y) PROVE Place(x, X) < Place(y, X)
  <2>1. Before(x) \in SUBSET Before(y) /\ x \in Before(y) /\ x \notin Before(x)
    BY <1>1, <1>3, <1>5
  <2>2. IsFiniteSet(Before(y))
    BY <1>1
  <2>3. Cardinality(Before(x)) <= Cardinality(Before(y)) /\ (Cardinality(Before(y)) = Cardinality(Before(x)) => Before(y) = Before(x))
    BY <2>1, <2>2, FS_Subset
  <2>4. Cardinality(Before(x)) \in Nat /\ Cardinality(Before(y)) \in Nat
    BY <1>1
  <2>5. Place(x, X) = Cardinality(Before(x)) + 1 /\ Place(y, X) = Cardinality(Before(y)) + 1
    BY <1>1
  <2> QED BY <2>1, <2>3, <2>4, <2>5
<1> QED BY <1>4, <1>5

\* Every place is somebody's, and nobody else's.
LEMMA PlacesAreTaken ==
  ASSUME NEW X, IsFiniteSet(X), Ordered(X)
  PROVE  /\ \A x, y \in X : Place(x, X) = Place(y, X) => x = y
         /\ \A i \in 1..Cardinality(X) : \E x \in X : Place(x, X) = i
<1>1. ASSUME NEW x \in X, NEW y \in X, Place(x, X) = Place(y, X) PROVE x = y
  <2>1. x = y \/ Earlier(x, y) \/ Earlier(y, x)
    BY EarlierOrders
  <2>2. Place(x, X) \in Nat /\ Place(y, X) \in Nat
    BY PlacesGrow
  <2>3. Earlier(x, y) => Place(x, X) < Place(y, X)
    BY PlacesGrow
  <2>4. Earlier(y, x) => Place(y, X) < Place(x, X)
    BY PlacesGrow
  <2> QED BY <1>1, <2>1, <2>2, <2>3, <2>4
<1>2. ASSUME NEW i \in 1..Cardinality(X), \A x \in X : Place(x, X) # i PROVE FALSE
  <2> DEFINE n == Cardinality(X)
             T == (1..n) \ {i}
             f == [x \in X |-> Place(x, X)]
  <2>1. n \in Nat
    BY FS_CardinalityType
  <2>2. IsFiniteSet(1..n) /\ Cardinality(1..n) = n
    <3> HIDE DEF n
    <3>1. 1 \in Int /\ n \in Int
      BY <2>1
    <3>2. IsFiniteSet(1..n) /\ Cardinality(1..n) = IF 1 > n THEN 0 ELSE n - 1 + 1
      BY <3>1, FS_Interval
    <3> QED BY <2>1, <3>2
  <2>3. IsFiniteSet(T) /\ Cardinality(T) = n - 1
    <3>1. i \in 1..n
      OBVIOUS
    <3> HIDE DEF n
    <3> QED BY <2>2, <3>1, FS_RemoveElement
  <2>4. f \in [X -> T]
    BY <1>2, PlacesGrow
  <2>5. Cardinality(T) < n
    BY <2>1, <2>3
  <2> HIDE DEF T, f
  <2>6. \E x, y \in X : x # y /\ f[x] = f[y]
    BY <2>3, <2>4, <2>5, FS_PigeonHole
  <2> QED BY <1>1, <2>6 DEF f
<1> QED BY <1>1, <1>2

\* Among some items there is an earliest one.
LEMMA SomeIsEarliest ==
  ASSUME NEW X, IsFiniteSet(X), Ordered(X), X # {}
  PROVE  \E x \in X : \A y \in X : ~Earlier(y, x)
<1> DEFINE P == {Place(x, X) : x \in X}
<1>1. P \in SUBSET Nat /\ P # {}
  BY PlacesGrow
<1>2. PICK k \in P : \A j \in P : k <= j
  BY <1>1, SmallestOf
<1>3. PICK x \in X : Place(x, X) = k
  BY <1>2
<1>4. ASSUME NEW y \in X, Earlier(y, x) PROVE FALSE
  <2>1. Place(y, X) < Place(x, X) /\ Place(y, X) \in Nat
    BY <1>4, PlacesGrow
  <2>2. k <= Place(y, X) /\ k \in Nat
    BY <1>1, <1>2
  <2> QED BY <1>3, <2>1, <2>2
<1> QED BY <1>4

\* Items put in order are a sequence of their elements.
LEMMA InOrderLists ==
  ASSUME NEW X, IsFiniteSet(X), Ordered(X), \A x, y \in X : x.element = y.element => x = y
  PROVE  /\ IsSequence(InOrder(X)) /\ IsInjective(InOrder(X)) /\ Range(InOrder(X)) = Elements(X)
<1> DEFINE n == Cardinality(X)
           Nth(i) == CHOOSE x \in X : Place(x, X) = i
           s == InOrder(X)
<1>1. n \in Nat
  BY FS_CardinalityType
<1>2. ASSUME NEW i \in 1..n PROVE Nth(i) \in X /\ Place(Nth(i), X) = i
  BY PlacesAreTaken
<1>3. s = [i \in 1..n |-> Nth(i).element]
  BY DEF InOrder
<1>4. DOMAIN s = 1..n /\ \A i \in 1..n : s[i] = Nth(i).element
  BY <1>3
<1>5. ASSUME NEW x \in X PROVE \E i \in 1..n : Nth(i) = x
  <2>1. PICK i \in 1..n : Place(x, X) = i
    BY PlacesGrow
  <2>2. Nth(i) = x
    BY <1>2, <2>1, PlacesAreTaken
  <2> QED BY <2>2
<1> HIDE DEF Nth, s, n
<1>6. s \in Seq(Elements(X))
  <2>1. \A i \in 1..n : s[i] \in Elements(X)
    BY <1>2, <1>4 DEF Elements
  <2>2. s = [i \in 1..n |-> s[i]]
    BY <1>3, <1>4
  <2> QED BY <1>1, <2>1, <2>2
<1>7. IsInjective(s)
  <2>1. ASSUME NEW i \in 1..n, NEW j \in 1..n, s[i] = s[j] PROVE i = j
    <3>1. Nth(i) \in X /\ Nth(j) \in X /\ Nth(i).element = Nth(j).element
      BY <1>2, <1>4, <2>1
    <3>2. Nth(i) = Nth(j)
      BY <3>1
    <3>3. Place(Nth(i), X) = i /\ Place(Nth(j), X) = j
      BY <1>2
    <3> QED BY <3>2, <3>3
  <2> QED BY <1>4, <2>1 DEF IsInjective
<1>8. Range(s) = Elements(X)
  <2>1. \A i \in 1..n : s[i] \in Elements(X)
    BY <1>2, <1>4 DEF Elements
  <2>2. \A e \in Elements(X) : \E i \in 1..n : s[i] = e
    BY <1>4, <1>5 DEF Elements
  <2> QED BY <1>4, <2>1, <2>2 DEF Range
<1>9. IsSequence(s)
  BY <1>6, SequenceOf
<1> QED BY <1>7, <1>8, <1>9 DEF s

\* Of the items of both sides each element is taken once.
LEMMA CombinedTakes ==
  ASSUME NEW mine, NEW theirs, IsFiniteSet(mine), IsFiniteSet(theirs), Ordered(mine \cup theirs)
  PROVE  /\ IsFiniteSet(Combined(mine, theirs)) /\ Ordered(Combined(mine, theirs))
         /\ \A x, y \in Combined(mine, theirs) : x.element = y.element => x = y
         /\ Elements(Combined(mine, theirs)) = Elements(mine) \cup Elements(theirs)
<1>1. PICK all : all = mine \cup theirs
  OBVIOUS
<1>2. IsFiniteSet(all) /\ Ordered(all)
  BY <1>1, FS_Union
<1>3. PICK C : C = Combined(mine, theirs)
  OBVIOUS
<1>4. C = {x \in all : \A y \in all : y.element = x.element => ~Earlier(y, x)}
  BY <1>1, <1>3 DEF Combined
<1>5. C \in SUBSET all
  BY <1>4
<1>6. IsFiniteSet(C)
  BY <1>2, <1>5, FS_Subset
<1>7. Ordered(C)
  BY <1>2, <1>5 DEF Ordered
<1>8. ASSUME NEW x \in C, NEW y \in C, x.element = y.element PROVE x = y
  <2>1. ~Earlier(y, x) /\ ~Earlier(x, y) /\ x \in all /\ y \in all
    BY <1>4, <1>8
  <2> QED BY <1>2, <2>1, EarlierOrders
<1>9. ASSUME NEW x \in all PROVE \E y \in C : y.element = x.element
  <2>1. PICK K : K = {y \in all : y.element = x.element}
    OBVIOUS
  <2>2. K \in SUBSET all /\ x \in K
    BY <2>1
  <2>3. IsFiniteSet(K) /\ Ordered(K) /\ K # {}
    BY <1>2, <2>2, FS_Subset DEF Ordered
  <2>4. PICK y \in K : \A z \in K : ~Earlier(z, y)
    BY <2>3, SomeIsEarliest
  <2>5. y \in C
    BY <1>4, <2>1, <2>4
  <2> QED BY <2>1, <2>5
<1>10. Elements(C) = Elements(mine) \cup Elements(theirs)
  BY <1>1, <1>5, <1>9 DEF Elements
<1> QED BY <1>3, <1>6, <1>7, <1>8, <1>10

\* A part of a sequence.
LEMMA PartHas ==
  ASSUME NEW s, IsSequence(s), NEW a \in Nat \ {0}, NEW b \in Nat, b <= Len(s), a <= b + 1
  PROVE  /\ Len(SubSeq(s, a, b)) = b - a + 1 /\ DOMAIN SubSeq(s, a, b) = 1..(b - a + 1)
         /\ \A i \in 1..(b - a + 1) : SubSeq(s, a, b)[i] = s[a + i - 1]
<1>1. \A i \in a..b : s[i] \in Range(s)
  BY SequenceHas
<1> DEFINE p == SubSeq(s, a, b)
<1>2. Len(p) = (IF a <= b THEN b - a + 1 ELSE 0) /\ p \in Seq(Range(s))
  BY <1>1, SubSeqProperties
<1>3. \A i \in 1..(b - a + 1) : p[i] = s[a + i - 1]
  BY <1>1, SubSeqProperties
<1>4. DOMAIN p = 1..Len(p)
  BY <1>2
<1> HIDE DEF p
<1>5. Len(p) = b - a + 1
  BY <1>2
<1>6. DOMAIN p = 1..(b - a + 1)
  BY <1>4, <1>5
<1> QED BY <1>3, <1>5, <1>6 DEF p

\* What a prefix is.
LEMMA PrefixIs ==
  ASSUME NEW s, NEW t, IsSequence(s), IsSequence(t)
  PROVE  IsPrefix(s, t) <=> Len(s) <= Len(t) /\ \A i \in 1..Len(s) : t[i] = s[i]
<1>0. Len(s) \in Nat /\ Len(t) \in Nat
  BY SequenceHas
<1> SUFFICES ASSUME Len(s) <= Len(t)
             PROVE  SubSeq(s, 1, Len(s)) = SubSeq(t, 1, Len(s)) <=> \A i \in 1..Len(s) : t[i] = s[i]
  BY DEF IsPrefix
<1> DEFINE n == Len(s)
           p == SubSeq(s, 1, n)
           q == SubSeq(t, 1, n)
<1>1. DOMAIN p = 1..n /\ \A i \in 1..n : p[i] = s[i]
  <2>1. n \in Nat /\ n <= Len(s) /\ 1 \in Nat \ {0} /\ 1 <= n + 1
    BY <1>0
  <2> HIDE DEF n
  <2>2. DOMAIN p = 1..(n - 1 + 1) /\ \A i \in 1..(n - 1 + 1) : p[i] = s[1 + i - 1]
    BY <2>1, PartHas
  <2> QED BY <2>1, <2>2
<1>2. DOMAIN q = 1..n /\ \A i \in 1..n : q[i] = t[i]
  <2>1. n \in Nat /\ n <= Len(t) /\ 1 \in Nat \ {0} /\ 1 <= n + 1
    BY <1>0
  <2> HIDE DEF n
  <2>2. DOMAIN q = 1..(n - 1 + 1) /\ \A i \in 1..(n - 1 + 1) : q[i] = t[1 + i - 1]
    BY <2>1, PartHas
  <2> QED BY <2>1, <2>2
<1>3. p = [i \in 1..n |-> p[i]] /\ q = [i \in 1..n |-> q[i]]
  <2>1. \A i \in 1..n : s[i] \in Range(s) /\ t[i] \in Range(t)
    BY <1>0, SequenceHas
  <2>2. p \in Seq(Range(s)) /\ q \in Seq(Range(t))
    BY <1>0, <2>1, SubSeqProperties
  <2> HIDE DEF p, q
  <2>3. p = [i \in DOMAIN p |-> p[i]] /\ q = [i \in DOMAIN q |-> q[i]]
    BY <2>2
  <2> QED BY <1>1, <1>2, <2>3
<1> HIDE DEF p, q, n
<1>4. p = q <=> \A i \in 1..n : p[i] = q[i]
  BY <1>3
<1>5. p = q <=> \A i \in 1..n : s[i] = t[i]
  BY <1>1, <1>2, <1>4
<1> QED BY <1>5 DEF p, q, n

\* A list that goes on with some items holds their elements and those before.
LEMMA TailAdds ==
  ASSUME NEW list, NEW base, NEW items, IsSequence(list), IsSequence(base), IsTailOf(list, base, items)
  PROVE  Range(list) = Range(base) \cup Elements(items)
<1> DEFINE a == Len(base)
           b == Len(list)
           tail == SubSeq(list, a + 1, b)
<1>1. /\ a \in Nat /\ b \in Nat /\ DOMAIN base = 1..a /\ DOMAIN list = 1..b
  BY SequenceHas
<1>2. a <= b /\ \A i \in 1..a : list[i] = base[i]
  BY PrefixIs DEF IsTailOf
<1>3. Range(tail) = Elements(items)
  BY DEF IsTailOf
<1>4. DOMAIN tail = 1..(b - a) /\ \A i \in 1..(b - a) : tail[i] = list[a + i]
  <2>1. a + 1 \in Nat \ {0} /\ b \in Nat /\ b <= Len(list) /\ a + 1 <= b + 1 /\ b - (a + 1) + 1 = b - a
    BY <1>1, <1>2
  <2>2. \A i \in 1..(b - a) : (a + 1) + i - 1 = a + i
    BY <1>1
  <2> HIDE DEF a, b
  <2>3. DOMAIN tail = 1..(b - (a + 1) + 1) /\ \A i \in 1..(b - (a + 1) + 1) : tail[i] = list[(a + 1) + i - 1]
    BY <2>1, PartHas
  <2> QED BY <2>1, <2>2, <2>3
<1> HIDE DEF tail, a, b
<1>5. ASSUME NEW e \in Range(list) PROVE e \in Range(base) \cup Range(tail)
  <2>1. PICK i \in 1..b : list[i] = e
    BY <1>1 DEF Range
  <2>2. CASE i <= a
    <3>1. i \in 1..a
      BY <2>2, <1>1
    <3> QED BY <1>1, <1>2, <2>1, <3>1 DEF Range
  <2>3. CASE ~(i <= a)
    <3>1. i - a \in 1..(b - a) /\ a + (i - a) = i
      BY <2>3, <1>1
    <3>2. tail[i - a] = e
      BY <1>4, <2>1, <3>1
    <3> QED BY <1>4, <3>1, <3>2 DEF Range
  <2> QED BY <2>2, <2>3
<1>6. Range(base) \subseteq Range(list)
  <2>1. \A i \in 1..a : i \in 1..b
    BY <1>1, <1>2
  <2> QED BY <1>1, <1>2, <2>1 DEF Range
<1>7. Range(tail) \subseteq Range(list)
  <2>1. \A i \in 1..(b - a) : a + i \in 1..b
    BY <1>1, <1>2
  <2> QED BY <1>1, <1>4, <2>1 DEF Range
<1> QED BY <1>3, <1>5, <1>6, <1>7

\* A list and another one after it.
LEMMA JoinAdds ==
  ASSUME NEW s, NEW t, IsSequence(s), IsSequence(t)
  PROVE  /\ IsPrefix(s, s \o t) /\ Range(s \o t) = Range(s) \cup Range(t)
         /\ IsInjective(t) => IsInjective(SubSeq(s \o t, Len(s) + 1, Len(s \o t)))
<1> DEFINE a == Len(s)
           b == Len(t)
           j == s \o t
           tail == SubSeq(j, a + 1, Len(j))
<1>1. a \in Nat /\ b \in Nat /\ DOMAIN s = 1..a /\ DOMAIN t = 1..b
  BY SequenceHas
<1>2. IsSequence(j) /\ Len(j) = a + b /\ \A i \in 1..(a + b) : j[i] = IF i <= a THEN s[i] ELSE t[i - a]
  BY SequencesJoin
<1>3. DOMAIN j = 1..(a + b)
  BY <1>2, SequenceHas
<1> HIDE DEF a, b, j
<1>4. \A i \in 1..a : i \in 1..(a + b) /\ j[i] = s[i]
  BY <1>1, <1>2
<1>5. \A i \in 1..b : a + i \in 1..(a + b) /\ j[a + i] = t[i]
  <2>1. ASSUME NEW i \in 1..b PROVE a + i \in 1..(a + b) /\ ~(a + i <= a) /\ (a + i) - a = i
    BY <1>1
  <2> QED BY <1>2, <2>1
<1>6. IsPrefix(s, j)
  <2>1. a <= Len(j)
    BY <1>1, <1>2
  <2> QED BY <1>2, <1>4, <2>1, PrefixIs DEF a
<1>7. Range(j) = Range(s) \cup Range(t)
  <2>1. ASSUME NEW i \in 1..(a + b) PROVE i \in 1..a \/ (i - a \in 1..b /\ a + (i - a) = i)
    BY <1>1
  <2>2. Range(j) \subseteq Range(s) \cup Range(t)
    <3>1. ASSUME NEW i \in 1..(a + b) PROVE j[i] \in Range(s) \cup Range(t)
      <4>1. CASE i \in 1..a
        BY <1>1, <1>4, <4>1 DEF Range
      <4>2. CASE i - a \in 1..b /\ a + (i - a) = i
        <5>1. j[i] = t[i - a]
          BY <1>5, <4>2
        <5> QED BY <1>1, <4>2, <5>1 DEF Range
      <4> QED BY <2>1, <4>1, <4>2
    <3> QED BY <1>3, <3>1 DEF Range
  <2>3. Range(s) \subseteq Range(j) /\ Range(t) \subseteq Range(j)
    BY <1>1, <1>3, <1>4, <1>5 DEF Range
  <2> QED BY <2>2, <2>3
<1>8. DOMAIN tail = 1..b /\ \A i \in 1..b : tail[i] = t[i]
  <2> DEFINE c == a + 1
             d == Len(j)
  <2>1. c \in Nat \ {0} /\ d \in Nat /\ d <= Len(j) /\ c <= d + 1 /\ d - c + 1 = b
    BY <1>1, <1>2
  <2>2. \A i \in 1..b : c + i - 1 = a + i
    BY <1>1
  <2>3. tail = SubSeq(j, c, d)
    OBVIOUS
  <2> HIDE DEF c, d, tail
  <2>4. DOMAIN tail = 1..(d - c + 1) /\ \A i \in 1..(d - c + 1) : tail[i] = j[c + i - 1]
    BY <1>2, <2>1, <2>3, PartHas
  <2> QED BY <1>5, <2>1, <2>2, <2>4
<1> HIDE DEF tail
<1>9. IsInjective(t) => IsInjective(tail)
  BY <1>1, <1>8 DEF IsInjective
<1> QED BY <1>6, <1>7, <1>9 DEF tail, a, j

\* What a merge owes both sides of a member nobody decides.
KeepsBoth(base, source, target, merged) ==
    \/ merged = target /\ source \in {base, target}
    \/ merged = source /\ target = base
    \/ /\ IsPrefix(base, merged) /\ Range(merged) = Range(source) \cup Range(target)
       /\ IsInjective(SubSeq(merged, Len(base) + 1, Len(merged)))

\* An array both sides appended to is the common part and the elements of both.
LEMMA AppendsOfBoth ==
  ASSUME NEW base, NEW source, NEW target, IsSequence(base), IsSequence(source), IsSequence(target),
         NEW mine, NEW theirs, IsFiniteSet(mine), IsFiniteSet(theirs), Ordered(mine \cup theirs)
  PROVE  /\ IsSequence(base \o InOrder(Combined(mine, theirs)))
         /\ IsTailOf(source, base, mine) /\ IsTailOf(target, base, theirs) =>
              KeepsBoth(base, source, target, base \o InOrder(Combined(mine, theirs)))
<1>1. PICK C : C = Combined(mine, theirs)
  OBVIOUS
<1>2. /\ IsFiniteSet(C) /\ Ordered(C) /\ Elements(C) = Elements(mine) \cup Elements(theirs)
  BY <1>1, CombinedTakes
<1>3. \A x, y \in C : x.element = y.element => x = y
  BY <1>1, CombinedTakes
<1>4. PICK t : t = InOrder(C)
  OBVIOUS
<1>5. IsSequence(t) /\ IsInjective(t) /\ Range(t) = Elements(C)
  BY <1>2, <1>3, <1>4, InOrderLists
<1>6. /\ IsPrefix(base, base \o t) /\ Range(base \o t) = Range(base) \cup Range(t)
      /\ IsInjective(SubSeq(base \o t, Len(base) + 1, Len(base \o t)))
  BY <1>5, JoinAdds
<1>7. IsSequence(base \o t)
  BY <1>5, SequencesJoin
<1>8. ASSUME IsTailOf(source, base, mine), IsTailOf(target, base, theirs)
      PROVE  KeepsBoth(base, source, target, base \o t)
  <2>1. Range(source) = Range(base) \cup Elements(mine) /\ Range(target) = Range(base) \cup Elements(theirs)
    BY <1>8, TailAdds
  <2>2. Range(base \o t) = Range(source) \cup Range(target)
    BY <1>2, <1>5, <1>6, <2>1
  <2> QED BY <1>6, <2>2 DEF KeepsBoth
<1> QED BY <1>1, <1>4, <1>7, <1>8

\* The documents and the items of a merge.
Mergeable(B, S, T, hs, ht) ==
    /\ IsWhole(B) /\ IsWhole(S) /\ IsWhole(T)
    /\ IsFiniteSet(hs.items) /\ IsFiniteSet(ht.items) /\ Ordered(hs.items \cup ht.items)

\* A merge loses nothing of either side, whatever is left to decide.
LEMMA ThreeWayKeeps ==
  ASSUME NEW B, NEW S, NEW T, NEW hs, NEW ht, Mergeable(B, S, T, hs, ht),
         NEW R, R = ThreeWay(B, S, T, hs, ht)
  PROVE  /\ R.taken \subseteq hs.items
         /\ DOMAIN R.open \subseteq Members /\ \A m \in DOMAIN R.open : R.open[m] \subseteq {S[m], T[m]}
         /\ \A m \in Lists : IsSequence(R.doc[m])
         /\ \A m \in Members : m \notin DOMAIN R.open => KeepsBoth(B[m], S[m], T[m], R.doc[m])
<1> DEFINE Value(m) == MergeValue(B[m], S[m], T[m])
           conflicts == {m \in Members : Disagree(B[m], S[m], T[m])}
           Verified(m) == /\ m \in Lists
                          /\ IsTailOf(S[m], B[m], At(hs, m)) /\ IsTailOf(T[m], B[m], At(ht, m))
           Appended(m) == B[m] \o InOrder(Combined(At(hs, m), At(ht, m)))
           auto == {m \in conflicts : AppendOnly(hs, m) /\ AppendOnly(ht, m) /\ Verified(m)}
           carried == {m \in Lists : /\ At(hs, m) # {} /\ AppendOnly(hs, m) /\ Verified(m)
                                     /\ \/ S[m] = T[m]
                                        \/ T[m] = B[m] /\ Appended(m) = Value(m)}
           doc == [m \in Members |-> IF m \in auto THEN Appended(m) ELSE Value(m)]
           open == [m \in conflicts \ auto |-> {S[m], T[m]} \ (IF m \in Scalars THEN {<<>>} ELSE {})]
           taken == UNION {Integrated(At(hs, m), At(ht, m)) : m \in auto \cup carried}
<1>1. R.doc = doc /\ R.open = open /\ R.taken = taken
  BY DEF ThreeWay
<1>2. taken \subseteq hs.items
  BY DEF Integrated, At
<1>3. DOMAIN open = conflicts \ auto /\ \A m \in conflicts \ auto : open[m] \subseteq {S[m], T[m]}
  OBVIOUS
<1>4. \A m \in Members : doc[m] = IF m \in auto THEN Appended(m) ELSE Value(m)
  OBVIOUS
<1>5. conflicts \subseteq Members /\ auto \subseteq conflicts /\ Lists \subseteq Members
  BY DEF Members
<1>6. \A m \in Lists : IsSequence(B[m]) /\ IsSequence(S[m]) /\ IsSequence(T[m])
  BY DEF Mergeable, IsWhole
<1>7. ASSUME NEW m \in Lists
      PROVE  /\ IsSequence(Appended(m))
             /\ Verified(m) => KeepsBoth(B[m], S[m], T[m], Appended(m))
  <2> DEFINE mine == At(hs, m)
             theirs == At(ht, m)
  <2>1. mine \in SUBSET hs.items /\ theirs \in SUBSET ht.items
    BY DEF At
  <2> HIDE DEF mine, theirs
  <2>2. IsFiniteSet(mine) /\ IsFiniteSet(theirs)
    BY <2>1, FS_Subset DEF Mergeable
  <2>3. Ordered(mine \cup theirs)
    BY <2>1 DEF Mergeable, Ordered
  <2>4. IsSequence(B[m]) /\ IsSequence(S[m]) /\ IsSequence(T[m])
    BY <1>6
  <2>5. /\ IsSequence(B[m] \o InOrder(Combined(mine, theirs)))
        /\ IsTailOf(S[m], B[m], mine) /\ IsTailOf(T[m], B[m], theirs) =>
             KeepsBoth(B[m], S[m], T[m], B[m] \o InOrder(Combined(mine, theirs)))
    BY <2>2, <2>3, <2>4, AppendsOfBoth
  <2> QED BY <2>5 DEF mine, theirs
<1>8. ASSUME NEW m \in Members, m \notin conflicts PROVE KeepsBoth(B[m], S[m], T[m], Value(m))
  <2>1. ~Disagree(B[m], S[m], T[m])
    BY <1>8
  <2> QED BY <2>1 DEF Disagree, MergeValue, KeepsBoth
<1>9. \A m \in auto : m \in Lists /\ Verified(m)
  OBVIOUS
<1>10. \A m \in Members : Value(m) \in {S[m], T[m]}
  BY DEF MergeValue
<1> HIDE DEF Value, Verified, Appended, conflicts, auto, carried, doc, open, taken
<1>11. \A m \in Lists : IsSequence(doc[m])
  BY <1>4, <1>5, <1>6, <1>7, <1>10
<1>12. \A m \in Members : m \notin conflicts \ auto => KeepsBoth(B[m], S[m], T[m], doc[m])
  BY <1>4, <1>7, <1>8, <1>9
<1> QED BY <1>1, <1>2, <1>3, <1>5, <1>11, <1>12

-----------------------------------------------------------------------------
(* What a path holds is changed by the operations it conflicts with only,   *)
(* as long as no operation moves the elements of an array: what is stored   *)
(* at a place is then named by its place.                                   *)
StaysInPlace(op) == Len(op.path) = 2 => op.kind \in {"replace", "test"}
InPlace == \A p \in Proposals : \A i \in DOMAIN p.ops : StaysInPlace(p.ops[i])
\* What an operation finds later where it was written.
StillThere(q, read, now) ==
    IF q.kind = "append" THEN IsPrefix(Held(read, q.path), Held(now, q.path))
    ELSE Held(read, q.path) = Held(now, q.path)
Harmless(q, op) ==
    ~Overlap(q.path, op.path) \/ (q.kind = "append" /\ op.kind = "append" /\ q.path = op.path)

\* It depends on the member alone.
LEMMA HeldOfMember ==
  ASSUME NEW path, Len(path) \in {1, 2}, NEW d, NEW e, d[path[1]] = e[path[1]]
  PROVE  Held(d, path) = Held(e, path)
<1>1. CASE Len(path) = 1
  BY <1>1 DEF Held
<1>2. CASE Len(path) = 2
  BY <1>2 DEF Held
<1> QED BY <1>1, <1>2

\* What is found where an array is.
LEMMA HeldOfArray ==
  ASSUME NEW q, WellFormed(q), q.kind = "append", NEW doc, IsWhole(doc)
  PROVE  \E m \in Lists : q.path = <<m>> /\ Held(doc, q.path) = doc[m] /\ IsSequence(doc[m])
<1>1. PICK m \in Lists : q.path = <<m>>
  BY DEF WellFormed
<1>2. Len(q.path) = 1 /\ q.path[1] = m
  BY <1>1
<1>3. Held(doc, q.path) = doc[m]
  BY <1>2 DEF Held
<1> QED BY <1>1, <1>3 DEF IsWhole

\* It is there at once, and goes on being there.
LEMMA ThereIsOrdered ==
  ASSUME NEW q, WellFormed(q), NEW a, NEW b, NEW c, IsWhole(a), IsWhole(b), IsWhole(c)
  PROVE  /\ StillThere(q, a, a)
         /\ StillThere(q, a, b) /\ StillThere(q, b, c) => StillThere(q, a, c)
<1>1. CASE q.kind # "append"
  BY <1>1 DEF StillThere
<1>2. CASE q.kind = "append"
  <2>1. PICK m \in Lists : q.path = <<m>> /\ Held(a, q.path) = a[m] /\ IsSequence(a[m])
    BY <1>2, HeldOfArray
  <2>2. Len(q.path) = 1 /\ q.path[1] = m
    BY <2>1
  <2>3. Held(b, q.path) = b[m] /\ Held(c, q.path) = c[m] /\ IsSequence(b[m]) /\ IsSequence(c[m])
    BY <2>2 DEF Held, IsWhole
  <2>4. PICK x, y, z : x = a[m] /\ y = b[m] /\ z = c[m]
    OBVIOUS
  <2>5. IsSequence(x) /\ IsSequence(y) /\ IsSequence(z)
    BY <2>1, <2>3, <2>4
  <2>6. Len(x) \in Nat /\ Len(y) \in Nat /\ Len(z) \in Nat
    BY <2>5, SequenceHas
  <2>7. /\ IsPrefix(x, y) <=> Len(x) <= Len(y) /\ \A i \in 1..Len(x) : y[i] = x[i]
        /\ IsPrefix(y, z) <=> Len(y) <= Len(z) /\ \A i \in 1..Len(y) : z[i] = y[i]
        /\ IsPrefix(x, z) <=> Len(x) <= Len(z) /\ \A i \in 1..Len(x) : z[i] = x[i]
        /\ IsPrefix(x, x)
    <3>1. IsPrefix(x, y) <=> Len(x) <= Len(y) /\ \A i \in 1..Len(x) : y[i] = x[i]
      BY <2>5, PrefixIs
    <3>2. IsPrefix(y, z) <=> Len(y) <= Len(z) /\ \A i \in 1..Len(y) : z[i] = y[i]
      BY <2>5, PrefixIs
    <3>3. IsPrefix(x, z) <=> Len(x) <= Len(z) /\ \A i \in 1..Len(x) : z[i] = x[i]
      BY <2>5, PrefixIs
    <3>4. IsPrefix(x, x)
      BY <2>6 DEF IsPrefix
    <3> QED BY <3>1, <3>2, <3>3, <3>4
  <2>8. IsPrefix(x, y) /\ IsPrefix(y, z) => IsPrefix(x, z)
    BY <2>6, <2>7
  <2> QED BY <1>2, <2>1, <2>3, <2>4, <2>7, <2>8 DEF StillThere
<1> QED BY <1>1, <1>2

\* An operation that applies changes the member its path begins with.
LEMMA StepChanges ==
  ASSUME NEW doc, IsWhole(doc), NEW op, WellFormed(op), Step(doc, op) # Broken, op.path # Root
  PROVE  /\ Applies(op, doc) /\ op.path[1] \in Members /\ Len(op.path) \in {1, 2}
         /\ \A m \in Members : m # op.path[1] => Step(doc, op)[m] = doc[m]
         /\ Step(doc, op)[op.path[1]] = IF Len(op.path) = 1 THEN InMember(op, doc[op.path[1]]) ELSE InArray(op, doc[op.path[1]])
<1> DEFINE n == op.path[1]
           new == IF Len(op.path) = 1 THEN InMember(op, doc[n]) ELSE InArray(op, doc[n])
<1>1. Applies(op, doc) /\ doc # Broken
  BY DEF Step
<1>2. n \in Members /\ Len(op.path) \in {1, 2}
  BY PathsAre
<1>3. Step(doc, op) = [doc EXCEPT ![n] = new]
  BY <1>1 DEF Step
<1>4. DOMAIN doc = Members
  BY DEF IsWhole
<1> HIDE DEF new, n
<1>5. /\ \A m \in Members : m # n => Step(doc, op)[m] = doc[m]
      /\ Step(doc, op)[n] = new
  BY <1>2, <1>3, <1>4
<1> QED BY <1>1, <1>2, <1>5 DEF new, n

\* An operation elsewhere leaves it there.
LEMMA ElsewhereStays ==
  ASSUME NEW doc, IsWhole(doc), NEW op, WellFormed(op), Step(doc, op) # Broken,
         NEW q, WellFormed(q), Len(q.path) = 2 => StaysInPlace(op), ~Overlap(q.path, op.path)
  PROVE  Held(Step(doc, op), q.path) = Held(doc, q.path)
<1>1. PICK i \in DOMAIN q.path \cap DOMAIN op.path : q.path[i] # op.path[i]
  BY DEF Overlap
<1>2. q.path # Root /\ op.path # Root
  BY <1>1 DEF Root
<1>3. /\ Applies(op, doc) /\ op.path[1] \in Members /\ Len(op.path) \in {1, 2}
      /\ \A m \in Members : m # op.path[1] => Step(doc, op)[m] = doc[m]
      /\ Step(doc, op)[op.path[1]] = IF Len(op.path) = 1 THEN InMember(op, doc[op.path[1]]) ELSE InArray(op, doc[op.path[1]])
  BY <1>2, StepChanges
<1>4. Len(q.path) \in {1, 2} /\ q.path[1] \in Members
  BY <1>2, PathsAre
<1>5. CASE q.path[1] # op.path[1]
  BY <1>3, <1>4, <1>5, HeldOfMember
<1>6. CASE q.path[1] = op.path[1]
  <2> DEFINE m == q.path[1]
             j == op.path[2]
  <2>1. i # 1
    BY <1>1, <1>6
  <2>2. /\ DOMAIN q.path \in {{1}, {1, 2}} /\ DOMAIN op.path \in {{1}, {1, 2}}
        /\ Len(q.path) = 2 <=> DOMAIN q.path = {1, 2}
        /\ Len(op.path) = 2 <=> DOMAIN op.path = {1, 2}
    <3>1. DOMAIN q.path \in {{1}, {1, 2}} /\ (Len(q.path) = 2 <=> DOMAIN q.path = {1, 2})
      BY <1>2, PathsAre
    <3>2. DOMAIN op.path \in {{1}, {1, 2}} /\ (Len(op.path) = 2 <=> DOMAIN op.path = {1, 2})
      BY <1>2, PathsAre
    <3> QED BY <3>1, <3>2
  <2>3. i = 2 /\ Len(q.path) = 2 /\ Len(op.path) = 2
    BY <1>1, <2>1, <2>2
  <2>4. q.path[2] # j /\ op.kind \in {"replace", "test"}
    BY <1>1, <2>3 DEF StaysInPlace
  <2>5. Step(doc, op)[m] \in {doc[m], [doc[m] EXCEPT ![j] = op.value]}
    <3>1. Step(doc, op)[m] = InArray(op, doc[m])
      BY <1>3, <1>6, <2>3
    <3>2. CASE op.kind = "test"
      <4>1. InArray(op, doc[m]) = doc[m]
        BY <3>2 DEF InArray
      <4> QED BY <3>1, <4>1
    <3>3. CASE op.kind = "replace"
      <4>1. op.kind # "add" /\ op.kind # "remove" /\ op.kind # "test"
        BY <3>3
      <4>2. InArray(op, doc[m]) = [doc[m] EXCEPT ![j] = op.value]
        BY <3>3, <4>1, Zenon DEF InArray
      <4> QED BY <3>1, <4>2
    <3> QED BY <2>4, <3>2, <3>3
  <2>6. /\ DOMAIN Step(doc, op)[m] = DOMAIN doc[m]
        /\ q.path[2] \in DOMAIN doc[m] => Step(doc, op)[m][q.path[2]] = doc[m][q.path[2]]
    <3>1. PICK s, x, k : s = doc[m] /\ x = op.value /\ k = q.path[2]
      OBVIOUS
    <3> HIDE DEF m, j
    <3>2. DOMAIN [s EXCEPT ![j] = x] = DOMAIN s /\ (k \in DOMAIN s => [s EXCEPT ![j] = x][k] = s[k])
      BY <2>4, <3>1
    <3> QED BY <2>5, <3>1, <3>2
  <2> QED BY <2>3, <2>6 DEF Held
<1> QED BY <1>5, <1>6

\* An operation that harms nothing leaves it there, or appends to it.
LEMMA HarmlessStays ==
  ASSUME NEW doc, IsWhole(doc), NEW op, WellFormed(op), Step(doc, op) # Broken,
         NEW q, WellFormed(q), Len(q.path) = 2 => StaysInPlace(op), Harmless(q, op)
  PROVE  IsWhole(Step(doc, op)) /\ StillThere(q, doc, Step(doc, op))
<1>1. IsWhole(Step(doc, op))
  BY StepIsDocument DEF IsDocument
<1>2. CASE ~Overlap(q.path, op.path)
  <2>1. Held(Step(doc, op), q.path) = Held(doc, q.path)
    BY <1>2, ElsewhereStays
  <2>2. StillThere(q, doc, doc)
    BY ThereIsOrdered
  <2> QED BY <1>1, <2>1, <2>2 DEF StillThere
<1>3. CASE q.kind = "append" /\ op.kind = "append" /\ q.path = op.path
  <2>1. PICK m \in Lists : q.path = <<m>> /\ Held(doc, q.path) = doc[m] /\ IsSequence(doc[m])
    BY <1>3, HeldOfArray
  <2>2. Len(q.path) = 1 /\ q.path[1] = m /\ q.path # Root
    BY <2>1 DEF Root
  <2>3. Step(doc, op)[m] = Append(doc[m], op.element)
    <3>1. Step(doc, op)[op.path[1]] = IF Len(op.path) = 1 THEN InMember(op, doc[op.path[1]]) ELSE InArray(op, doc[op.path[1]])
      BY <1>3, <2>2, StepChanges
    <3> QED BY <1>3, <2>2, <3>1 DEF InMember
  <2>4. Held(Step(doc, op), q.path) = Append(doc[m], op.element)
    BY <2>2, <2>3 DEF Held
  <2>5. IsPrefix(doc[m], Append(doc[m], op.element))
    <3>1. PICK s, t : s = doc[m] /\ t = Append(s, op.element)
      OBVIOUS
    <3>2. IsSequence(s) /\ IsSequence(t) /\ Len(s) \in Nat /\ Len(t) = Len(s) + 1 /\ \A i \in 1..Len(s) : t[i] = s[i]
      BY <2>1, <3>1, AppendsToSequence
    <3>3. IsPrefix(s, t)
      BY <3>2, PrefixIs
    <3> QED BY <3>1, <3>3
  <2> QED BY <1>1, <1>3, <2>1, <2>4, <2>5 DEF StillThere
<1> QED BY <1>2, <1>3 DEF Harmless

\* So does a patch of such operations.
LEMMA PatchLeaves ==
  ASSUME NEW ops, NEW ids, NEW doc, Len(ops) \in Nat, IsWhole(doc), IsWhole(Patched(ops, ids, doc)),
         \A i \in 1..Len(ops) : WellFormed(ops[i]),
         NEW q, WellFormed(q), Len(q.path) = 2 => \A i \in 1..Len(ops) : StaysInPlace(ops[i]),
         \A i \in 1..Len(ops) : Harmless(q, ops[i])
  PROVE  StillThere(q, doc, Patched(ops, ids, doc))
<1>1. PICK g : /\ g = [i \in 0..Len(ops) |-> PatchStep(g, ops, ids, doc, i)]
               /\ Patched(ops, ids, doc) = g[Len(ops)]
  BY PatchRuns
<1> DEFINE Good(i) == g[i] = Broken \/ (IsWhole(g[i]) /\ StillThere(q, doc, g[i]))
           Bad == {i \in 0..Len(ops) : ~Good(i)}
<1>2. ASSUME Bad # {} PROVE FALSE
  <2>0. Bad \in SUBSET Nat
    OBVIOUS
  <2>1. PICK i \in Bad : \A j \in Bad : i <= j
    BY <1>2, <2>0, SmallestOf
  <2>2. g[i] = PatchStep(g, ops, ids, doc, i)
    BY <1>1, <2>1, Zenon
  <2>3. CASE i = 0
    <3>1. g[i] = doc
      BY <2>2, <2>3 DEF PatchStep
    <3>2. StillThere(q, doc, doc)
      BY ThereIsOrdered
    <3> QED BY <2>1, <3>1, <3>2
  <2>4. CASE i # 0
    <3>1. i - 1 \in 0..Len(ops) /\ i \in 1..Len(ops) /\ i - 1 < i /\ i - 1 \in Nat
      BY <2>1, <2>4
    <3>2. Good(i - 1)
      BY <2>1, <3>1
    <3>3. PICK d, op : d = g[i - 1] /\ op = ops[i]
      OBVIOUS
    <3>4. CASE d = Broken
      <4>1. g[i] = Broken
        BY <2>2, <2>4, <3>3, <3>4 DEF PatchStep, Step
      <4> QED BY <2>1, <4>1
    <3>5. CASE d # Broken /\ g[i] # Broken
      <4>1. IsWhole(d) /\ StillThere(q, doc, d)
        BY <3>2, <3>3, <3>5
      <4>2. CASE g[i] = d
        BY <2>1, <4>1, <4>2
      <4>3. CASE g[i] = Step(d, op)
        <5>1. IsWhole(Step(d, op)) /\ StillThere(q, d, Step(d, op))
          BY <3>1, <3>3, <3>5, <4>1, <4>3, HarmlessStays
        <5>2. StillThere(q, doc, Step(d, op))
          BY <4>1, <5>1, ThereIsOrdered
        <5> QED BY <2>1, <4>3, <5>1, <5>2
      <4> QED BY <2>2, <2>4, <3>3, <4>2, <4>3 DEF PatchStep
    <3>6. CASE g[i] = Broken
      BY <2>1, <3>6
    <3> QED BY <3>4, <3>5, <3>6
  <2> QED BY <2>3, <2>4
<1>3. Good(Len(ops))
  <2>1. Len(ops) \in 0..Len(ops)
    OBVIOUS
  <2> QED BY <1>2, <2>1
<1>4. g[Len(ops)] # Broken
  <2>1. DOMAIN g[Len(ops)] = Members /\ Members # {}
    BY <1>1, ContextAssumption DEF IsWhole
  <2>2. DOMAIN Broken = {}
    BY DEF Broken
  <2> QED BY <2>1, <2>2
<1> QED BY <1>1, <1>3, <1>4

-----------------------------------------------------------------------------
(* The history. Replay, the first parents and the ancestors are recursive   *)
(* functions over commits whose parents are earlier: that each is what its  *)
(* equation says is shown by the smallest commit at which it would not be.  *)
\* The shape of the history: numbered commits, of which the first is the root, and
\* every other one has one or two parents before it.
ParentsFit ==
    /\ IsSequence(commits) /\ Len(commits) >= 1
    /\ commits[1].parents = <<>> /\ commits[1].ops = <<>> /\ commits[1].taken = {}
    /\ \A c \in DOMAIN commits \ {1} :
         /\ commits[c].parents \in [1..1 -> 1..(c - 1)] \cup [1..2 -> 1..(c - 1)]
         /\ IsSequence(commits[c].ops) /\ \A i \in DOMAIN commits[c].ops : WellFormed(commits[c].ops[i])

\* Commits are numbers, and a parent is a smaller one.
LEMMA CommitsAreNumbers ==
  ASSUME ParentsFit
  PROVE  /\ Len(commits) \in Nat /\ DOMAIN commits = 1..Len(commits) /\ 1 \in DOMAIN commits
         /\ \A c \in DOMAIN commits : IsRoot(c) <=> c = 1
         /\ \A c \in DOMAIN commits : c \in Nat /\ c >= 1
         /\ \A c \in DOMAIN commits : ~IsRoot(c) =>
              /\ FirstParent(c) \in DOMAIN commits /\ FirstParent(c) < c
              /\ DOMAIN commits[c].parents \in {1..1, 1..2}
              /\ \A i \in DOMAIN commits[c].parents :
                   commits[c].parents[i] \in DOMAIN commits /\ commits[c].parents[i] < c
<1>1. Len(commits) \in Nat /\ DOMAIN commits = 1..Len(commits) /\ 1 \in DOMAIN commits
  BY DEF ParentsFit, IsSequence
<1>2. \A c \in DOMAIN commits : c \in Nat /\ c >= 1
  BY <1>1
<1>3. ASSUME NEW c \in DOMAIN commits, c # 1
      PROVE  /\ DOMAIN commits[c].parents \in {1..1, 1..2} /\ 1 \in DOMAIN commits[c].parents
             /\ \A i \in DOMAIN commits[c].parents : commits[c].parents[i] \in 1..(c - 1)
  <2>1. CASE commits[c].parents \in [1..1 -> 1..(c - 1)]
    BY <2>1
  <2>2. CASE commits[c].parents \in [1..2 -> 1..(c - 1)]
    BY <2>2
  <2> QED BY <1>3, <2>1, <2>2 DEF ParentsFit
<1>4. \A c \in DOMAIN commits : IsRoot(c) <=> c = 1
  <2>1. IsRoot(1)
    BY DEF IsRoot, ParentsFit
  <2>2. 1 \notin DOMAIN <<>>
    OBVIOUS
  <2>3. \A c \in DOMAIN commits : c # 1 => ~IsRoot(c)
    BY <1>3, <2>2 DEF IsRoot
  <2> QED BY <2>1, <2>3
<1>5. ASSUME NEW c \in DOMAIN commits, ~IsRoot(c)
      PROVE  /\ FirstParent(c) \in DOMAIN commits /\ FirstParent(c) < c
             /\ DOMAIN commits[c].parents \in {1..1, 1..2}
             /\ \A i \in DOMAIN commits[c].parents :
                  commits[c].parents[i] \in DOMAIN commits /\ commits[c].parents[i] < c
  <2>1. c # 1
    BY <1>4, <1>5
  <2>2. \A i \in DOMAIN commits[c].parents : commits[c].parents[i] \in DOMAIN commits /\ commits[c].parents[i] < c
    <3>1. \A x \in 1..(c - 1) : x \in DOMAIN commits /\ x < c
      BY <1>1, <1>2
    <3> QED BY <1>3, <2>1, <3>1
  <2> QED BY <1>3, <2>1, <2>2 DEF FirstParent
<1> QED BY <1>1, <1>2, <1>4, <1>5

-----------------------------------------------------------------------------
\* What replay makes of a commit.
Begun == [doc |-> Initial, ids |-> {}]
Following(before, c) ==
    [doc |-> Patched(commits[c].ops, before.ids, before.doc),
     ids |-> before.ids \cup AppendedBy(c) \cup TakenBy(c)]
ReplayStep(g, c) ==
    IF c \in DOMAIN snapshots THEN snapshots[c]
    ELSE IF IsRoot(c) THEN Begun ELSE Following(g[FirstParent(c)], c)

\* Replay is what its equation says: every commit follows from its first parent.
LEMMA ReplayRuns ==
  ASSUME ParentsFit
  PROVE  Replayed = [c \in DOMAIN commits |-> ReplayStep(Replayed, c)]
<1> DEFINE n == Len(commits)
           Runs(g, k) == g = [c \in 1..k |-> ReplayStep(g, c)]
           Bad == {k \in Nat : k <= n /\ ~\E g : Runs(g, k)}
<1>0. n \in Nat /\ DOMAIN commits = 1..n
  BY CommitsAreNumbers
<1>1. ASSUME Bad # {} PROVE FALSE
  <2>0. Bad \in SUBSET Nat
    OBVIOUS
  <2>1. PICK k \in Bad : \A j \in Bad : k <= j
    BY <1>1, <2>0, SmallestOf
  <2> HIDE DEF n
  <2>2. CASE k = 0
    <3> DEFINE g == [c \in 1..0 |-> 0]
    <3>1. \A c \in 1..0 : ReplayStep(g, c) = 0
      OBVIOUS
    <3>2. Runs(g, 0)
      BY <3>1
    <3> QED BY <2>1, <2>2, <3>2
  <2>3. CASE k # 0
    <3>1. k - 1 \in Nat /\ k - 1 <= n /\ k - 1 \notin Bad /\ k \in Nat /\ k <= n
      BY <1>0, <2>1, <2>3
    <3>2. PICK g : Runs(g, k - 1)
      BY <3>1
    <3> DEFINE h == [c \in 1..k |-> IF c = k THEN ReplayStep(g, k) ELSE g[c]]
    <3>3. \A c \in 1..(k - 1) : h[c] = g[c] /\ g[c] = ReplayStep(g, c)
      <4>1. \A c \in 1..(k - 1) : c \in 1..k /\ c # k
        BY <3>1
      <4>2. \A c \in 1..(k - 1) : h[c] = g[c]
        BY <4>1
      <4> HIDE DEF h
      <4>3. \A c \in 1..(k - 1) : g[c] = ReplayStep(g, c)
        BY <3>2, Zenon
      <4> QED BY <4>2, <4>3
    <3>4. ASSUME NEW c \in 1..k PROVE ReplayStep(h, c) = ReplayStep(g, c)
      <4>1. c \in DOMAIN commits
        BY <1>0, <3>1
      <4>2. ~IsRoot(c) => FirstParent(c) \in 1..(k - 1)
        BY <1>0, <3>1, <4>1, CommitsAreNumbers
      <4>3. ~IsRoot(c) => h[FirstParent(c)] = g[FirstParent(c)]
        BY <3>3, <4>2
      <4> HIDE DEF h
      <4> QED BY <4>3 DEF ReplayStep
    <3>5. \A c \in 1..k : h[c] = ReplayStep(h, c)
      <4>1. \A c \in 1..k : c = k \/ c \in 1..(k - 1)
        BY <3>1
      <4>2. h[k] = ReplayStep(g, k)
        BY <2>3, <3>1
      <4> HIDE DEF h
      <4> QED BY <3>3, <3>4, <4>1, <4>2
    <3>6. h = [c \in 1..k |-> h[c]]
      OBVIOUS
    <3> HIDE DEF h
    <3>7. Runs(h, k)
      BY <3>5, <3>6
    <3> QED BY <2>1, <3>7
  <2> QED BY <2>2, <2>3
<1>2. \E g : Runs(g, n)
  <2>1. n \notin Bad /\ n <= n
    BY <1>0, <1>1
  <2> QED BY <1>0, <2>1
<1>3. Replayed = CHOOSE f : f = [c \in DOMAIN commits |-> ReplayStep(f, c)]
  BY DEF Replayed, ReplayStep, Following, Begun
<1>4. \E g : g = [c \in DOMAIN commits |-> ReplayStep(g, c)]
  BY <1>0, <1>2
<1> HIDE DEF n, Runs
<1> QED BY <1>3, <1>4

\* So are the first parents of a commit, and all of its ancestors.
LineageStep(g, c) == {c} \cup (IF IsRoot(c) THEN {} ELSE g[FirstParent(c)])
AncestorsStep(g, c) == {c} \cup UNION {g[commits[c].parents[i]] : i \in DOMAIN commits[c].parents}

\* The first parents, one after the other.
LEMMA LineageRuns ==
  ASSUME ParentsFit
  PROVE  Lineage = [c \in DOMAIN commits |-> LineageStep(Lineage, c)]
<1> DEFINE n == Len(commits)
           Runs(g, k) == g = [c \in 1..k |-> LineageStep(g, c)]
           Bad == {k \in Nat : k <= n /\ ~\E g : Runs(g, k)}
<1>0. n \in Nat /\ DOMAIN commits = 1..n
  BY CommitsAreNumbers
<1>1. ASSUME Bad # {} PROVE FALSE
  <2>0. Bad \in SUBSET Nat
    OBVIOUS
  <2>1. PICK k \in Bad : \A j \in Bad : k <= j
    BY <1>1, <2>0, SmallestOf
  <2> HIDE DEF n
  <2>2. CASE k = 0
    <3> DEFINE g == [c \in 1..0 |-> 0]
    <3>1. \A c \in 1..0 : LineageStep(g, c) = 0
      OBVIOUS
    <3>2. Runs(g, 0)
      BY <3>1
    <3> QED BY <2>1, <2>2, <3>2
  <2>3. CASE k # 0
    <3>1. k - 1 \in Nat /\ k - 1 <= n /\ k - 1 \notin Bad /\ k \in Nat /\ k <= n
      BY <1>0, <2>1, <2>3
    <3>2. PICK g : Runs(g, k - 1)
      BY <3>1
    <3> DEFINE h == [c \in 1..k |-> IF c = k THEN LineageStep(g, k) ELSE g[c]]
    <3>3. \A c \in 1..(k - 1) : h[c] = g[c] /\ g[c] = LineageStep(g, c)
      <4>1. \A c \in 1..(k - 1) : c \in 1..k /\ c # k
        BY <3>1
      <4>2. \A c \in 1..(k - 1) : h[c] = g[c]
        BY <4>1
      <4> HIDE DEF h
      <4>3. \A c \in 1..(k - 1) : g[c] = LineageStep(g, c)
        BY <3>2, Zenon
      <4> QED BY <4>2, <4>3
    <3>4. ASSUME NEW c \in 1..k PROVE LineageStep(h, c) = LineageStep(g, c)
      <4>1. c \in DOMAIN commits
        BY <1>0, <3>1
      <4>2. ~IsRoot(c) => FirstParent(c) \in 1..(k - 1)
        BY <1>0, <3>1, <4>1, CommitsAreNumbers
      <4>3. ~IsRoot(c) => h[FirstParent(c)] = g[FirstParent(c)]
        BY <3>3, <4>2
      <4> HIDE DEF h
      <4> QED BY <4>3 DEF LineageStep
    <3>5. \A c \in 1..k : h[c] = LineageStep(h, c)
      <4>1. \A c \in 1..k : c = k \/ c \in 1..(k - 1)
        BY <3>1
      <4>2. h[k] = LineageStep(g, k)
        BY <2>3, <3>1
      <4> HIDE DEF h
      <4> QED BY <3>3, <3>4, <4>1, <4>2
    <3>6. h = [c \in 1..k |-> h[c]]
      OBVIOUS
    <3> HIDE DEF h
    <3>7. Runs(h, k)
      BY <3>5, <3>6
    <3> QED BY <2>1, <3>7
  <2> QED BY <2>2, <2>3
<1>2. \E g : Runs(g, n)
  <2>1. n \notin Bad /\ n <= n
    BY <1>0, <1>1
  <2> QED BY <1>0, <2>1
<1>3. Lineage = CHOOSE f : f = [c \in DOMAIN commits |-> LineageStep(f, c)]
  BY DEF Lineage, LineageStep
<1>4. \E g : g = [c \in DOMAIN commits |-> LineageStep(g, c)]
  BY <1>0, <1>2
<1> HIDE DEF n, Runs
<1> QED BY <1>3, <1>4

\* The ancestors of both sides.
LEMMA AncestorsRun ==
  ASSUME ParentsFit
  PROVE  Ancestors = [c \in DOMAIN commits |-> AncestorsStep(Ancestors, c)]
<1> DEFINE n == Len(commits)
           Runs(g, k) == g = [c \in 1..k |-> AncestorsStep(g, c)]
           Bad == {k \in Nat : k <= n /\ ~\E g : Runs(g, k)}
<1>0. n \in Nat /\ DOMAIN commits = 1..n
  BY CommitsAreNumbers
<1>1. ASSUME Bad # {} PROVE FALSE
  <2>0. Bad \in SUBSET Nat
    OBVIOUS
  <2>1. PICK k \in Bad : \A j \in Bad : k <= j
    BY <1>1, <2>0, SmallestOf
  <2> HIDE DEF n
  <2>2. CASE k = 0
    <3> DEFINE g == [c \in 1..0 |-> 0]
    <3>1. \A c \in 1..0 : AncestorsStep(g, c) = 0
      OBVIOUS
    <3>2. Runs(g, 0)
      BY <3>1
    <3> QED BY <2>1, <2>2, <3>2
  <2>3. CASE k # 0
    <3>1. k - 1 \in Nat /\ k - 1 <= n /\ k - 1 \notin Bad /\ k \in Nat /\ k <= n
      BY <1>0, <2>1, <2>3
    <3>2. PICK g : Runs(g, k - 1)
      BY <3>1
    <3> DEFINE h == [c \in 1..k |-> IF c = k THEN AncestorsStep(g, k) ELSE g[c]]
    <3>3. \A c \in 1..(k - 1) : h[c] = g[c] /\ g[c] = AncestorsStep(g, c)
      <4>1. \A c \in 1..(k - 1) : c \in 1..k /\ c # k
        BY <3>1
      <4>2. \A c \in 1..(k - 1) : h[c] = g[c]
        BY <4>1
      <4> HIDE DEF h
      <4>3. \A c \in 1..(k - 1) : g[c] = AncestorsStep(g, c)
        BY <3>2, Zenon
      <4> QED BY <4>2, <4>3
    <3>4. ASSUME NEW c \in 1..k PROVE AncestorsStep(h, c) = AncestorsStep(g, c)
      <4>1. c \in DOMAIN commits
        BY <1>0, <3>1
      <4>2. \A i \in DOMAIN commits[c].parents : commits[c].parents[i] \in 1..(k - 1)
        <5>1. CASE IsRoot(c)
          BY <5>1 DEF IsRoot
        <5>2. CASE ~IsRoot(c)
          BY <1>0, <3>1, <4>1, <5>2, CommitsAreNumbers
        <5> QED BY <5>1, <5>2
      <4>3. \A i \in DOMAIN commits[c].parents : h[commits[c].parents[i]] = g[commits[c].parents[i]]
        BY <3>3, <4>2
      <4> HIDE DEF h
      <4> QED BY <4>3 DEF AncestorsStep
    <3>5. \A c \in 1..k : h[c] = AncestorsStep(h, c)
      <4>1. \A c \in 1..k : c = k \/ c \in 1..(k - 1)
        BY <3>1
      <4>2. h[k] = AncestorsStep(g, k)
        BY <2>3, <3>1
      <4> HIDE DEF h
      <4> QED BY <3>3, <3>4, <4>1, <4>2
    <3>6. h = [c \in 1..k |-> h[c]]
      OBVIOUS
    <3> HIDE DEF h
    <3>7. Runs(h, k)
      BY <3>5, <3>6
    <3> QED BY <2>1, <3>7
  <2> QED BY <2>2, <2>3
<1>2. \E g : Runs(g, n)
  <2>1. n \notin Bad /\ n <= n
    BY <1>0, <1>1
  <2> QED BY <1>0, <2>1
<1>3. Ancestors = CHOOSE f : f = [c \in DOMAIN commits |-> AncestorsStep(f, c)]
  BY DEF Ancestors, AncestorsStep
<1>4. \E g : g = [c \in DOMAIN commits |-> AncestorsStep(g, c)]
  BY <1>0, <1>2
<1> HIDE DEF n, Runs
<1> QED BY <1>3, <1>4

\* What a commit descends from was made before it.
LEMMA AncestorsAreBefore ==
  ASSUME ParentsFit, NEW c \in DOMAIN commits
  PROVE  Ancestors[c] \subseteq 1..c
<1> DEFINE Bad == {d \in DOMAIN commits : ~(Ancestors[d] \subseteq 1..d)}
<1>1. ASSUME Bad # {} PROVE FALSE
  <2>0. Bad \in SUBSET Nat
    BY CommitsAreNumbers
  <2>1. PICK d \in Bad : \A e \in Bad : d <= e
    BY <1>1, <2>0, SmallestOf
  <2>2. Ancestors[d] = {d} \cup UNION {Ancestors[commits[d].parents[i]] : i \in DOMAIN commits[d].parents}
    BY <2>1, AncestorsRun DEF AncestorsStep
  <2>3. d \in Nat /\ d >= 1
    BY <2>1, CommitsAreNumbers
  <2>4. ASSUME NEW i \in DOMAIN commits[d].parents PROVE Ancestors[commits[d].parents[i]] \subseteq 1..d
    <3>1. ~IsRoot(d)
      BY <2>4 DEF IsRoot
    <3>2. commits[d].parents[i] \in DOMAIN commits /\ commits[d].parents[i] < d /\ commits[d].parents[i] \in Nat
      BY <2>1, <3>1, CommitsAreNumbers
    <3>3. commits[d].parents[i] \notin Bad
      BY <2>1, <2>3, <3>2
    <3>4. Ancestors[commits[d].parents[i]] \subseteq 1..commits[d].parents[i]
      BY <3>2, <3>3
    <3>5. 1..commits[d].parents[i] \subseteq 1..d
      BY <2>3, <3>2
    <3> QED BY <3>4, <3>5
  <2>5. d \in 1..d
    BY <2>3
  <2> QED BY <2>1, <2>2, <2>4, <2>5
<1> QED BY <1>1

\* What follows from the first parent is in a snapshot, too.
Entry(c) == IF IsRoot(c) THEN Begun ELSE Following(Replayed[FirstParent(c)], c)
SnapshotsFit ==
    /\ DOMAIN snapshots \subseteq DOMAIN commits
    /\ \A c \in DOMAIN snapshots : snapshots[c] = Entry(c)

\* Replay gives every commit what follows from its first parent, with snapshots or without.
LEMMA ReplayIsEntry ==
  ASSUME ParentsFit, SnapshotsFit, NEW c \in DOMAIN commits
  PROVE  Replayed[c] = Entry(c)
<1>1. Replayed[c] = ReplayStep(Replayed, c)
  BY ReplayRuns, Zenon
<1> QED BY <1>1 DEF ReplayStep, Entry, SnapshotsFit

\* The elements a patch is compared with are those replay has seen.
LEMMA KnownIsReplayed ==
  ASSUME ParentsFit, SnapshotsFit, NEW c \in DOMAIN commits
  PROVE  KnownIds(c) = Replayed[c].ids
<1> DEFINE New(d) == AppendedBy(d) \cup TakenBy(d)
           Bad == {d \in DOMAIN commits : KnownIds(d) # Replayed[d].ids}
<1>1. ASSUME Bad # {} PROVE FALSE
  <2>0. Bad \in SUBSET Nat
    BY CommitsAreNumbers
  <2>1. PICK d \in Bad : \A e \in Bad : d <= e
    BY <1>1, <2>0, SmallestOf
  <2>2. d \in DOMAIN commits /\ d \in Nat
    BY <2>1, CommitsAreNumbers
  <2>3. Lineage[d] = LineageStep(Lineage, d)
    BY <2>2, LineageRuns, Zenon
  <2>4. Replayed[d] = Entry(d)
    BY <2>2, ReplayIsEntry
  <2>5. KnownIds(d) = UNION {New(e) : e \in Lineage[d]}
    BY DEF KnownIds
  <2>6. CASE IsRoot(d)
    <3>1. d = 1 /\ commits[d].ops = <<>> /\ commits[d].taken = {}
      BY <2>2, <2>6, CommitsAreNumbers DEF ParentsFit
    <3>2. AppendedBy(d) = {} /\ TakenBy(d) = {}
      BY <3>1 DEF AppendedBy, TakenBy
    <3>3. Lineage[d] = {d}
      BY <2>3, <2>6 DEF LineageStep
    <3>4. KnownIds(d) = {}
      BY <2>5, <3>2, <3>3
    <3>5. Replayed[d].ids = {}
      BY <2>4, <2>6 DEF Entry, Begun
    <3> QED BY <2>1, <3>4, <3>5
  <2>7. CASE ~IsRoot(d)
    <3> DEFINE p == FirstParent(d)
    <3>1. p \in DOMAIN commits /\ p < d /\ p \in Nat
      BY <2>2, <2>7, CommitsAreNumbers
    <3>2. KnownIds(p) = Replayed[p].ids
      <4>1. p \notin Bad
        BY <2>1, <2>2, <3>1
      <4> QED BY <3>1, <4>1
    <3>3. Lineage[d] = {d} \cup Lineage[p]
      BY <2>3, <2>7 DEF LineageStep
    <3>4. KnownIds(p) = UNION {New(e) : e \in Lineage[p]}
      BY DEF KnownIds
    <3> HIDE DEF New, p
    <3>5. KnownIds(d) = New(d) \cup KnownIds(p)
      BY <2>5, <3>3, <3>4
    <3>6. Replayed[d].ids = Replayed[p].ids \cup New(d)
      <4>1. Replayed[d].ids = Replayed[p].ids \cup AppendedBy(d) \cup TakenBy(d)
        BY <2>4, <2>7 DEF Entry, Following, p
      <4> QED BY <4>1 DEF New
    <3> QED BY <2>1, <3>2, <3>5, <3>6
  <2> QED BY <2>6, <2>7
<1> QED BY <1>1

\* The invariant of the store. An appended item is told apart by its commit and its place
\* there, and a commit by its branch and its number on it.
RowsFit == \A c \in DOMAIN commits : commits[c].branch \in Branches /\ commits[c].base \in 1..c
DocsFit == \A c \in DOMAIN commits : IsWhole(Doc(c))
HeadsFit ==
    /\ branches \in [Branches -> [status : {"unused", "active", "merged"}, head : DOMAIN commits]]
    /\ DOMAIN projection = Branches
    /\ \A b \in Branches :
         /\ DOMAIN projection[b] = Members
         /\ branches[b].status # "unused" => projection[b] = Doc(HeadOf(b))
OriginsFit ==
    /\ \A c \in DOMAIN commits :
         /\ commits[c].seq \in Nat
         /\ branches[commits[c].branch].status # "unused"
         /\ commits[c].seq <= commits[HeadOf(commits[c].branch)].seq
    /\ \A c, d \in DOMAIN commits :
         commits[c].branch = commits[d].branch /\ commits[c].seq = commits[d].seq => c = d
ItemOf(c, i) ==
    [path |-> commits[c].ops[i].path, element |-> commits[c].ops[i].element, branch |-> commits[c].branch,
     seq |-> commits[c].seq, operation |-> commits[c].operation, index |-> i]
IsItem(x) == \E c \in DOMAIN commits : \E i \in DOMAIN commits[c].ops : x = ItemOf(c, i)
AreItems(X) == IsFiniteSet(X) /\ \A x \in X : IsItem(x)
TakenFit == \A c \in DOMAIN commits : AreItems(commits[c].taken)
MergesFit ==
    \A c \in DOMAIN commits : IsMerge(c) =>
      \A m \in Members \ commits[c].chosen :
        KeepsBoth(Doc(commits[c].base)[m], Doc(commits[c].parents[2])[m], Doc(commits[c].parents[1])[m], Doc(c)[m])
StoreInv ==
    /\ ParentsFit /\ SnapshotsFit /\ RowsFit /\ DocsFit /\ HeadsFit
    /\ OriginsFit /\ TakenFit /\ MergesFit

ReplayHolds == Replayed = [c \in DOMAIN commits |-> ReplayStep(Replayed, c)]
NumbersHold ==
    /\ Len(commits) \in Nat /\ DOMAIN commits = 1..Len(commits)
    /\ \A c \in DOMAIN commits : c \in Nat /\ (IsRoot(c) <=> c = 1)
    /\ \A c \in DOMAIN commits : ~IsRoot(c) => FirstParent(c) \in DOMAIN commits /\ FirstParent(c) < c
\* Replay and its equation, also after a step.
LEMMA FitsHold == ParentsFit => ReplayHolds /\ NumbersHold
BY ReplayRuns, CommitsAreNumbers DEF ReplayHolds, NumbersHold

\* Commits that stay keep what they replay to, whatever snapshots of it are there.
LEMMA ReplayStands ==
  ASSUME ParentsFit, SnapshotsFit, ParentsFit',
         \A c \in DOMAIN commits : c \in DOMAIN commits' /\ commits'[c] = commits[c],
         \A c \in DOMAIN commits : c \in DOMAIN snapshots' => snapshots'[c] = Replayed[c]
  PROVE  \A c \in DOMAIN commits : Replayed'[c] = Replayed[c] /\ Entry(c)' = Entry(c)
<1> DEFINE Bad == {c \in DOMAIN commits : Replayed'[c] # Replayed[c]}
<1>1. ReplayHolds' /\ NumbersHold /\ NumbersHold'
  <2>1. ParentsFit' => ReplayHolds' /\ NumbersHold'
    BY FitsHold, PTL
  <2> QED BY <2>1, FitsHold
<1>2. ASSUME NEW c \in DOMAIN commits
      PROVE  /\ IsRoot(c)' = IsRoot(c) /\ FirstParent(c)' = FirstParent(c)
             /\ \A before : Following(before, c)' = Following(before, c)
  BY <1>2 DEF IsRoot, FirstParent, Following, AppendedBy, TakenBy
<1>3. ASSUME NEW c \in DOMAIN commits, ~IsRoot(c) => Replayed'[FirstParent(c)] = Replayed[FirstParent(c)]
      PROVE  Entry(c)' = Entry(c)
  <2>1. CASE IsRoot(c)
    BY <1>2, <2>1 DEF Entry, Begun
  <2>2. CASE ~IsRoot(c)
    <3>2. Entry(c)' = Following(Replayed[FirstParent(c)], c)'
      BY <1>2, <2>2 DEF Entry
    <3>3. Entry(c) = Following(Replayed[FirstParent(c)], c)
      BY <2>2 DEF Entry
    <3>4. Following(Replayed[FirstParent(c)], c)' = Following(Replayed'[FirstParent(c)], c)
      BY <1>2 DEF Following, AppendedBy, TakenBy
    <3> QED BY <1>3, <2>2, <3>2, <3>3, <3>4
  <2> QED BY <2>1, <2>2
<1>4. ASSUME Bad # {} PROVE FALSE
  <2>0. Bad \in SUBSET Nat
    BY <1>1 DEF NumbersHold
  <2>1. PICK c \in Bad : \A d \in Bad : c <= d
    BY <1>4, <2>0, SmallestOf
  <2>2. c \in DOMAIN commits /\ c \in DOMAIN commits' /\ c \in Nat
    BY <2>1, <1>1 DEF NumbersHold
  <2>3. ~IsRoot(c) => Replayed'[FirstParent(c)] = Replayed[FirstParent(c)]
    <3>1. ~IsRoot(c) => FirstParent(c) \in DOMAIN commits /\ FirstParent(c) < c /\ FirstParent(c) \in Nat
      BY <1>1, <2>2 DEF NumbersHold
    <3>2. ~IsRoot(c) => FirstParent(c) \notin Bad
      BY <2>1, <2>2, <3>1
    <3> QED BY <3>1, <3>2
  <2>4. Replayed'[c] = ReplayStep(Replayed, c)'
    BY <1>1, <2>2, Zenon DEF ReplayHolds
  <2>5. Replayed[c] = Entry(c) /\ Entry(c)' = Entry(c)
    BY <1>3, <2>2, <2>3, ReplayIsEntry
  <2>6. CASE c \in DOMAIN snapshots'
    BY <2>1, <2>2, <2>4, <2>6 DEF ReplayStep
  <2>7. CASE c \notin DOMAIN snapshots'
    <3>1. Replayed'[c] = Entry(c)'
      BY <2>4, <2>7 DEF ReplayStep, Entry
    <3> QED BY <2>1, <2>5, <3>1
  <2> QED BY <2>6, <2>7
<1>5. \A c \in DOMAIN commits : Replayed'[c] = Replayed[c]
  BY <1>4
<1>6. \A c \in DOMAIN commits : Entry(c)' = Entry(c)
  BY <1>1, <1>3, <1>5 DEF NumbersHold
<1> QED BY <1>5, <1>6

-----------------------------------------------------------------------------
(* What is appended since a base: items, each of one place in one commit.   *)
\* The values of a function over finitely many arguments are finitely many.
LEMMA ImageIsFinite ==
  ASSUME NEW S, IsFiniteSet(S), NEW f, DOMAIN f = S
  PROVE  IsFiniteSet({f[x] : x \in S})
<1> DEFINE T == {f[x] : x \in S}
           g == [x \in S |-> f[x]]
<1>1. g \in Surjection(S, T)
  <2>1. g \in [S -> T]
    OBVIOUS
  <2>2. \A t \in T : \E x \in S : g[x] = t
    OBVIOUS
  <2> HIDE DEF g, T
  <2> QED BY <2>1, <2>2 DEF Surjection
<1> HIDE DEF g, T
<1>2. IsFiniteSet(T)
  BY <1>1, FS_Surjection
<1> QED BY <1>2 DEF T

\* What the appends since a commit are of the commits on the way.
NothingNew == [items |-> {}, blocked |-> {}]
HistoryStep(g, base, known, c) ==
    IF c = base \/ IsRoot(c) THEN NothingNew
    ELSE IF IsMerge(c) THEN AfterMerge(g[FirstParent(c)], c, known)
    ELSE AfterPatch(g[FirstParent(c)], c, known)
\* They follow from those of the first parent.
LEMMA HistoryRuns ==
  ASSUME ParentsFit, NEW head, NEW base, base \in Lineage[head]
  PROVE  \E g, known : /\ g = [c \in DOMAIN commits |-> HistoryStep(g, base, known, c)]
                       /\ AppendHistory(head, base) = g[head]
<1> DEFINE n == Len(commits)
           known == Replayed[base].ids
           Runs(g, k) == g = [c \in 1..k |-> HistoryStep(g, base, known, c)]
           Bad == {k \in Nat : k <= n /\ ~\E g : Runs(g, k)}
<1>0. n \in Nat /\ DOMAIN commits = 1..n
  BY CommitsAreNumbers
<1>1. ASSUME Bad # {} PROVE FALSE
  <2>0. Bad \in SUBSET Nat
    OBVIOUS
  <2>1. PICK k \in Bad : \A j \in Bad : k <= j
    BY <1>1, <2>0, SmallestOf
  <2> HIDE DEF n, known
  <2>2. CASE k = 0
    <3> DEFINE g == [c \in 1..0 |-> 0]
    <3>1. \A c \in 1..0 : HistoryStep(g, base, known, c) = 0
      OBVIOUS
    <3>2. Runs(g, 0)
      BY <3>1
    <3> QED BY <2>1, <2>2, <3>2
  <2>3. CASE k # 0
    <3>1. k - 1 \in Nat /\ k - 1 <= n /\ k - 1 \notin Bad /\ k \in Nat /\ k <= n
      BY <1>0, <2>1, <2>3
    <3>2. PICK g : Runs(g, k - 1)
      BY <3>1
    <3> DEFINE h == [c \in 1..k |-> IF c = k THEN HistoryStep(g, base, known, k) ELSE g[c]]
    <3>3. \A c \in 1..(k - 1) : h[c] = g[c] /\ g[c] = HistoryStep(g, base, known, c)
      <4>1. \A c \in 1..(k - 1) : c \in 1..k /\ c # k
        BY <3>1
      <4>2. \A c \in 1..(k - 1) : h[c] = g[c]
        BY <4>1
      <4> HIDE DEF h
      <4>3. \A c \in 1..(k - 1) : g[c] = HistoryStep(g, base, known, c)
        BY <3>2, Zenon
      <4> QED BY <4>2, <4>3
    <3>4. ASSUME NEW c \in 1..k PROVE HistoryStep(h, base, known, c) = HistoryStep(g, base, known, c)
      <4>1. c \in DOMAIN commits
        BY <1>0, <3>1
      <4>2. ~IsRoot(c) => FirstParent(c) \in 1..(k - 1)
        BY <1>0, <3>1, <4>1, CommitsAreNumbers
      <4>3. ~IsRoot(c) => h[FirstParent(c)] = g[FirstParent(c)]
        BY <3>3, <4>2
      <4> HIDE DEF h
      <4> QED BY <4>3 DEF HistoryStep
    <3>5. \A c \in 1..k : h[c] = HistoryStep(h, base, known, c)
      <4>1. \A c \in 1..k : c = k \/ c \in 1..(k - 1)
        BY <3>1
      <4>2. h[k] = HistoryStep(g, base, known, k)
        BY <2>3, <3>1
      <4> HIDE DEF h
      <4> QED BY <3>3, <3>4, <4>1, <4>2
    <3>6. h = [c \in 1..k |-> h[c]]
      OBVIOUS
    <3> HIDE DEF h
    <3>7. Runs(h, k)
      BY <3>5, <3>6
    <3> QED BY <2>1, <3>7
  <2> QED BY <2>2, <2>3
<1>2. \E g : Runs(g, n)
  <2>1. n \notin Bad /\ n <= n
    BY <1>0, <1>1
  <2> QED BY <1>0, <2>1
<1>3. \E g : g = [c \in DOMAIN commits |-> HistoryStep(g, base, known, c)]
  BY <1>0, <1>2
<1> DEFINE p == CHOOSE g : g = [c \in DOMAIN commits |-> HistoryStep(g, base, known, c)]
<1>4. AppendHistory(head, base) = p[head]
  BY DEF AppendHistory, HistoryStep, NothingNew
<1>5. p = [c \in DOMAIN commits |-> HistoryStep(p, base, known, c)]
  BY <1>3
<1> QED BY <1>4, <1>5

\* A step adds items of its commit, or items its merge has taken.
LEMMA StepsAddItems ==
  ASSUME ParentsFit, TakenFit, NEW h, AreItems(h.items), NEW c \in DOMAIN commits, NEW known
  PROVE  AreItems(AfterMerge(h, c, known).items) /\ AreItems(AfterPatch(h, c, known).items)
<1>1. AreItems(AfterMerge(h, c, known).items)
  <2> DEFINE X == AfterMerge(h, c, known).items
             taken == commits[c].taken
  <2>1. AreItems(taken)
    BY DEF TakenFit
  <2>2. X \in SUBSET (h.items \cup taken)
    BY DEF AfterMerge
  <2> HIDE DEF X, taken
  <2>3. IsFiniteSet(h.items \cup taken)
    BY <2>1, FS_Union DEF AreItems
  <2>4. IsFiniteSet(X)
    BY <2>2, <2>3, FS_Subset
  <2>5. \A x \in X : IsItem(x)
    BY <2>1, <2>2 DEF AreItems
  <2> QED BY <2>4, <2>5 DEF AreItems, X
<1>2. AreItems(AfterPatch(h, c, known).items)
  <2> DEFINE k == commits[c]
             new == {i \in DOMAIN k.ops : k.ops[i].kind = "append" /\ k.ops[i].element \notin known \cup Elements(h.items)}
             f == [i \in new |-> ItemOf(c, i)]
             N == {f[i] : i \in new}
  <2>1. AfterPatch(h, c, known).items = h.items \cup {ItemOf(c, i) : i \in new}
    BY DEF AfterPatch, ItemOf
  <2>2. {ItemOf(c, i) : i \in new} = N
    OBVIOUS
  <2>3. IsFiniteSet(DOMAIN k.ops)
    <3>1. CASE c = 1
      <4>1. k.ops = <<>>
        BY <3>1 DEF ParentsFit
      <4>2. DOMAIN k.ops = {}
        BY <4>1
      <4> HIDE DEF k
      <4> QED BY <4>2, FS_EmptySet
    <3>2. CASE c # 1
      <4>1. IsSequence(k.ops)
        BY <3>2 DEF ParentsFit
      <4> HIDE DEF k
      <4>2. DOMAIN k.ops = 1..Len(k.ops) /\ Len(k.ops) \in Int /\ 1 \in Int
        BY <4>1, SequenceHas
      <4> QED BY <4>2, FS_Interval
    <3> QED BY <3>1, <3>2
  <2>4. new \in SUBSET DOMAIN k.ops
    OBVIOUS
  <2>5. DOMAIN f = new
    OBVIOUS
  <2>6. \A x \in N : IsItem(x)
    <3>1. \A i \in new : i \in DOMAIN commits[c].ops /\ f[i] = ItemOf(c, i)
      OBVIOUS
    <3> HIDE DEF f, new
    <3> QED BY <3>1 DEF IsItem
  <2> HIDE DEF k, new, f
  <2>7. IsFiniteSet(N)
    <3>1. IsFiniteSet(new)
      BY <2>3, <2>4, FS_Subset
    <3> QED BY <2>5, <3>1, ImageIsFinite
  <2> HIDE DEF N
  <2>8. IsFiniteSet(h.items \cup N)
    BY <2>7, FS_Union DEF AreItems
  <2>9. \A x \in h.items \cup N : IsItem(x)
    BY <2>6 DEF AreItems
  <2> QED BY <2>1, <2>2, <2>8, <2>9 DEF AreItems
<1> QED BY <1>1, <1>2

\* What counts as appended are items of the history.
LEMMA HistoryHasItems ==
  ASSUME ParentsFit, TakenFit, NEW head \in DOMAIN commits, NEW base
  PROVE  AreItems(AppendHistory(head, base).items)
<1>0. AreItems({})
  BY FS_EmptySet DEF AreItems
<1>1. CASE base \notin Lineage[head]
  <2>1. AppendHistory(head, base) = [items |-> {}, blocked |-> {Root}]
    BY <1>1 DEF AppendHistory
  <2>2. AppendHistory(head, base).items = {}
    BY <2>1
  <2> QED BY <1>0, <2>2
<1>2. CASE base \in Lineage[head]
  <2>1. PICK g, known : /\ g = [c \in DOMAIN commits |-> HistoryStep(g, base, known, c)]
                        /\ AppendHistory(head, base) = g[head]
    BY <1>2, HistoryRuns
  <2> DEFINE Bad == {c \in DOMAIN commits : ~AreItems(g[c].items)}
  <2>2. ASSUME Bad # {} PROVE FALSE
    <3>0. Bad \in SUBSET Nat
      BY CommitsAreNumbers
    <3>1. PICK c \in Bad : \A d \in Bad : c <= d
      BY <2>2, <3>0, SmallestOf
    <3>2. g[c] = HistoryStep(g, base, known, c)
      BY <2>1, <3>1, Zenon
    <3>3. CASE c = base \/ IsRoot(c)
      <4>1. g[c].items = {}
        BY <3>2, <3>3 DEF HistoryStep, NothingNew
      <4> QED BY <1>0, <3>1, <4>1
    <3>4. CASE ~(c = base \/ IsRoot(c))
      <4>1. FirstParent(c) \in DOMAIN commits /\ FirstParent(c) < c /\ c \in DOMAIN commits /\ c \in Nat /\ FirstParent(c) \in Nat
        BY <3>1, <3>4, CommitsAreNumbers
      <4>2. FirstParent(c) \notin Bad
        BY <3>1, <4>1
      <4>3. PICK h : h = g[FirstParent(c)]
        OBVIOUS
      <4>4. AreItems(h.items)
        BY <4>1, <4>2, <4>3
      <4>5. AreItems(AfterMerge(h, c, known).items) /\ AreItems(AfterPatch(h, c, known).items)
        BY <4>1, <4>4, StepsAddItems
      <4>6. g[c] = AfterMerge(h, c, known) \/ g[c] = AfterPatch(h, c, known)
        BY <3>2, <3>4, <4>3 DEF HistoryStep
      <4>7. AreItems(g[c].items)
        BY <4>5, <4>6
      <4> QED BY <3>1, <4>7
    <3> QED BY <3>3, <3>4
  <2>3. AreItems(g[head].items)
    BY <2>2
  <2> QED BY <2>1, <2>3
<1> QED BY <1>1, <1>2

\* Items of the history are told apart by where they come from.
LEMMA ItemsAreOrdered ==
  ASSUME ParentsFit, RowsFit, OriginsFit, NEW X, \A x \in X : IsItem(x)
  PROVE  Ordered(X)
<1>1. ASSUME NEW x \in X
      PROVE  \E c \in DOMAIN commits, i \in Nat :
               x = ItemOf(c, i) /\ x.branch = commits[c].branch /\ x.seq = commits[c].seq /\ x.index = i
  <2>1. PICK c \in DOMAIN commits : \E i \in DOMAIN commits[c].ops : x = ItemOf(c, i)
    BY DEF IsItem
  <2>2. PICK i \in DOMAIN commits[c].ops : x = ItemOf(c, i)
    BY <2>1
  <2>3. i \in Nat
    <3>1. CASE c = 1
      <4>1. commits[c].ops = <<>>
        BY <3>1 DEF ParentsFit
      <4>2. DOMAIN commits[c].ops = {}
        BY <4>1
      <4> QED BY <4>2
    <3>2. CASE c # 1
      <4>1. IsSequence(commits[c].ops)
        BY <3>2 DEF ParentsFit
      <4>2. DOMAIN commits[c].ops = 1..Len(commits[c].ops)
        BY <4>1, SequenceHas
      <4> QED BY <4>2
    <3> QED BY <3>1, <3>2
  <2>4. x.branch = commits[c].branch /\ x.seq = commits[c].seq /\ x.index = i
    BY <2>2 DEF ItemOf
  <2> QED BY <2>2, <2>3, <2>4
<1>2. \A c \in DOMAIN commits : commits[c].branch \in Nat /\ commits[c].seq \in Nat
  BY ContextAssumption DEF RowsFit, OriginsFit
<1>3. ASSUME NEW x \in X PROVE x.branch \in Nat /\ x.seq \in Nat /\ x.index \in Nat
  BY <1>1, <1>2
<1>4. ASSUME NEW x \in X, NEW y \in X, x.branch = y.branch, x.seq = y.seq, x.index = y.index PROVE x = y
  <2>1. PICK c \in DOMAIN commits, i \in Nat :
          x = ItemOf(c, i) /\ x.branch = commits[c].branch /\ x.seq = commits[c].seq /\ x.index = i
    BY <1>1
  <2>2. PICK d \in DOMAIN commits, j \in Nat :
          y = ItemOf(d, j) /\ y.branch = commits[d].branch /\ y.seq = commits[d].seq /\ y.index = j
    BY <1>1
  <2>3. c = d /\ i = j
    BY <1>4, <2>1, <2>2 DEF OriginsFit
  <2> QED BY <2>1, <2>2, <2>3
<1> QED BY <1>3, <1>4 DEF Ordered

-----------------------------------------------------------------------------
(* The transactions, one after the other.                                   *)
\* One more commit, which follows from its first parent.
LEMMA CommitGrows ==
  ASSUME StoreInv, UNCHANGED snapshots, NEW k, commits' = Append(commits, k), NEW new, new = Len(commits) + 1,
         k.parents \in [1..1 -> DOMAIN commits] \cup [1..2 -> DOMAIN commits],
         IsSequence(k.ops), \A i \in DOMAIN k.ops : WellFormed(k.ops[i]),
         k.branch \in Branches, k.base \in DOMAIN commits,
         NEW next, IsWhole(next),
         next = Patched(k.ops, Replayed[k.parents[1]].ids, Replayed[k.parents[1]].doc)
  PROVE  /\ ParentsFit' /\ SnapshotsFit' /\ RowsFit' /\ DocsFit'
         /\ \A c \in DOMAIN commits : Doc(c)' = Doc(c)
         /\ new \notin DOMAIN commits /\ DOMAIN commits' = DOMAIN commits \cup {new} /\ commits'[new] = k
         /\ \A c \in DOMAIN commits : commits'[c] = commits[c]
         /\ Doc(new)' = next
<1>0. IsSequence(commits) /\ Len(commits) >= 1
  BY DEF StoreInv, ParentsFit
<1>1. /\ IsSequence(commits') /\ Len(commits) \in Nat /\ Len(commits') = new /\ DOMAIN commits = 1..Len(commits)
      /\ DOMAIN commits' = 1..new
      /\ \A c \in 1..Len(commits) : commits'[c] = commits[c]
      /\ commits'[new] = k
  <2> DEFINE t == Append(commits, k)
  <2>1. IsSequence(t) /\ Len(t) = Len(commits) + 1 /\ DOMAIN t = 1..(Len(commits) + 1)
    BY <1>0, AppendsToSequence, Zenon
  <2>2. Len(commits) \in Nat /\ DOMAIN commits = 1..Len(commits) /\ t[Len(commits) + 1] = k
    BY <1>0, AppendsToSequence, Zenon
  <2>3. \A c \in 1..Len(commits) : t[c] = commits[c]
    BY <2>2
  <2> HIDE DEF t
  <2>4. commits' = t
    BY DEF t
  <2> QED BY <2>1, <2>2, <2>3, <2>4
<1>2. new \in Nat /\ new - 1 = Len(commits) /\ new # 1 /\ new \notin DOMAIN commits /\ new \in DOMAIN commits'
  BY <1>0, <1>1
<1>3. ParentsFit'
  <2>1. commits'[1] = commits[1] /\ Len(commits') >= 1
    BY <1>1, <1>2
  <2>2. ASSUME NEW c \in DOMAIN commits' \ {1}
        PROVE  /\ commits'[c].parents \in [1..1 -> 1..(c - 1)] \cup [1..2 -> 1..(c - 1)]
               /\ IsSequence(commits'[c].ops) /\ \A i \in DOMAIN commits'[c].ops : WellFormed(commits'[c].ops[i])
    <3>1. CASE c = new
      BY <1>1, <1>2, <3>1
    <3>2. CASE c # new
      <4>1. c \in DOMAIN commits \ {1} /\ commits'[c] = commits[c]
        BY <1>1, <3>2
      <4> QED BY <4>1 DEF StoreInv, ParentsFit
    <3> QED BY <3>1, <3>2
  <2>3. commits'[1].parents = <<>> /\ commits'[1].ops = <<>> /\ commits'[1].taken = {}
    BY <2>1 DEF StoreInv, ParentsFit
  <2> QED BY <1>1, <2>1, <2>2, <2>3 DEF ParentsFit
<1>4. \A c \in DOMAIN commits : Replayed'[c] = Replayed[c] /\ Entry(c)' = Entry(c)
  <2>1. \A c \in DOMAIN commits : c \in DOMAIN commits' /\ commits'[c] = commits[c]
    BY <1>1
  <2>2. \A c \in DOMAIN commits : c \in DOMAIN snapshots' => snapshots'[c] = Replayed[c]
    BY ReplayIsEntry DEF StoreInv, SnapshotsFit
  <2> QED BY <1>3, <2>1, <2>2, ReplayStands DEF StoreInv
<1>5. SnapshotsFit'
  BY <1>1, <1>4 DEF StoreInv, SnapshotsFit
<1>6. RowsFit'
  <2>1. ASSUME NEW c \in DOMAIN commits' PROVE commits'[c].branch \in Branches /\ commits'[c].base \in 1..c
    <3>1. CASE c = new
      BY <1>1, <1>2, <3>1
    <3>2. CASE c # new
      <4>1. c \in DOMAIN commits /\ commits'[c] = commits[c]
        BY <1>1, <3>2
      <4> QED BY <4>1 DEF StoreInv, RowsFit
    <3> QED BY <3>1, <3>2
  <2> QED BY <2>1 DEF RowsFit
<1>7. Replayed'[new].doc = next
  <2>1. ParentsFit' /\ SnapshotsFit' => ReplayHolds' /\ NumbersHold'
    BY FitsHold, PTL
  <2>2. Replayed'[new] = ReplayStep(Replayed, new)'
    BY <1>2, <1>3, <1>5, <2>1, Zenon DEF ReplayHolds
  <2>3. new \notin DOMAIN snapshots'
    BY <1>2 DEF StoreInv, SnapshotsFit
  <2>4. ~IsRoot(new)'
    BY <1>2, <1>3, <1>5, <2>1 DEF NumbersHold
  <2>5. FirstParent(new)' = k.parents[1] /\ k.parents[1] \in DOMAIN commits
    <3>1. FirstParent(new)' = k.parents[1]
      BY <1>1 DEF FirstParent
    <3>2. k.parents[1] \in DOMAIN commits
      OBVIOUS
    <3> QED BY <3>1, <3>2
  <2>6. Replayed'[new] = Following(Replayed[k.parents[1]], new)'
    <3>1. Replayed'[new] = Following(Replayed[FirstParent(new)], new)'
      BY <2>2, <2>3, <2>4 DEF ReplayStep
    <3>2. Replayed'[k.parents[1]] = Replayed[k.parents[1]]
      BY <1>4, <2>5
    <3>3. Following(Replayed[FirstParent(new)], new)' = Following(Replayed[k.parents[1]], new)'
      BY <2>5 DEF Following
    <3> QED BY <3>1, <3>3
  <2>7. Following(Replayed[k.parents[1]], new)'.doc = Patched(k.ops, Replayed'[k.parents[1]].ids, Replayed'[k.parents[1]].doc)
    BY <1>1 DEF Following
  <2> QED BY <1>4, <2>5, <2>6, <2>7
<1>8. \A c \in DOMAIN commits : Doc(c)' = Doc(c)
  BY <1>4 DEF Doc
<1>9. Doc(new)' = next
  BY <1>7 DEF Doc
<1>10. DocsFit'
  <2>1. ASSUME NEW c \in DOMAIN commits' PROVE IsWhole(Doc(c))'
    <3>1. CASE c = new
      <4>1. IsWhole(Replayed'[new].doc)
        BY <1>7
      <4> QED BY <3>1, <4>1 DEF Doc, IsWhole, IsSequence, Members
    <3>2. CASE c # new
      <4>1. c \in DOMAIN commits
        BY <1>1, <3>2
      <4>2. IsWhole(Replayed'[c].doc)
        BY <1>4, <4>1 DEF StoreInv, DocsFit, Doc
      <4> QED BY <4>2 DEF Doc, IsWhole, IsSequence, Members
    <3> QED BY <3>1, <3>2
  <2> QED BY <2>1 DEF DocsFit
<1>11. DOMAIN commits' = DOMAIN commits \cup {new}
  <2>1. \A c \in 1..new : c \in 1..Len(commits) \/ c = new
    BY <1>1, <1>2
  <2>2. \A c \in 1..Len(commits) : c \in 1..new
    BY <1>1, <1>2
  <2> QED BY <1>1, <1>2, <2>1, <2>2
<1> QED BY <1>1, <1>2, <1>3, <1>5, <1>6, <1>8, <1>9, <1>10, <1>11

\* A sequence of one.
LEMMA OnlyOne ==
  ASSUME NEW x
  PROVE  /\ IsSequence(<<x>>) /\ Len(<<x>>) = 1 /\ <<x>>[1] = x /\ DOMAIN <<x>> = 1..1
         /\ \A i \in DOMAIN <<x>> : <<x>>[i] = x
<1>1. Len(<<x>>) = 1 /\ <<x>>[1] = x /\ DOMAIN <<x>> = 1..1
  OBVIOUS
<1>2. x \in Range(<<x>>)
  BY <1>1 DEF Range
<1>3. <<x>> \in Seq(Range(<<x>>))
  BY <1>2
<1>4. \A i \in DOMAIN <<x>> : <<x>>[i] = x
  BY <1>1
<1> QED BY <1>1, <1>3, <1>4 DEF IsSequence

\* A branch that points at another commit, beside which its document is kept.
LEMMA HeadMoves ==
  ASSUME StoreInv, DOMAIN commits \subseteq DOMAIN commits', \A c \in DOMAIN commits : Doc(c)' = Doc(c),
         NEW b \in Branches, NEW h \in DOMAIN commits', NEW doc, DOMAIN doc = Members, Doc(h)' = doc,
         branches' \in [Branches -> [status : {"unused", "active", "merged"}, head : DOMAIN commits']],
         branches'[b].head = h,
         \A c \in Branches \ {b} : /\ branches'[c].head = branches[c].head
                                   /\ branches'[c].status # "unused" => branches[c].status # "unused",
         projection' = [projection EXCEPT ![b] = doc]
  PROVE  HeadsFit'
<1>1. DOMAIN projection' = Branches /\ projection'[b] = doc /\ \A c \in Branches \ {b} : projection'[c] = projection[c]
  BY DEF StoreInv, HeadsFit
<1>2. ASSUME NEW c \in Branches
      PROVE  DOMAIN projection'[c] = Members /\ (branches'[c].status # "unused" => projection'[c] = Replayed'[branches'[c].head].doc)
  <2>1. CASE c = b
    <3>1. Replayed'[h].doc = doc
      BY DEF Doc
    <3> QED BY <1>1, <2>1, <3>1
  <2>2. CASE c # b
    <3>1. projection'[c] = projection[c] /\ branches'[c].head = branches[c].head
      BY <1>1, <2>2
    <3>2. DOMAIN projection[c] = Members
      BY DEF StoreInv, HeadsFit
    <3>3. ASSUME branches'[c].status # "unused" PROVE projection'[c] = Replayed'[branches'[c].head].doc
      <4>1. branches[c].status # "unused"
        BY <2>2, <3>3
      <4>2. projection[c] = Doc(branches[c].head) /\ branches[c].head \in DOMAIN commits
        BY <4>1 DEF StoreInv, HeadsFit, HeadOf
      <4>4. PICK g : g = branches[c].head
        OBVIOUS
      <4>5. Doc(g)' = Doc(g)
        BY <4>2, <4>4
      <4>6. Replayed'[g].doc = Replayed[g].doc
        BY <4>5 DEF Doc
      <4> QED BY <3>1, <4>2, <4>4, <4>6 DEF Doc
    <3> QED BY <3>1, <3>2, <3>3
  <2> QED BY <2>1, <2>2
<1>3. \A c \in Branches : Doc(HeadOf(c))' = Replayed'[branches'[c].head].doc
  BY DEF HeadOf, Doc
<1> QED BY <1>1, <1>2, <1>3 DEF HeadsFit, Members

\* What holds of an active branch: its projection is the document of its head.
LEMMA ActiveHead ==
  ASSUME StoreInv, NEW b \in Branches, IsActive(b)
  PROVE  /\ HeadOf(b) \in DOMAIN commits /\ projection[b] = Replayed[HeadOf(b)].doc
         /\ DOMAIN projection[b] = Members /\ KnownIds(HeadOf(b)) = Replayed[HeadOf(b)].ids
<1>1. HeadOf(b) \in DOMAIN commits /\ branches[b].status = "active"
  BY DEF StoreInv, HeadsFit, HeadOf, IsActive
<1>2. projection[b] = Doc(HeadOf(b)) /\ DOMAIN projection[b] = Members
  BY <1>1 DEF StoreInv, HeadsFit
<1>3. KnownIds(HeadOf(b)) = Replayed[HeadOf(b)].ids
  BY <1>1, KnownIsReplayed DEF StoreInv
<1> QED BY <1>1, <1>2, <1>3 DEF Doc

\* One commit more.
Grown(new, k) ==
    /\ new \notin DOMAIN commits /\ DOMAIN commits' = DOMAIN commits \cup {new} /\ commits'[new] = k
    /\ \A c \in DOMAIN commits : commits'[c] = commits[c]

\* It is the latest of its branch.
LEMMA OriginsGrow ==
  ASSUME StoreInv, NEW new, NEW k, Grown(new, k), NEW b \in Branches, IsActive(b),
         k.branch = b, k.seq = commits[HeadOf(b)].seq + 1,
         branches'[b].head = new, branches'[b].status # "unused",
         \A a \in Branches \ {b} : /\ branches'[a].head = branches[a].head
                                   /\ branches[a].status # "unused" => branches'[a].status # "unused"
  PROVE  OriginsFit'
<1>1. HeadOf(b) \in DOMAIN commits /\ commits[HeadOf(b)].seq \in Nat /\ k.seq \in Nat
  <2>1. HeadOf(b) \in DOMAIN commits
    BY DEF StoreInv, HeadsFit, HeadOf
  <2> QED BY <2>1 DEF StoreInv, OriginsFit
<1>2. \A c \in DOMAIN commits : commits[c].branch \in Branches /\ commits[c].seq \in Nat
  BY DEF StoreInv, RowsFit, OriginsFit
<1>3. ASSUME NEW c \in DOMAIN commits, commits[c].branch = b PROVE commits[c].seq < k.seq
  BY <1>1, <1>2, <1>3 DEF StoreInv, OriginsFit
<1>4. ASSUME NEW c \in DOMAIN commits'
      PROVE  /\ commits'[c].seq \in Nat
             /\ branches'[commits'[c].branch].status # "unused"
             /\ commits'[c].seq <= commits'[branches'[commits'[c].branch].head].seq
  <2>1. CASE c = new
    BY <1>1, <2>1 DEF Grown
  <2>2. CASE c # new
    <3>1. c \in DOMAIN commits /\ commits'[c] = commits[c]
      BY <2>2 DEF Grown
    <3>2. PICK a : a = commits[c].branch
      OBVIOUS
    <3>3. a \in Branches /\ commits[c].seq \in Nat
      BY <1>2, <3>1, <3>2
    <3>4. branches[a].status # "unused" /\ commits[c].seq <= commits[branches[a].head].seq
      BY <3>1, <3>2 DEF StoreInv, OriginsFit, HeadOf
    <3>5. CASE a = b
      <4>1. commits'[branches'[a].head].seq = k.seq
        BY <3>5 DEF Grown
      <4>2. commits[c].seq < k.seq
        BY <1>3, <3>1, <3>2, <3>5
      <4> QED BY <1>1, <3>1, <3>2, <3>3, <3>5, <4>1, <4>2
    <3>6. CASE a # b
      <4>1. branches'[a].head = branches[a].head /\ branches'[a].status # "unused"
        BY <3>3, <3>4, <3>6
      <4>2. branches[a].head \in DOMAIN commits
        BY <3>3 DEF StoreInv, HeadsFit
      <4>3. commits'[branches[a].head] = commits[branches[a].head]
        BY <4>2 DEF Grown
      <4> QED BY <3>1, <3>2, <3>3, <3>4, <4>1, <4>3
    <3> QED BY <3>5, <3>6
  <2> QED BY <2>1, <2>2
<1>5. ASSUME NEW c \in DOMAIN commits', NEW d \in DOMAIN commits',
             commits'[c].branch = commits'[d].branch, commits'[c].seq = commits'[d].seq
      PROVE  c = d
  <2>1. CASE c = new /\ d # new
    <3>1. d \in DOMAIN commits /\ commits'[d] = commits[d] /\ commits'[c] = k
      BY <2>1 DEF Grown
    <3>2. commits[d].seq < k.seq
      BY <1>3, <1>5, <3>1
    <3> QED BY <1>1, <1>2, <1>5, <3>1, <3>2
  <2>2. CASE d = new /\ c # new
    <3>1. c \in DOMAIN commits /\ commits'[c] = commits[c] /\ commits'[d] = k
      BY <2>2 DEF Grown
    <3>2. commits[c].seq < k.seq
      BY <1>3, <1>5, <3>1
    <3> QED BY <1>1, <1>2, <1>5, <3>1, <3>2
  <2>3. CASE c # new /\ d # new
    BY <1>5, <2>3 DEF Grown, StoreInv, OriginsFit
  <2> QED BY <2>1, <2>2, <2>3
<1> QED BY <1>4, <1>5 DEF OriginsFit, HeadOf

\* Items of the history stay items of it.
LEMMA TakenGrows ==
  ASSUME StoreInv, NEW new, NEW k, Grown(new, k), AreItems(k.taken)
  PROVE  TakenFit'
<1>1. ASSUME NEW x, IsItem(x) PROVE IsItem(x)'
  <2>1. PICK c \in DOMAIN commits : \E i \in DOMAIN commits[c].ops : x = ItemOf(c, i)
    BY <1>1 DEF IsItem
  <2>2. c \in DOMAIN commits' /\ commits'[c] = commits[c]
    BY DEF Grown
  <2>3. \A i : ItemOf(c, i)' = ItemOf(c, i)
    BY <2>2 DEF ItemOf
  <2> QED BY <2>1, <2>2, <2>3 DEF IsItem
<1>2. ASSUME NEW X, AreItems(X) PROVE AreItems(X)'
  BY <1>1, <1>2 DEF AreItems
<1>3. ASSUME NEW c \in DOMAIN commits' PROVE AreItems(commits[c].taken)'
  <2>1. CASE c = new
    <3>1. PICK X : X = k.taken
      OBVIOUS
    <3>2. AreItems(X)'
      BY <1>2, <3>1
    <3>3. commits'[c].taken = X
      BY <2>1, <3>1 DEF Grown
    <3> QED BY <3>2, <3>3 DEF AreItems
  <2>2. CASE c # new
    <3>1. c \in DOMAIN commits /\ commits'[c] = commits[c]
      BY <2>2 DEF Grown
    <3>2. PICK X : X = commits[c].taken
      OBVIOUS
    <3>3. AreItems(X)'
      BY <1>2, <3>1, <3>2 DEF StoreInv, TakenFit
    <3>4. commits'[c].taken = X
      BY <3>1, <3>2
    <3> QED BY <3>3, <3>4 DEF AreItems
  <2> QED BY <2>1, <2>2
<1> QED BY <1>3 DEF TakenFit

\* The commits a commit refers to.
RefersTo(c) ==
    /\ commits[c].base \in DOMAIN commits
    /\ IsMerge(c) => commits[c].parents[1] \in DOMAIN commits /\ commits[c].parents[2] \in DOMAIN commits
\* One parent.
LEMMA OneParent ==
  ASSUME NEW S, NEW p \in [1..1 -> S]
  PROVE  Len(p) # 2
<1>1. p \in Seq(S) /\ DOMAIN p = 1..1
  <2>1. p \in UNION {[1..n -> S] : n \in Nat}
    <3>1. 1 \in Nat
      OBVIOUS
    <3> QED BY <3>1, Zenon
  <2>2. p \in Seq(S)
    BY <2>1, SeqDef
  <2> QED BY <2>2
<1>2. DOMAIN p = 1..Len(p) /\ Len(p) \in Nat
  BY <1>1
<1>3. 2 \notin 1..1
  OBVIOUS
<1> QED BY <1>1, <1>2, <1>3
\* A commit refers to commits.
LEMMA CommitsRefer ==
  ASSUME StoreInv, NEW c \in DOMAIN commits
  PROVE  RefersTo(c)
<1>1. DOMAIN commits = 1..Len(commits) /\ Len(commits) \in Nat /\ c \in Nat
  BY CommitsAreNumbers DEF StoreInv
<1>2. commits[c].base \in 1..c
  BY DEF StoreInv, RowsFit
<1>3. commits[c].base \in DOMAIN commits
  BY <1>1, <1>2
<1>4. ASSUME IsMerge(c) PROVE commits[c].parents[1] \in DOMAIN commits /\ commits[c].parents[2] \in DOMAIN commits
  <2>1. Len(commits[c].parents) = 2
    BY <1>4 DEF IsMerge
  <2>2. c # 1
    <3> SUFFICES ASSUME c = 1 PROVE FALSE
      OBVIOUS
    <3>1. commits[c].parents = <<>>
      BY DEF StoreInv, ParentsFit
    <3> QED BY <2>1, <3>1
  <2>3. commits[c].parents \in [1..1 -> 1..(c - 1)] \cup [1..2 -> 1..(c - 1)]
    BY <2>2 DEF StoreInv, ParentsFit
  <2>4. commits[c].parents \notin [1..1 -> 1..(c - 1)]
    <3> SUFFICES ASSUME commits[c].parents \in [1..1 -> 1..(c - 1)] PROVE FALSE
      OBVIOUS
    <3>1. PICK p : p = commits[c].parents
      OBVIOUS
    <3> QED BY <2>1, <3>1, OneParent
  <2>5. commits[c].parents[1] \in 1..(c - 1) /\ commits[c].parents[2] \in 1..(c - 1)
    BY <2>3, <2>4
  <2> QED BY <1>1, <2>5
<1> QED BY <1>3, <1>4 DEF RefersTo

\* What a merge has kept it goes on keeping.
LEMMA MergesStay ==
  ASSUME StoreInv, \A c \in DOMAIN commits : commits'[c] = commits[c] /\ Doc(c)' = Doc(c),
         NEW c \in DOMAIN commits, IsMerge(c)', NEW m \in Members, m \notin commits'[c].chosen
  PROVE  KeepsBoth(Doc(commits[c].base)[m], Doc(commits[c].parents[2])[m], Doc(commits[c].parents[1])[m], Doc(c)[m])'
<1>1. commits'[c] = commits[c] /\ IsMerge(c) /\ m \notin commits[c].chosen
  BY DEF IsMerge
<1>2. PICK b, s, t : b = commits[c].base /\ s = commits[c].parents[2] /\ t = commits[c].parents[1]
  OBVIOUS
<1>3. b \in DOMAIN commits /\ s \in DOMAIN commits /\ t \in DOMAIN commits
  BY <1>1, <1>2, CommitsRefer DEF RefersTo
<1>4. KeepsBoth(Doc(b)[m], Doc(s)[m], Doc(t)[m], Doc(c)[m])
  BY <1>1, <1>2 DEF StoreInv, MergesFit
<1>5. Doc(b)' = Doc(b) /\ Doc(s)' = Doc(s) /\ Doc(t)' = Doc(t) /\ Doc(c)' = Doc(c)
  BY <1>3
<1>6. b = commits'[c].base /\ s = commits'[c].parents[2] /\ t = commits'[c].parents[1]
  BY <1>1, <1>2
<1>7. KeepsBoth(Replayed'[b].doc[m], Replayed'[s].doc[m], Replayed'[t].doc[m], Replayed'[c].doc[m])
  BY <1>4, <1>5 DEF Doc
<1> QED BY <1>6, <1>7 DEF Doc, KeepsBoth

\* One more merge that keeps both sides.
LEMMA MergesGrow ==
  ASSUME StoreInv, NEW new, NEW k, Grown(new, k), \A c \in DOMAIN commits : Doc(c)' = Doc(c),
         NEW doc, Doc(new)' = doc, k.base \in DOMAIN commits,
         NEW target, target = k.parents[1], NEW source, source = k.parents[2],
         Len(k.parents) = 2 =>
           /\ target \in DOMAIN commits /\ source \in DOMAIN commits
           /\ \A m \in Members : m \notin k.chosen =>
                KeepsBoth(Doc(k.base)[m], Doc(source)[m], Doc(target)[m], doc[m])
  PROVE  MergesFit'
<1>0. \A c \in DOMAIN commits : commits'[c] = commits[c] /\ Doc(c)' = Doc(c)
  BY DEF Grown
<1>1. ASSUME NEW c \in DOMAIN commits', IsMerge(c)', NEW m \in Members, m \notin commits'[c].chosen
      PROVE  KeepsBoth(Doc(commits[c].base)[m], Doc(commits[c].parents[2])[m], Doc(commits[c].parents[1])[m], Doc(c)[m])'
  <2>1. CASE c # new
    <3>1. c \in DOMAIN commits
      BY <2>1 DEF Grown
    <3> QED BY <1>0, <1>1, <3>1, MergesStay
  <2>2. CASE c = new
    <3>1. commits'[c] = k /\ Len(k.parents) = 2 /\ m \notin k.chosen
      BY <1>1, <2>2 DEF Grown, IsMerge
    <3>2. PICK b : b = k.base
      OBVIOUS
    <3>3. b \in DOMAIN commits /\ source \in DOMAIN commits /\ target \in DOMAIN commits
      BY <3>1, <3>2
    <3>4. Doc(b)' = Doc(b) /\ Doc(source)' = Doc(source) /\ Doc(target)' = Doc(target) /\ Doc(c)' = doc
      BY <1>0, <2>2, <3>3
    <3>5. KeepsBoth(Doc(b)[m], Doc(source)[m], Doc(target)[m], doc[m])
      BY <3>1, <3>2
    <3>6. KeepsBoth(Replayed'[b].doc[m], Replayed'[source].doc[m], Replayed'[target].doc[m], Replayed'[c].doc[m])
      BY <3>4, <3>5 DEF Doc
    <3> QED BY <3>1, <3>2, <3>6 DEF Doc, KeepsBoth
  <2> QED BY <2>1, <2>2
<1> QED BY <1>1 DEF MergesFit, Members

\* A patch.
LEMMA CommitPatchKeeps ==
  ASSUME StoreInv, NEW b \in Branches, NEW base \in DOMAIN commits, NEW p \in Proposals, CommitPatch(b, base, p)
  PROVE  StoreInv'
<1> DEFINE head == HeadOf(b)
           next == Patched(p.ops, KnownIds(head), projection[b])
           k == [branch |-> b, seq |-> commits[head].seq + 1, operation |-> p.operation,
                 parents |-> <<head>>, base |-> base, ops |-> p.ops,
                 taken |-> {}, blocked |-> {}, chosen |-> {}]
<1>1. /\ IsActive(b) /\ next # Broken /\ UNCHANGED snapshots
      /\ commits' = Append(commits, k)
      /\ branches' = [branches EXCEPT ![b].head = Len(commits) + 1]
      /\ projection' = [projection EXCEPT ![b] = next]
  BY DEF CommitPatch
<1>2. /\ head \in DOMAIN commits /\ projection[b] = Replayed[head].doc
      /\ DOMAIN projection[b] = Members /\ KnownIds(head) = Replayed[head].ids
  BY <1>1, ActiveHead
<1>3. IsSequence(p.ops) /\ Len(p.ops) \in Nat /\ \A i \in DOMAIN p.ops : WellFormed(p.ops[i])
  BY ProposalAssumption, SequenceHas
<1>4. IsWhole(next)
  <2>1. IsWhole(projection[b])
    BY <1>2 DEF StoreInv, DocsFit, Doc
  <2>2. \A i \in 1..Len(p.ops) : WellFormed(p.ops[i])
    BY <1>3, SequenceHas
  <2>3. IsDocument(next)
    BY <1>3, <2>1, <2>2, PatchIsDocument DEF IsDocument
  <2> QED BY <1>1, <2>3 DEF IsDocument
<1>5. /\ k.parents = <<head>> /\ k.ops = p.ops /\ k.branch = b /\ k.base = base
      /\ k.seq = commits[head].seq + 1 /\ k.taken = {}
  OBVIOUS
<1>6. <<head>> \in [1..1 -> DOMAIN commits] /\ <<head>>[1] = head /\ Len(<<head>>) = 1
  BY <1>2
<1>7. next = Patched(k.ops, Replayed[k.parents[1]].ids, Replayed[k.parents[1]].doc)
  <2>1. next = Patched(p.ops, Replayed[head].ids, Replayed[head].doc)
    BY <1>2
  <2> HIDE DEF k, next, head
  <2> QED BY <1>5, <1>6, <2>1
<1> HIDE DEF k, next, head
<1>8. PICK new : new = Len(commits) + 1
  OBVIOUS
<1>9. /\ ParentsFit' /\ SnapshotsFit' /\ RowsFit' /\ DocsFit'
      /\ \A c \in DOMAIN commits : Doc(c)' = Doc(c)
      /\ new \notin DOMAIN commits /\ DOMAIN commits' = DOMAIN commits \cup {new} /\ commits'[new] = k
      /\ \A c \in DOMAIN commits : commits'[c] = commits[c]
      /\ Doc(new)' = next
  <2>1. k.parents \in [1..1 -> DOMAIN commits] \cup [1..2 -> DOMAIN commits]
    BY <1>5, <1>6
  <2>2. IsSequence(k.ops) /\ \A i \in DOMAIN k.ops : WellFormed(k.ops[i])
    BY <1>3, <1>5
  <2>3. k.branch \in Branches /\ k.base \in DOMAIN commits
    BY <1>5
  <2> QED BY <1>1, <1>4, <1>7, <1>8, <2>1, <2>2, <2>3, CommitGrows
<1>10. HeadsFit'
  <2>1. branches \in [Branches -> [status : {"unused", "active", "merged"}, head : DOMAIN commits]]
    BY DEF StoreInv, HeadsFit
  <2>2. branches' \in [Branches -> [status : {"unused", "active", "merged"}, head : DOMAIN commits']]
    <3>1. branches' = [branches EXCEPT ![b].head = new]
      BY <1>1, <1>8
    <3> QED BY <1>9, <2>1, <3>1
  <2>3. /\ branches'[b].head = new
        /\ \A c \in Branches \ {b} : /\ branches'[c].head = branches[c].head
                                     /\ branches'[c].status # "unused" => branches[c].status # "unused"
    BY <1>1, <1>8, <2>1
  <2>4. DOMAIN next = Members
    BY <1>4 DEF IsWhole
  <2>5. new \in DOMAIN commits' /\ DOMAIN commits \subseteq DOMAIN commits'
    BY <1>9
  <2> QED BY <1>1, <1>9, <2>2, <2>3, <2>4, <2>5, HeadMoves
<1>11. Grown(new, k)
  BY <1>9 DEF Grown
<1>12. OriginsFit'
  <2>1. branches \in [Branches -> [status : {"unused", "active", "merged"}, head : DOMAIN commits]]
    BY DEF StoreInv, HeadsFit
  <2>2. /\ branches'[b].head = new /\ branches'[b].status # "unused"
        /\ \A a \in Branches \ {b} : branches'[a].head = branches[a].head /\ branches'[a].status = branches[a].status
    BY <1>1, <1>8, <2>1 DEF IsActive
  <2>3. k.branch = b /\ k.seq = commits[HeadOf(b)].seq + 1
    BY <1>5 DEF head
  <2> QED BY <1>1, <1>11, <2>2, <2>3, OriginsGrow
<1>13. TakenFit'
  <2>1. AreItems(k.taken)
    BY <1>5, FS_EmptySet DEF AreItems
  <2> QED BY <1>11, <2>1, TakenGrows
<1>14. MergesFit'
  <2>1. Len(k.parents) # 2
    BY <1>5, <1>6
  <2>2. PICK source, target : source = k.parents[2] /\ target = k.parents[1]
    OBVIOUS
  <2>3. k.base \in DOMAIN commits
    BY <1>5
  <2> QED BY <1>9, <1>11, <2>1, <2>2, <2>3, MergesGrow
<1> QED BY <1>9, <1>10, <1>12, <1>13, <1>14 DEF StoreInv

\* Steps that make no commit: what is replayed from a snapshot was there to be replayed.
LEMMA CommitsStay ==
  ASSUME StoreInv, commits' = commits, DOMAIN snapshots' \subseteq DOMAIN commits,
         \A c \in DOMAIN snapshots' : snapshots'[c] = Replayed[c]
  PROVE  /\ ParentsFit' /\ SnapshotsFit' /\ RowsFit' /\ DocsFit' /\ TakenFit' /\ MergesFit'
         /\ \A c \in DOMAIN commits : Doc(c)' = Doc(c)
<1>1. ParentsFit' /\ RowsFit'
  BY DEF StoreInv, ParentsFit, RowsFit
<1>2. \A c \in DOMAIN commits : Replayed'[c] = Replayed[c] /\ Entry(c)' = Entry(c)
  <2>1. \A c \in DOMAIN commits : c \in DOMAIN commits' /\ commits'[c] = commits[c]
    OBVIOUS
  <2> QED BY <1>1, <2>1, ReplayStands DEF StoreInv
<1>3. \A c \in DOMAIN commits : Replayed[c] = Entry(c)
  BY ReplayIsEntry DEF StoreInv
<1>4. SnapshotsFit'
  BY <1>2, <1>3 DEF SnapshotsFit
<1>5. \A c \in DOMAIN commits : Doc(c)' = Doc(c)
  BY <1>2 DEF Doc
<1>6. DocsFit'
  <2>1. ASSUME NEW c \in DOMAIN commits' PROVE IsWhole(Doc(c))'
    <3>1. c \in DOMAIN commits
      OBVIOUS
    <3>2. IsWhole(Replayed'[c].doc)
      BY <1>2, <3>1 DEF StoreInv, DocsFit, Doc
    <3> QED BY <3>2 DEF Doc, IsWhole, IsSequence, Members
  <2> QED BY <2>1 DEF DocsFit
<1>7. TakenFit'
  <2>1. \A x : IsItem(x)' = IsItem(x)
    BY DEF IsItem, ItemOf
  <2> QED BY <2>1 DEF StoreInv, TakenFit, AreItems
<1>8. MergesFit'
  <2>1. ASSUME NEW c \in DOMAIN commits', IsMerge(c)', NEW m \in Members, m \notin commits'[c].chosen
        PROVE  KeepsBoth(Doc(commits[c].base)[m], Doc(commits[c].parents[2])[m], Doc(commits[c].parents[1])[m], Doc(c)[m])'
    BY <1>5, <2>1, MergesStay
  <2> QED BY <2>1 DEF MergesFit, Members
<1> QED BY <1>1, <1>4, <1>5, <1>6, <1>7, <1>8

\* Commits of branches that stay in use are still told apart.
LEMMA OriginsStay ==
  ASSUME StoreInv, commits' = commits,
         \A a \in Branches : branches[a].status # "unused" => /\ branches'[a].head = branches[a].head
                                                             /\ branches'[a].status # "unused"
  PROVE  OriginsFit'
<1>1. ASSUME NEW c \in DOMAIN commits
      PROVE  /\ branches'[commits[c].branch].status # "unused"
             /\ commits[c].seq <= commits[branches'[commits[c].branch].head].seq
  <2>1. commits[c].branch \in Branches /\ branches[commits[c].branch].status # "unused"
    BY DEF StoreInv, RowsFit, OriginsFit
  <2>2. commits[c].seq <= commits[branches[commits[c].branch].head].seq
    BY DEF StoreInv, OriginsFit, HeadOf
  <2> QED BY <2>1, <2>2
<1> QED BY <1>1 DEF StoreInv, OriginsFit, HeadOf

\* Snapshots that stay are what is replayed from them.
LEMMA SnapshotsStand ==
  ASSUME StoreInv
  PROVE  DOMAIN snapshots \subseteq DOMAIN commits /\ \A c \in DOMAIN snapshots : snapshots[c] = Replayed[c]
BY ReplayIsEntry DEF StoreInv, SnapshotsFit

\* A fork.
LEMMA ForkKeeps ==
  ASSUME StoreInv, NEW source \in Branches, NEW from \in DOMAIN commits, NEW b \in Branches, Fork(source, from, b)
  PROVE  StoreInv'
<1>1. /\ commits' = commits /\ snapshots' = snapshots
      /\ branches' = [branches EXCEPT ![b] = [status |-> "active", head |-> from]]
      /\ projection' = [projection EXCEPT ![b] = Doc(from)]
  BY DEF Fork
<1>2. /\ ParentsFit' /\ SnapshotsFit' /\ RowsFit' /\ DocsFit' /\ TakenFit' /\ MergesFit'
      /\ \A c \in DOMAIN commits : Doc(c)' = Doc(c)
  BY <1>1, SnapshotsStand, CommitsStay
<1>3. PICK doc : doc = Doc(from)
  OBVIOUS
<1>4. DOMAIN doc = Members
  BY <1>3 DEF StoreInv, DocsFit, IsWhole
<1>5. Doc(from)' = doc
  BY <1>2, <1>3
<1>6. HeadsFit'
  <2>1. branches \in [Branches -> [status : {"unused", "active", "merged"}, head : DOMAIN commits]]
    BY DEF StoreInv, HeadsFit
  <2>2. branches' \in [Branches -> [status : {"unused", "active", "merged"}, head : DOMAIN commits']]
    BY <1>1, <2>1
  <2>3. /\ branches'[b].head = from
        /\ \A c \in Branches \ {b} : /\ branches'[c].head = branches[c].head
                                     /\ branches'[c].status # "unused" => branches[c].status # "unused"
    BY <1>1, <2>1
  <2>4. projection' = [projection EXCEPT ![b] = doc]
    BY <1>1, <1>3
  <2>5. from \in DOMAIN commits' /\ DOMAIN commits \subseteq DOMAIN commits'
    BY <1>1
  <2> QED BY <1>2, <1>4, <1>5, <2>2, <2>3, <2>4, <2>5, HeadMoves
<1>7. OriginsFit'
  <2>1. branches \in [Branches -> [status : {"unused", "active", "merged"}, head : DOMAIN commits]]
    BY DEF StoreInv, HeadsFit
  <2>2. branches[b].status = "unused"
    BY DEF Fork
  <2>3. \A a \in Branches : branches[a].status # "unused" => branches'[a] = branches[a]
    BY <1>1, <2>1, <2>2
  <2> QED BY <1>1, <2>3, OriginsStay
<1> QED BY <1>2, <1>6, <1>7 DEF StoreInv

\* A snapshot.
LEMMA SnapshotKeeps ==
  ASSUME StoreInv, NEW c \in DOMAIN commits, Snapshot(c)
  PROVE  StoreInv'
<1>1. /\ commits' = commits /\ branches' = branches /\ projection' = projection
      /\ snapshots' = [d \in DOMAIN snapshots \cup {c} |-> IF d = c THEN Replayed[c] ELSE snapshots[d]]
  BY DEF Snapshot, Envelope
<1>2. DOMAIN snapshots' \subseteq DOMAIN commits /\ \A d \in DOMAIN snapshots' : snapshots'[d] = Replayed[d]
  BY <1>1, SnapshotsStand
<1>3. /\ ParentsFit' /\ SnapshotsFit' /\ RowsFit' /\ DocsFit' /\ TakenFit' /\ MergesFit'
      /\ \A d \in DOMAIN commits : Doc(d)' = Doc(d)
  BY <1>1, <1>2, CommitsStay
<1>4. HeadsFit'
  <2>1. \A b \in Branches : branches[b].head \in DOMAIN commits
    BY DEF StoreInv, HeadsFit
  <2>2. \A b \in Branches : Doc(HeadOf(b))' = Doc(HeadOf(b))
    <3>1. ASSUME NEW b \in Branches PROVE Doc(HeadOf(b))' = Doc(HeadOf(b))
      <4>1. PICK h \in DOMAIN commits : h = branches[b].head
        BY <2>1
      <4>2. Doc(h)' = Doc(h)
        BY <1>3
      <4>3. Doc(HeadOf(b))' = Replayed'[h].doc /\ Doc(HeadOf(b)) = Replayed[h].doc
        BY <1>1, <4>1 DEF HeadOf, Doc
      <4> QED BY <4>2, <4>3 DEF Doc
    <3> QED BY <3>1
  <2> QED BY <1>1, <2>2 DEF StoreInv, HeadsFit, Members
<1>5. OriginsFit'
  BY <1>1, OriginsStay
<1> QED BY <1>3, <1>4, <1>5 DEF StoreInv

\* The initial store.
LEMMA StoreBegins == Init => StoreInv
<1> SUFFICES ASSUME Init PROVE StoreInv
  OBVIOUS
<1> DEFINE k == [branch |-> Main, seq |-> 1, operation |-> "root", parents |-> <<>>, base |-> 1,
                 ops |-> <<>>, taken |-> {}, blocked |-> {}, chosen |-> {}]
<1>1. commits = <<k>> /\ snapshots = <<>>
  BY DEF Init
<1>2. k.branch = Main /\ k.parents = <<>> /\ k.base = 1 /\ k.ops = <<>> /\ k.taken = {} /\ k.seq = 1
  OBVIOUS
<1> HIDE DEF k
<1>3. IsSequence(commits) /\ Len(commits) = 1 /\ commits[1] = k /\ DOMAIN commits = 1..1
  BY <1>1, OnlyOne
<1>4. DOMAIN commits = {1}
  BY <1>3
<1>5. ParentsFit
  BY <1>2, <1>3, <1>4 DEF ParentsFit
<1>6. DOMAIN snapshots = {}
  BY <1>1
<1>7. SnapshotsFit
  BY <1>6 DEF SnapshotsFit
<1>8. RowsFit
  <2>1. Main \in Branches /\ 1 \in 1..1
    BY ContextAssumption
  <2> QED BY <1>2, <1>3, <1>4, <2>1 DEF RowsFit
<1>9. Doc(1) = Initial
  <2>1. Replayed[1] = Entry(1) /\ IsRoot(1)
    BY <1>4, <1>5, <1>7, ReplayIsEntry, CommitsAreNumbers
  <2> QED BY <2>1 DEF Entry, Begun, Doc
<1>10. DocsFit
  BY <1>4, <1>9, ContextAssumption DEF DocsFit
<1>11. HeadsFit
  <2>1. /\ branches = [b \in Branches |-> IF b = Main THEN [status |-> "active", head |-> 1]
                                          ELSE [status |-> "unused", head |-> 1]]
        /\ projection = [b \in Branches |-> Initial]
    BY DEF Init
  <2>2. branches \in [Branches -> [status : {"unused", "active", "merged"}, head : DOMAIN commits]]
    BY <1>4, <2>1
  <2>3. \A b \in Branches : HeadOf(b) = 1 /\ projection[b] = Initial
    BY <2>1 DEF HeadOf
  <2> QED BY <1>9, <2>1, <2>2, <2>3, ContextAssumption DEF HeadsFit, IsWhole
<1>12. OriginsFit
  <2>1. branches[Main].status # "unused" /\ HeadOf(Main) = 1
    BY ContextAssumption DEF Init, HeadOf
  <2> QED BY <1>2, <1>3, <1>4, <2>1 DEF OriginsFit
<1>13. TakenFit
  <2>1. AreItems({})
    BY FS_EmptySet DEF AreItems
  <2> QED BY <1>2, <1>3, <1>4, <2>1 DEF TakenFit
<1>14. MergesFit
  <2>1. Len(<<>>) # 2
    OBVIOUS
  <2>2. ~IsMerge(1)
    BY <1>2, <1>3, <2>1 DEF IsMerge
  <2> QED BY <1>4, <2>2 DEF MergesFit
<1> QED BY <1>5, <1>7, <1>8, <1>10, <1>11, <1>12, <1>13, <1>14 DEF StoreInv

\* A store nobody touches.
LEMMA StoreRests == StoreInv /\ UNCHANGED store => StoreInv'
<1> SUFFICES ASSUME StoreInv, UNCHANGED store PROVE StoreInv'
  OBVIOUS
<1>1. commits' = commits /\ branches' = branches /\ projection' = projection /\ snapshots' = snapshots
  BY DEF store
<1>2. /\ ParentsFit' /\ SnapshotsFit' /\ RowsFit' /\ DocsFit' /\ TakenFit' /\ MergesFit'
      /\ \A d \in DOMAIN commits : Doc(d)' = Doc(d)
  BY <1>1, SnapshotsStand, CommitsStay
<1>4. HeadsFit'
  <2>1. \A b \in Branches : branches[b].head \in DOMAIN commits
    BY DEF StoreInv, HeadsFit
  <2>2. ASSUME NEW b \in Branches PROVE Doc(HeadOf(b))' = Doc(HeadOf(b))
    <3>1. PICK h \in DOMAIN commits : h = branches[b].head
      BY <2>1
    <3>2. Doc(h)' = Doc(h)
      BY <1>2
    <3>3. Doc(HeadOf(b))' = Replayed'[h].doc /\ Doc(HeadOf(b)) = Replayed[h].doc
      BY <1>1, <3>1 DEF HeadOf, Doc
    <3> QED BY <3>2, <3>3 DEF Doc
  <2> QED BY <1>1, <2>2 DEF StoreInv, HeadsFit, Members
<1>5. OriginsFit'
  BY <1>1, OriginsStay
<1> QED BY <1>2, <1>4, <1>5 DEF StoreInv

\* A merge.
LEMMA MergeKeeps ==
  ASSUME StoreInv, NEW source \in Branches, NEW target \in Branches, Merge(source, target)
  PROVE  StoreInv'
<1> DEFINE head == HeadOf(target)
           other == HeadOf(source)
<1>1. /\ IsActive(source) /\ IsActive(target) /\ other # head
      /\ \E base \in MergeBases(other, head) : CommitMerge(source, target, base, Analysis(other, head, base))
  BY DEF Merge
<1>2. PICK base \in MergeBases(other, head) : CommitMerge(source, target, base, Analysis(other, head, base))
  BY <1>1
<1>3. PICK analysis : analysis = Analysis(other, head, base)
  OBVIOUS
<1>4. PICK choice \in Selections(analysis.open), disposition \in {"mark_merged", "keep_active"} :
         LET doc == [m \in Members |-> IF m \in DOMAIN choice THEN choice[m] ELSE analysis.doc[m]] IN
         /\ commits' = Append(commits,
              [branch |-> target, seq |-> commits[head].seq + 1, operation |-> "merge",
               parents |-> <<head, other>>, base |-> base,
               ops |-> <<[kind |-> "replace", path |-> Root, value |-> doc]>>, taken |-> analysis.taken,
               blocked |-> analysis.blocked \cup {<<m>> : m \in DOMAIN choice}, chosen |-> DOMAIN choice])
         /\ branches' = [branches EXCEPT ![target].head = Len(commits) + 1,
                                         ![source].status = SourceStatus(disposition)]
         /\ projection' = [projection EXCEPT ![target] = doc]
         /\ UNCHANGED snapshots
  <2>1. CommitMerge(source, target, base, analysis)
    BY <1>2, <1>3
  <2> HIDE DEF head, other
  <2> QED BY <2>1 DEF CommitMerge, head, other
<1> DEFINE doc == [m \in Members |-> IF m \in DOMAIN choice THEN choice[m] ELSE analysis.doc[m]]
           op == [kind |-> "replace", path |-> Root, value |-> doc]
           k == [branch |-> target, seq |-> commits[head].seq + 1, operation |-> "merge",
                 parents |-> <<head, other>>, base |-> base, ops |-> <<op>>, taken |-> analysis.taken,
                 blocked |-> analysis.blocked \cup {<<m>> : m \in DOMAIN choice}, chosen |-> DOMAIN choice]
<1>5. /\ commits' = Append(commits, k) /\ UNCHANGED snapshots
      /\ branches' = [branches EXCEPT ![target].head = Len(commits) + 1, ![source].status = SourceStatus(disposition)]
      /\ projection' = [projection EXCEPT ![target] = doc]
  BY <1>4
<1>6. /\ head \in DOMAIN commits /\ other \in DOMAIN commits /\ source # target
  BY <1>1, ActiveHead
<1>7. base \in DOMAIN commits
  <2>1. base \in Ancestors[other]
    BY DEF MergeBases
  <2>2. Ancestors[other] \subseteq 1..other
    BY <1>6, AncestorsAreBefore DEF StoreInv
  <2>3. other \in Nat /\ DOMAIN commits = 1..Len(commits) /\ Len(commits) \in Nat
    BY <1>6, CommitsAreNumbers DEF StoreInv
  <2>4. 1..other \subseteq DOMAIN commits
    <3> HIDE DEF other
    <3> QED BY <1>6, <2>3
  <2> QED BY <2>1, <2>2, <2>4
<1>8. /\ k.parents = <<head, other>> /\ k.ops = <<op>> /\ k.branch = target /\ k.base = base
      /\ k.seq = commits[head].seq + 1 /\ k.taken = analysis.taken /\ k.chosen = DOMAIN choice
  OBVIOUS
<1>9. op.kind = "replace" /\ op.path = Root /\ op.value = doc
  OBVIOUS
<1>10. /\ DOMAIN doc = Members /\ doc = [m \in Members |-> doc[m]]
       /\ \A m \in Members : doc[m] = IF m \in DOMAIN choice THEN choice[m] ELSE analysis.doc[m]
  OBVIOUS
<1>20. head = HeadOf(target)
  OBVIOUS
<1> HIDE DEF k, op, doc, head, other
<1>11. /\ <<head, other>> \in [1..2 -> DOMAIN commits] /\ <<head, other>>[1] = head
       /\ <<head, other>>[2] = other /\ Len(<<head, other>>) = 2
  BY <1>6
<1>21. PICK mine, theirs : mine = AppendHistory(other, base) /\ theirs = AppendHistory(head, base)
  OBVIOUS
<1>22. Mergeable(Doc(base), Doc(other), Doc(head), mine, theirs) /\ AreItems(mine.items)
  <2>1. AreItems(mine.items) /\ AreItems(theirs.items)
    BY <1>6, <1>21, HistoryHasItems DEF StoreInv
  <2>2. \A x \in mine.items \cup theirs.items : IsItem(x)
    BY <2>1 DEF AreItems
  <2>3. Ordered(mine.items \cup theirs.items)
    BY <2>2, ItemsAreOrdered DEF StoreInv
  <2>4. IsWhole(Doc(base)) /\ IsWhole(Doc(other)) /\ IsWhole(Doc(head))
    BY <1>6, <1>7 DEF StoreInv, DocsFit
  <2> QED BY <2>1, <2>3, <2>4 DEF Mergeable, AreItems
<1>23. /\ analysis.taken \subseteq mine.items
       /\ DOMAIN analysis.open \subseteq Members
       /\ \A m \in DOMAIN analysis.open : analysis.open[m] \subseteq {Doc(other)[m], Doc(head)[m]}
       /\ \A m \in Lists : IsSequence(analysis.doc[m])
       /\ \A m \in Members : m \notin DOMAIN analysis.open =>
            KeepsBoth(Doc(base)[m], Doc(other)[m], Doc(head)[m], analysis.doc[m])
  <2>1. analysis = ThreeWay(Doc(base), Doc(other), Doc(head), mine, theirs)
    BY <1>3, <1>21 DEF Analysis
  <2>2. PICK B, S, T : B = Doc(base) /\ S = Doc(other) /\ T = Doc(head)
    OBVIOUS
  <2>3. Mergeable(B, S, T, mine, theirs) /\ analysis = ThreeWay(B, S, T, mine, theirs)
    BY <1>22, <2>1, <2>2
  <2>4. /\ analysis.taken \subseteq mine.items
        /\ DOMAIN analysis.open \subseteq Members
        /\ \A m \in DOMAIN analysis.open : analysis.open[m] \subseteq {S[m], T[m]}
        /\ \A m \in Lists : IsSequence(analysis.doc[m])
        /\ \A m \in Members : m \notin DOMAIN analysis.open => KeepsBoth(B[m], S[m], T[m], analysis.doc[m])
    BY <2>3, ThreeWayKeeps
  <2> QED BY <2>2, <2>4
<1>24. DOMAIN choice = DOMAIN analysis.open /\ \A m \in DOMAIN choice : choice[m] \in analysis.open[m]
  BY <1>4 DEF Selections
<1>25. IsWhole(doc)
  <2>1. ASSUME NEW m \in Lists PROVE IsSequence(doc[m])
    <3>1. IsSequence(Doc(other)[m]) /\ IsSequence(Doc(head)[m]) /\ m \in Members
      BY <1>22 DEF Mergeable, IsWhole, Members
    <3>2. CASE m \in DOMAIN choice
      <4>1. doc[m] = choice[m] /\ choice[m] \in {Doc(other)[m], Doc(head)[m]}
        BY <1>10, <1>23, <1>24, <3>1, <3>2
      <4> QED BY <3>1, <4>1
    <3>3. CASE m \notin DOMAIN choice
      BY <1>10, <1>23, <3>1, <3>3
    <3> QED BY <3>2, <3>3
  <2> QED BY <1>10, <2>1 DEF IsWhole
<1>12. IsSequence(<<op>>) /\ Len(<<op>>) = 1 /\ <<op>>[1] = op /\ \A i \in DOMAIN <<op>> : <<op>>[i] = op
  BY OnlyOne
<1>13. WellFormed(op)
  <2>1. \A m : op.path # <<m>>
    <3>1. \A m : Len(<<m>>) = 1
      OBVIOUS
    <3>2. Len(Root) = 0
      BY DEF Root
    <3> QED BY <1>9, <3>1, <3>2
  <2> QED BY <1>9, <1>25, <2>1 DEF WellFormed
<1>14. doc = Patched(k.ops, Replayed[k.parents[1]].ids, Replayed[k.parents[1]].doc)
  <2>1. DOMAIN Replayed[head].doc = Members
    BY <1>6 DEF StoreInv, DocsFit, Doc, IsWhole
  <2>2. PICK ops : ops = k.ops
    OBVIOUS
  <2>3. Len(ops) = 1 /\ ops[1].kind = "replace" /\ ops[1].path = Root /\ ops[1].value = doc
    BY <1>8, <1>9, <1>12, <2>2
  <2>4. Patched(ops, Replayed[head].ids, Replayed[head].doc) = doc
    BY <1>10, <2>1, <2>3, WholeIsPatched
  <2>5. k.parents[1] = head
    BY <1>8, <1>11
  <2> QED BY <2>2, <2>4, <2>5
<1>15. PICK new : new = Len(commits) + 1
  OBVIOUS
<1>16. /\ ParentsFit' /\ SnapshotsFit' /\ RowsFit' /\ DocsFit'
       /\ \A c \in DOMAIN commits : Doc(c)' = Doc(c)
       /\ new \notin DOMAIN commits /\ DOMAIN commits' = DOMAIN commits \cup {new} /\ commits'[new] = k
       /\ \A c \in DOMAIN commits : commits'[c] = commits[c]
       /\ Doc(new)' = doc
  <2>1. k.parents \in [1..1 -> DOMAIN commits] \cup [1..2 -> DOMAIN commits]
    BY <1>8, <1>11
  <2>2. IsSequence(k.ops) /\ \A i \in DOMAIN k.ops : WellFormed(k.ops[i])
    BY <1>8, <1>12, <1>13
  <2>3. k.branch \in Branches /\ k.base \in DOMAIN commits
    BY <1>7, <1>8
  <2> QED BY <1>5, <1>14, <1>15, <1>25, <2>1, <2>2, <2>3, CommitGrows
<1>17. HeadsFit'
  <2>1. branches \in [Branches -> [status : {"unused", "active", "merged"}, head : DOMAIN commits]]
    BY DEF StoreInv, HeadsFit
  <2>2. SourceStatus(disposition) \in {"active", "merged"}
    BY DEF SourceStatus
  <2>3. /\ branches'[target] = [branches[target] EXCEPT !.head = new]
        /\ branches'[source] = [branches[source] EXCEPT !.status = SourceStatus(disposition)]
        /\ \A c \in Branches \ {source, target} : branches'[c] = branches[c]
        /\ branches' = [c \in Branches |-> branches'[c]]
    BY <1>5, <1>6, <1>15, <2>1
  <2>4. \A c \in Branches : /\ branches[c] \in [status : {"unused", "active", "merged"}, head : DOMAIN commits']
                            /\ branches[c].status \in {"unused", "active", "merged"}
    BY <1>16, <2>1
  <2>5. \A c \in Branches : branches'[c] \in [status : {"unused", "active", "merged"}, head : DOMAIN commits']
    <3>1. branches'[target] \in [status : {"unused", "active", "merged"}, head : DOMAIN commits']
      BY <1>16, <2>3, <2>4
    <3>2. branches'[source] \in [status : {"unused", "active", "merged"}, head : DOMAIN commits']
      BY <1>16, <2>2, <2>3, <2>4
    <3> QED BY <2>3, <2>4, <3>1, <3>2
  <2>6. branches' \in [Branches -> [status : {"unused", "active", "merged"}, head : DOMAIN commits']]
    BY <2>3, <2>5
  <2>7. branches'[target].head = new
    BY <2>3, <2>4
  <2>8. \A c \in Branches \ {target} : /\ branches'[c].head = branches[c].head
                                       /\ branches'[c].status # "unused" => branches[c].status # "unused"
    <3>1. branches'[source].head = branches[source].head
      BY <2>3, <2>4
    <3>2. branches[source].status # "unused"
      BY <1>1 DEF IsActive
    <3> QED BY <2>3, <3>1, <3>2
  <2>9. new \in DOMAIN commits' /\ DOMAIN commits \subseteq DOMAIN commits'
    BY <1>16
  <2> QED BY <1>5, <1>10, <1>16, <2>6, <2>7, <2>8, <2>9, HeadMoves
<1>18. Grown(new, k)
  BY <1>16 DEF Grown
<1>19. OriginsFit'
  <2>1. branches \in [Branches -> [status : {"unused", "active", "merged"}, head : DOMAIN commits]]
    BY DEF StoreInv, HeadsFit
  <2>2. SourceStatus(disposition) # "unused"
    BY DEF SourceStatus
  <2>3. /\ branches'[target].head = new /\ branches'[target].status = branches[target].status
        /\ branches'[source].status = SourceStatus(disposition) /\ branches'[source].head = branches[source].head
        /\ \A a \in Branches \ {source, target} : branches'[a] = branches[a]
    BY <1>5, <1>6, <1>15, <2>1
  <2>4. branches'[target].head = new /\ branches'[target].status # "unused"
    BY <1>1, <2>3 DEF IsActive
  <2>5. \A a \in Branches \ {target} : /\ branches'[a].head = branches[a].head
                                       /\ branches[a].status # "unused" => branches'[a].status # "unused"
    BY <2>2, <2>3
  <2>6. k.branch = target /\ k.seq = commits[HeadOf(target)].seq + 1
    BY <1>8, <1>20
  <2> QED BY <1>1, <1>18, <2>4, <2>5, <2>6, OriginsGrow
<1>26. TakenFit'
  <2>1. IsFiniteSet(k.taken)
    <3>1. IsFiniteSet(mine.items) /\ k.taken \in SUBSET mine.items
      BY <1>8, <1>22, <1>23 DEF AreItems
    <3> QED BY <3>1, FS_Subset
  <2>2. AreItems(k.taken)
    BY <1>8, <1>22, <1>23, <2>1 DEF AreItems
  <2> QED BY <1>18, <2>2, TakenGrows
<1>27. MergesFit'
  <2>1. /\ k.base \in DOMAIN commits /\ head = k.parents[1] /\ other = k.parents[2]
        /\ head \in DOMAIN commits /\ other \in DOMAIN commits
    BY <1>6, <1>7, <1>8, <1>11
  <2>2. ASSUME NEW m \in Members, m \notin k.chosen
        PROVE  KeepsBoth(Doc(k.base)[m], Doc(other)[m], Doc(head)[m], doc[m])
    <3>1. m \notin DOMAIN choice /\ doc[m] = analysis.doc[m] /\ k.base = base
      BY <1>8, <1>10, <2>2
    <3> QED BY <1>23, <1>24, <3>1
  <2>3. \A c \in DOMAIN commits : Doc(c)' = Doc(c)
    BY <1>16
  <2>4. Doc(new)' = doc
    BY <1>16
  <2> QED BY <1>18, <2>1, <2>2, <2>3, <2>4, MergesGrow
<1> QED BY <1>16, <1>17, <1>19, <1>26, <1>27 DEF StoreInv

\* Every step on some of the branches, with some of the patches.
LEMMA StoreAdvances ==
  ASSUME StoreInv, NEW ids \in SUBSET Branches, NEW patches \in SUBSET Proposals,
         NEW kept \in SUBSET DOMAIN commits, StepsOn(ids, patches, kept)
  PROVE  StoreInv'
<1>1. ASSUME NEW b \in ids, NEW base \in DOMAIN commits, NEW p \in patches, CommitPatch(b, base, p)
      PROVE  StoreInv'
  BY <1>1, CommitPatchKeeps
<1>2. ASSUME NEW source \in ids, NEW b \in ids, NEW from \in DOMAIN commits, Fork(source, from, b) PROVE StoreInv'
  BY <1>2, ForkKeeps
<1>3. ASSUME NEW source \in ids, NEW target \in ids, Merge(source, target) PROVE StoreInv'
  BY <1>3, MergeKeeps
<1>4. ASSUME NEW c \in kept, Snapshot(c) PROVE StoreInv'
  BY <1>4, SnapshotKeeps
<1> QED BY <1>1, <1>2, <1>3, <1>4 DEF StepsOn

\* The invariant is what the run checks.
LEMMA StoreServes == StoreInv => TypeOK /\ ProjectionIsReplay /\ MergeKeepsBothSides
<1> SUFFICES ASSUME StoreInv PROVE TypeOK /\ ProjectionIsReplay /\ MergeKeepsBothSides
  OBVIOUS
<1>1. ASSUME NEW c \in DOMAIN commits
      PROVE  commits[c].parents \in UNION {[1..n -> 1..(c - 1)] : n \in IF c = 1 THEN {0} ELSE 1..2}
  <2>1. CASE c = 1
    <3>1. commits[c].parents = <<>>
      BY <2>1 DEF StoreInv, ParentsFit
    <3>2. <<>> \in [1..0 -> 1..(c - 1)]
      <4>1. <<>> = [i \in 1..0 |-> 0]
        OBVIOUS
      <4>2. [i \in 1..0 |-> 0] \in [1..0 -> 1..(c - 1)]
        OBVIOUS
      <4> QED BY <4>1, <4>2
    <3> QED BY <2>1, <3>1, <3>2
  <2>2. CASE c # 1
    <3>1. commits[c].parents \in [1..1 -> 1..(c - 1)] \cup [1..2 -> 1..(c - 1)]
      BY <2>2 DEF StoreInv, ParentsFit
    <3>2. 1 \in 1..2 /\ 2 \in 1..2
      OBVIOUS
    <3> QED BY <2>2, <3>1, <3>2
  <2> QED BY <2>1, <2>2
<1>2. \A c \in DOMAIN commits : commits[c].branch \in Branches /\ commits[c].base \in 1..c
  BY DEF StoreInv, RowsFit
<1>3. branches \in [Branches -> [status: {"unused", "active", "merged"}, head: DOMAIN commits]]
  BY DEF StoreInv, HeadsFit
<1>4. \A b \in Branches : DOMAIN projection[b] = Members
  BY DEF StoreInv, HeadsFit
<1>5. DOMAIN snapshots \subseteq DOMAIN commits
  BY DEF StoreInv, SnapshotsFit
<1>6. ProjectionIsReplay
  BY DEF StoreInv, HeadsFit, ProjectionIsReplay
<1>7. MergeKeepsBothSides
  BY DEF StoreInv, MergesFit, MergeKeepsBothSides, KeepsBoth
<1> QED BY <1>1, <1>2, <1>3, <1>4, <1>5, <1>6, <1>7 DEF TypeOK

-----------------------------------------------------------------------------
(* No patch is stale where it is made.                                      *)
\* The first parents of a commit are the commit and those of its own first parent.
LEMMA LineageGoesOn ==
  ASSUME ParentsFit, NEW c \in DOMAIN commits
  PROVE  /\ c \in Lineage[c]
         /\ IsRoot(c) => Lineage[c] = {c}
         /\ ~IsRoot(c) => Lineage[c] = {c} \cup Lineage[FirstParent(c)]
<1>1. Lineage[c] = LineageStep(Lineage, c)
  BY LineageRuns, Zenon
<1> QED BY <1>1 DEF LineageStep

\* They were made before it.
LEMMA LineageIsBefore ==
  ASSUME ParentsFit, NEW c \in DOMAIN commits
  PROVE  \A d \in Lineage[c] : d \in DOMAIN commits /\ d <= c
<1> DEFINE Bad == {d \in DOMAIN commits : ~(Lineage[d] \subseteq 1..d)}
<1>1. ASSUME Bad # {} PROVE FALSE
  <2>0. Bad \in SUBSET Nat
    BY CommitsAreNumbers
  <2>1. PICK d \in Bad : \A e \in Bad : d <= e
    BY <1>1, <2>0, SmallestOf
  <2>2. d \in Nat /\ d >= 1 /\ d \in DOMAIN commits
    BY <2>1, CommitsAreNumbers
  <2>3. CASE IsRoot(d)
    <3>1. Lineage[d] = {d}
      BY <2>2, <2>3, LineageGoesOn
    <3> QED BY <2>1, <2>2, <3>1
  <2>4. CASE ~IsRoot(d)
    <3>1. PICK p : p = FirstParent(d)
      OBVIOUS
    <3>2. p \in DOMAIN commits /\ p < d /\ p \in Nat
      BY <2>2, <2>4, <3>1, CommitsAreNumbers
    <3>3. p \notin Bad
      BY <2>1, <2>2, <3>2
    <3>4. Lineage[p] \subseteq 1..p /\ 1..p \subseteq 1..d
      BY <2>2, <3>2, <3>3
    <3>5. Lineage[d] = {d} \cup Lineage[p]
      BY <2>2, <2>4, <3>1, LineageGoesOn
    <3> QED BY <2>1, <2>2, <3>4, <3>5
  <2> QED BY <2>3, <2>4
<1>2. Lineage[c] \subseteq 1..c
  BY <1>1
<1>3. DOMAIN commits = 1..Len(commits) /\ Len(commits) \in Nat /\ c \in Nat
  BY CommitsAreNumbers
<1> QED BY <1>2, <1>3

LineageHolds == Lineage = [c \in DOMAIN commits |-> LineageStep(Lineage, c)]
\* The first parents and their equation, also after a step.
LEMMA LineageIs == ParentsFit => LineageHolds
BY LineageRuns DEF LineageHolds

\* Commits that stay keep their first parents.
LEMMA LineageStands ==
  ASSUME ParentsFit, ParentsFit',
         \A c \in DOMAIN commits : c \in DOMAIN commits' /\ commits'[c] = commits[c]
  PROVE  \A c \in DOMAIN commits : Lineage'[c] = Lineage[c]
<1>1. LineageHolds /\ LineageHolds'
  <2>1. ParentsFit' => LineageHolds'
    BY LineageIs, PTL
  <2> QED BY <2>1, LineageIs
<1>2. \A c \in DOMAIN commits : Lineage'[c] = LineageStep(Lineage, c)' /\ Lineage[c] = LineageStep(Lineage, c)
  <2>1. \A c \in DOMAIN commits : Lineage[c] = LineageStep(Lineage, c)
    BY <1>1, Zenon DEF LineageHolds
  <2>2. \A c \in DOMAIN commits' : Lineage'[c] = LineageStep(Lineage, c)'
    BY <1>1, Zenon DEF LineageHolds
  <2> QED BY <2>1, <2>2
<1> DEFINE Bad == {c \in DOMAIN commits : Lineage'[c] # Lineage[c]}
<1>3. ASSUME Bad # {} PROVE FALSE
  <2>0. Bad \in SUBSET Nat
    BY CommitsAreNumbers
  <2>1. PICK c \in Bad : \A d \in Bad : c <= d
    BY <1>3, <2>0, SmallestOf
  <2>2. c \in DOMAIN commits /\ c \in Nat /\ IsRoot(c)' = IsRoot(c) /\ FirstParent(c)' = FirstParent(c)
    BY <2>1, CommitsAreNumbers DEF IsRoot, FirstParent
  <2>3. CASE IsRoot(c)
    BY <1>2, <2>1, <2>2, <2>3 DEF LineageStep
  <2>4. CASE ~IsRoot(c)
    <3>1. PICK p : p = FirstParent(c)
      OBVIOUS
    <3>2. p \in DOMAIN commits /\ p < c /\ p \in Nat
      BY <2>2, <2>4, <3>1, CommitsAreNumbers
    <3>3. Lineage'[p] = Lineage[p]
      <4>1. p \notin Bad
        BY <2>1, <2>2, <3>2
      <4> QED BY <3>2, <4>1
    <3>4. Lineage'[c] = {c} \cup Lineage'[p] /\ Lineage[c] = {c} \cup Lineage[p]
      BY <1>2, <2>2, <2>4, <3>1 DEF LineageStep
    <3> QED BY <2>1, <3>3, <3>4
  <2> QED BY <2>3, <2>4
<1> QED BY <1>3

\* What a patch was checked against when it was made.
PatchFits(c) ==
    /\ \/ \E p \in Proposals : commits[c].ops = p.ops
       \/ \A i \in DOMAIN commits[c].ops : commits[c].ops[i].path = Root
    /\ ~IsRoot(c) /\ ~IsMerge(c) =>
         /\ commits[c].base \in Lineage[FirstParent(c)]
         /\ ~ConflictsSince(commits[c].ops, commits[c].base, FirstParent(c))
PatchesFit == \A c \in DOMAIN commits : PatchFits(c)

\* A document holds, since the base a patch was written against, what its operations name.
LEMMA NothingChanges ==
  ASSUME StoreInv, PatchesFit, NEW head \in DOMAIN commits, NEW base \in Lineage[head],
         NEW ops, ~ConflictsSince(ops, base, head), NEW i \in DOMAIN ops, WellFormed(ops[i]),
         Len(ops[i].path) = 2 => InPlace
  PROVE  StillThere(ops[i], Doc(base), Doc(head))
<1> DEFINE q == ops[i]
           Bad == {d \in DOMAIN commits : /\ base \in Lineage[d] /\ Lineage[d] \subseteq Lineage[head]
                                          /\ ~StillThere(q, Doc(base), Doc(d))}
<1>0. \A d \in DOMAIN commits : IsWhole(Doc(d))
  BY DEF StoreInv, DocsFit
<1>1. base \in DOMAIN commits /\ base \in Nat
  <2>1. base \in DOMAIN commits
    BY LineageIsBefore DEF StoreInv
  <2> QED BY <2>1, CommitsAreNumbers DEF StoreInv
<1>2. ASSUME Bad # {} PROVE FALSE
  <2>0. Bad \in SUBSET Nat
    BY CommitsAreNumbers DEF StoreInv
  <2>1. PICK d \in Bad : \A e \in Bad : d <= e
    BY <1>2, <2>0, SmallestOf
  <2>2. d \in DOMAIN commits /\ d \in Nat /\ base \in Lineage[d] /\ d \in Lineage[head]
    <3>1. d \in Lineage[d]
      BY <2>1, LineageGoesOn DEF StoreInv
    <3> QED BY <2>0, <2>1, <3>1
  <2>3. CASE d = base
    BY <1>0, <2>1, <2>2, <2>3, ThereIsOrdered
  <2>4. CASE d # base
    <3>1. ~IsRoot(d)
      BY <2>2, <2>4, LineageGoesOn DEF StoreInv
    <3>2. PICK p : p = FirstParent(d)
      OBVIOUS
    <3>3. p \in DOMAIN commits /\ p < d /\ p \in Nat
      BY <2>2, <3>1, <3>2, CommitsAreNumbers DEF StoreInv
    <3>4. Lineage[d] = {d} \cup Lineage[p]
      BY <2>2, <3>1, <3>2, LineageGoesOn DEF StoreInv
    <3>5. base \in Lineage[p] /\ Lineage[p] \subseteq Lineage[head]
      BY <2>1, <2>2, <2>4, <3>4
    <3>6. StillThere(q, Doc(base), Doc(p))
      <4>1. p \notin Bad
        BY <2>1, <2>2, <3>3
      <4> QED BY <3>3, <3>5, <4>1
    <3>7. base < d
      <4>1. base <= p
        BY <3>3, <3>5, LineageIsBefore DEF StoreInv
      <4> QED BY <1>1, <2>2, <3>3, <4>1
    <3>8. PICK made : made = commits[d].ops
      OBVIOUS
    <3>9. \A j \in DOMAIN made : Harmless(q, made[j])
      <4>1. ~Conflict(ops, made)
        BY <1>1, <2>2, <3>7, <3>8 DEF ConflictsSince
      <4> QED BY <4>1 DEF Conflict, Harmless
    <3>10. IsSequence(made) /\ \A j \in DOMAIN made : WellFormed(made[j])
      <4>1. d # 1
        BY <2>2, <3>1, CommitsAreNumbers DEF StoreInv
      <4> QED BY <2>2, <3>8, <4>1 DEF StoreInv, ParentsFit
    <3>11. ASSUME Len(q.path) = 2 PROVE \A j \in DOMAIN made : StaysInPlace(made[j])
      <4>1. PatchFits(d)
        BY <2>2 DEF PatchesFit
      <4>2. CASE \E r \in Proposals : made = r.ops
        BY <3>11, <4>2 DEF InPlace
      <4>3. CASE \A j \in DOMAIN made : made[j].path = Root
        <5>1. Len(Root) = 0
          BY DEF Root
        <5>2. ASSUME NEW j \in DOMAIN made PROVE StaysInPlace(made[j])
          <6>1. Len(made[j].path) # 2
            BY <4>3, <5>1
          <6> QED BY <6>1 DEF StaysInPlace
        <5> QED BY <5>2
      <4> QED BY <3>8, <4>1, <4>2, <4>3 DEF PatchFits
    <3>12. PICK ids : Doc(d) = Patched(made, ids, Doc(p))
      <4>1. Replayed[d] = Entry(d)
        BY <2>2, ReplayIsEntry DEF StoreInv
      <4>2. Doc(d) = Patched(made, Replayed[p].ids, Doc(p))
        BY <3>1, <3>2, <3>8, <4>1 DEF Entry, Following, Doc
      <4> QED BY <4>2
    <3>13. StillThere(q, Doc(p), Doc(d))
      <4>1. Len(made) \in Nat /\ DOMAIN made = 1..Len(made)
        BY <3>10, SequenceHas
      <4>2. PICK x, y : x = Doc(p) /\ y = Doc(d)
        OBVIOUS
      <4>3. IsWhole(x) /\ IsWhole(y) /\ y = Patched(made, ids, x)
        BY <1>0, <2>2, <3>3, <3>12, <4>2
      <4>4. StillThere(q, x, Patched(made, ids, x))
        BY <3>9, <3>10, <3>11, <4>1, <4>3, PatchLeaves
      <4> QED BY <4>2, <4>3, <4>4
    <3>14. StillThere(q, Doc(base), Doc(d))
      <4>1. PICK x, y, z : x = Doc(base) /\ y = Doc(p) /\ z = Doc(d)
        OBVIOUS
      <4>2. IsWhole(x) /\ IsWhole(y) /\ IsWhole(z) /\ StillThere(q, x, y) /\ StillThere(q, y, z)
        BY <1>0, <1>1, <2>2, <3>3, <3>6, <3>13, <4>1
      <4>3. StillThere(q, x, z)
        BY <4>2, ThereIsOrdered
      <4> QED BY <4>1, <4>3
    <3> QED BY <2>1, <3>14
  <2> QED BY <2>3, <2>4
<1>3. base \in Lineage[head] /\ Lineage[head] \subseteq Lineage[head] /\ head \in DOMAIN commits
  OBVIOUS
<1> QED BY <1>2, <1>3

\* What an operation names is as its author saw it, a member always, a place in an array as
\* long as nothing moves what is in arrays.
FreshUnlessMoved ==
    \A c \in DOMAIN commits : ~IsRoot(c) /\ ~IsMerge(c) =>
      \A i \in DOMAIN commits[c].ops :
        (Len(commits[c].ops[i].path) = 2 => InPlace) =>
          StillThere(commits[c].ops[i], Doc(commits[c].base), Doc(FirstParent(c)))

\* So no patch is stale where it is made.
LEMMA PatchesAreFresh == StoreInv /\ PatchesFit => FreshUnlessMoved /\ (InPlace => NoStaleWrite)
<1> SUFFICES ASSUME StoreInv, PatchesFit PROVE FreshUnlessMoved /\ (InPlace => NoStaleWrite)
  OBVIOUS
<1>1. ASSUME NEW c \in DOMAIN commits, ~IsRoot(c), ~IsMerge(c), NEW i \in DOMAIN commits[c].ops,
             Len(commits[c].ops[i].path) = 2 => InPlace
      PROVE  StillThere(commits[c].ops[i], Doc(commits[c].base), Doc(FirstParent(c)))
  <2>1. PICK head, base, ops : head = FirstParent(c) /\ base = commits[c].base /\ ops = commits[c].ops
    OBVIOUS
  <2>2. head \in DOMAIN commits /\ c # 1
    BY <1>1, <2>1, CommitsAreNumbers DEF StoreInv
  <2>3. base \in Lineage[head] /\ ~ConflictsSince(ops, base, head)
    BY <1>1, <2>1 DEF PatchesFit, PatchFits
  <2>4. WellFormed(ops[i])
    BY <1>1, <2>1, <2>2 DEF StoreInv, ParentsFit
  <2>5. i \in DOMAIN ops /\ (Len(ops[i].path) = 2 => InPlace)
    BY <1>1, <2>1
  <2>6. StillThere(ops[i], Doc(base), Doc(head))
    BY <2>2, <2>3, <2>4, <2>5, NothingChanges
  <2> QED BY <2>1, <2>6
<1>2. FreshUnlessMoved
  BY <1>1 DEF FreshUnlessMoved
<1> QED BY <1>2 DEF FreshUnlessMoved, NoStaleWrite, StillThere

\* What a patch was checked against does not change.
LEMMA PatchFitStays ==
  ASSUME ParentsFit, ParentsFit',
         \A c \in DOMAIN commits : c \in DOMAIN commits' /\ commits'[c] = commits[c],
         NEW c \in DOMAIN commits, PatchFits(c)
  PROVE  PatchFits(c)'
<1>1. PICK ops, base, head : ops = commits[c].ops /\ base = commits[c].base /\ head = FirstParent(c)
  OBVIOUS
<1>2. /\ commits'[c].ops = ops /\ commits'[c].base = base /\ FirstParent(c)' = head
      /\ IsRoot(c)' = IsRoot(c) /\ IsMerge(c)' = IsMerge(c)
  BY <1>1 DEF FirstParent, IsRoot, IsMerge
<1>3. ASSUME ~IsRoot(c), ~IsMerge(c)
      PROVE  base \in Lineage'[head] /\ ~ConflictsSince(ops, base, head)'
  <2>1. head \in DOMAIN commits
    BY <1>1, <1>3, CommitsAreNumbers
  <2>2. Lineage'[head] = Lineage[head]
    BY <2>1, LineageStands
  <2>3. base \in Lineage[head] /\ ~ConflictsSince(ops, base, head)
    BY <1>1, <1>3 DEF PatchFits
  <2>4. \A d \in Lineage[head] : d \in DOMAIN commits
    BY <2>1, LineageIsBefore
  <2>5. \A d \in Lineage[head] : commits'[d].ops = commits[d].ops
    BY <2>4
  <2> QED BY <2>2, <2>3, <2>5 DEF ConflictsSince
<1>4. /\ \/ \E p \in Proposals : ops = p.ops
         \/ \A i \in DOMAIN ops : ops[i].path = Root
  BY <1>1 DEF PatchFits
<1>5. ~IsRoot(c)' /\ ~IsMerge(c)' =>
        (commits[c].base \in Lineage[FirstParent(c)] /\ ~ConflictsSince(commits[c].ops, commits[c].base, FirstParent(c)))'
  <2>1. ConflictsSince(commits[c].ops, commits[c].base, FirstParent(c))' = ConflictsSince(ops, base, head)'
    BY <1>2 DEF ConflictsSince
  <2> QED BY <1>2, <1>3, <2>1
<1> QED BY <1>2, <1>4, <1>5 DEF PatchFits, Root

\* One more commit that fits.
LEMMA PatchesGrow ==
  ASSUME StoreInv, ParentsFit', PatchesFit, NEW new, NEW k, Grown(new, k),
         (\E p \in Proposals : k.ops = p.ops) \/ (\A i \in DOMAIN k.ops : k.ops[i].path = Root),
         NEW head \in DOMAIN commits, head = k.parents[1], NEW base, base = k.base,
         NEW ops, ops = k.ops,
         Len(k.parents) # 2 => base \in Lineage[head] /\ ~ConflictsSince(ops, base, head)
  PROVE  PatchesFit'
<1>1. \A c \in DOMAIN commits : c \in DOMAIN commits' /\ commits'[c] = commits[c]
  BY DEF Grown
<1>2. ParentsFit
  BY DEF StoreInv
<1>3. ASSUME NEW c \in DOMAIN commits PROVE PatchFits(c)'
  <2>1. PatchFits(c)
    BY DEF PatchesFit
  <2> QED BY <1>1, <1>2, <2>1, PatchFitStays
<1>4. commits'[new] = k
  BY DEF Grown
<1>5. ASSUME Len(k.parents) # 2
      PROVE  base \in Lineage'[head] /\ ~ConflictsSince(ops, base, head)'
  <2>1. Lineage'[head] = Lineage[head]
    BY <1>1, <1>2, LineageStands
  <2>2. \A d \in Lineage[head] : d \in DOMAIN commits
    BY <1>2, LineageIsBefore
  <2>3. \A d \in Lineage[head] : commits'[d].ops = commits[d].ops
    BY <1>1, <2>2
  <2> QED BY <1>5, <2>1, <2>3 DEF ConflictsSince
<1>6. PatchFits(new)'
  <2>1. FirstParent(new)' = head /\ (IsMerge(new)' <=> Len(k.parents) = 2)
    BY <1>4 DEF FirstParent, IsMerge
  <2>2. ConflictsSince(commits[new].ops, commits[new].base, FirstParent(new))' = ConflictsSince(ops, base, head)'
    BY <1>4, <2>1 DEF ConflictsSince
  <2> QED BY <1>4, <1>5, <2>1, <2>2 DEF PatchFits, Root
<1>7. DOMAIN commits' = DOMAIN commits \cup {new}
  BY DEF Grown
<1>8. ASSUME NEW c \in DOMAIN commits' PROVE PatchFits(c)'
  <2>1. CASE c = new
    BY <1>6, <2>1
  <2>2. CASE c # new
    BY <1>3, <1>7, <2>2
  <2> QED BY <2>1, <2>2
<1> QED BY <1>8 DEF PatchesFit

\* A commit appended to the history.
LEMMA AppendGrows ==
  ASSUME ParentsFit, NEW k, commits' = Append(commits, k)
  PROVE  Grown(Len(commits) + 1, k)
<1>1. IsSequence(commits)
  BY DEF ParentsFit
<1> DEFINE t == Append(commits, k)
           n == Len(commits)
<1>2. /\ n \in Nat /\ DOMAIN commits = 1..n /\ DOMAIN t = 1..(n + 1)
      /\ \A i \in 1..n : t[i] = commits[i]
      /\ t[n + 1] = k
  BY <1>1, AppendsToSequence
<1>3. commits' = t
  OBVIOUS
<1> HIDE DEF t, n
<1>4. 1..(n + 1) = 1..n \cup {n + 1} /\ n + 1 \notin 1..n
  BY <1>2
<1>5. Grown(n + 1, k)
  BY <1>2, <1>3, <1>4 DEF Grown
<1> QED BY <1>5 DEF n

\* A patch is made where nothing it names has changed.
LEMMA CommitPatchFits ==
  ASSUME StoreInv, StoreInv', PatchesFit, NEW b \in Branches, NEW base \in DOMAIN commits, NEW p \in Proposals,
         CommitPatch(b, base, p)
  PROVE  PatchesFit'
<1> DEFINE head == HeadOf(b)
           k == [branch |-> b, seq |-> commits[head].seq + 1, operation |-> p.operation,
                 parents |-> <<head>>, base |-> base, ops |-> p.ops,
                 taken |-> {}, blocked |-> {}, chosen |-> {}]
<1>1. /\ commits' = Append(commits, k) /\ IsActive(b)
      /\ base \in Lineage[head] /\ ~ConflictsSince(p.ops, base, head)
  BY DEF CommitPatch
<1>2. head \in DOMAIN commits
  BY <1>1, ActiveHead
<1>3. k.parents[1] = head /\ k.base = base /\ k.ops = p.ops
  OBVIOUS
<1> HIDE DEF k, head
<1>4. Grown(Len(commits) + 1, k)
  BY <1>1, AppendGrows DEF StoreInv
<1>5. ParentsFit'
  BY DEF StoreInv
<1>6. PICK ops : ops = p.ops
  OBVIOUS
<1>7. \E r \in Proposals : k.ops = r.ops
  BY <1>3
<1> QED BY <1>1, <1>2, <1>3, <1>4, <1>5, <1>6, <1>7, PatchesGrow

\* A merge writes the whole document.
LEMMA MergeFits ==
  ASSUME StoreInv, StoreInv', PatchesFit, NEW source \in Branches, NEW target \in Branches, Merge(source, target)
  PROVE  PatchesFit'
<1> DEFINE head == HeadOf(target)
           other == HeadOf(source)
<1>1. IsActive(target) /\ IsActive(source) /\ other # head
  BY DEF Merge
<1>2. PICK base, analysis : CommitMerge(source, target, base, analysis)
  BY DEF Merge
<1>3. \E k : /\ commits' = Append(commits, k) /\ k.parents = <<head, other>>
            /\ \E op : k.ops = <<op>> /\ op.path = Root
  <2> HIDE DEF head, other
  <2>1. PICK choice, disposition :
         LET doc == [m \in Members |-> IF m \in DOMAIN choice THEN choice[m] ELSE analysis.doc[m]] IN
         commits' = Append(commits,
              [branch |-> target, seq |-> commits[head].seq + 1, operation |-> "merge",
               parents |-> <<head, other>>, base |-> base,
               ops |-> <<[kind |-> "replace", path |-> Root, value |-> doc]>>, taken |-> analysis.taken,
               blocked |-> analysis.blocked \cup {<<m>> : m \in DOMAIN choice}, chosen |-> DOMAIN choice])
    BY <1>2, Zenon DEF CommitMerge, head, other
  <2> DEFINE doc == [m \in Members |-> IF m \in DOMAIN choice THEN choice[m] ELSE analysis.doc[m]]
             op == [kind |-> "replace", path |-> Root, value |-> doc]
             k == [branch |-> target, seq |-> commits[head].seq + 1, operation |-> "merge",
                   parents |-> <<head, other>>, base |-> base, ops |-> <<op>>, taken |-> analysis.taken,
                   blocked |-> analysis.blocked \cup {<<m>> : m \in DOMAIN choice}, chosen |-> DOMAIN choice]
  <2>2. commits' = Append(commits, k)
    BY <2>1
  <2>3. op.path = Root
    OBVIOUS
  <2> HIDE DEF op
  <2>4. k.parents = <<head, other>> /\ k.ops = <<op>>
    OBVIOUS
  <2> HIDE DEF k
  <2> QED BY <2>2, <2>3, <2>4
<1>4. head \in DOMAIN commits
  BY <1>1, ActiveHead
<1> HIDE DEF head, other
<1>5. PICK k : /\ commits' = Append(commits, k) /\ k.parents = <<head, other>>
               /\ \E op : k.ops = <<op>> /\ op.path = Root
  BY <1>3
<1>6. k.parents[1] = head /\ Len(k.parents) = 2
  BY <1>5
<1>7. \A i \in DOMAIN k.ops : k.ops[i].path = Root
  BY <1>5, OnlyOne
<1>8. Grown(Len(commits) + 1, k) /\ ParentsFit'
  BY <1>5, AppendGrows DEF StoreInv
<1>9. PICK base1, ops : base1 = k.base /\ ops = k.ops
  OBVIOUS
<1> QED BY <1>4, <1>6, <1>7, <1>8, <1>9, PatchesGrow

\* Where no commit is made.
LEMMA PatchesStay ==
  ASSUME StoreInv, StoreInv', PatchesFit, commits' = commits
  PROVE  PatchesFit'
<1>1. \A c \in DOMAIN commits : c \in DOMAIN commits' /\ commits'[c] = commits[c]
  OBVIOUS
<1>2. ASSUME NEW c \in DOMAIN commits PROVE PatchFits(c)'
  <2>1. PatchFits(c)
    BY DEF PatchesFit
  <2> QED BY <1>1, <2>1, PatchFitStays DEF StoreInv
<1>3. ASSUME NEW c \in DOMAIN commits' PROVE PatchFits(c)'
  BY <1>2
<1> QED BY <1>3 DEF PatchesFit

\* Every step keeps what the patches were checked against.
LEMMA PatchesAdvance ==
  ASSUME StoreInv, PatchesFit, NEW ids \in SUBSET Branches, NEW patches \in SUBSET Proposals,
         NEW kept \in SUBSET DOMAIN commits, StepsOn(ids, patches, kept)
  PROVE  PatchesFit'
<1>0. StoreInv'
  BY StoreAdvances
<1>1. ASSUME NEW b \in ids, NEW base \in DOMAIN commits, NEW p \in patches, CommitPatch(b, base, p)
      PROVE  PatchesFit'
  BY <1>0, <1>1, CommitPatchFits
<1>2. ASSUME NEW source \in ids, NEW b \in ids, NEW from \in DOMAIN commits, Fork(source, from, b) PROVE PatchesFit'
  <2>1. commits' = commits
    BY <1>2 DEF Fork
  <2> QED BY <1>0, <2>1, PatchesStay
<1>3. ASSUME NEW source \in ids, NEW target \in ids, Merge(source, target) PROVE PatchesFit'
  BY <1>0, <1>3, MergeFits
<1>4. ASSUME NEW c \in kept, Snapshot(c) PROVE PatchesFit'
  <2>1. commits' = commits
    BY <1>4 DEF Snapshot
  <2> QED BY <1>0, <2>1, PatchesStay
<1> QED BY <1>1, <1>2, <1>3, <1>4 DEF StepsOn

\* In the beginning nothing was patched.
LEMMA PatchesBegin == Init => PatchesFit
<1> SUFFICES ASSUME Init PROVE PatchesFit
  OBVIOUS
<1>1. StoreInv
  BY StoreBegins
<1>2. commits = <<[branch |-> Main, seq |-> 1, operation |-> "root", parents |-> <<>>, base |-> 1,
                   ops |-> <<>>, taken |-> {}, blocked |-> {}, chosen |-> {}]>>
  BY DEF Init
<1>3. \A c \in DOMAIN commits : c = 1
  BY <1>2
<1>4. commits[1].ops = <<>> /\ commits[1].parents = <<>>
  BY <1>1 DEF StoreInv, ParentsFit
<1> QED BY <1>3, <1>4 DEF PatchesFit, PatchFits, IsRoot

-----------------------------------------------------------------------------
(* The three views.                                                         *)
\* The inductive invariant of the three views.
ContextsInv ==
    /\ which \in {"patches", "merges", "runs"}
    /\ which = "runs" => RunInv
    /\ which # "runs" => StoreInv /\ PatchesFit

\* Every step of the three views.
LEMMA ContextsAdvance ==
  ASSUME ContextsInv, [ContextsNext]_<<which, store, access>>
  PROVE  ContextsInv' /\ [which = "runs" => Run!ResultHolds]_<<which, access>>
<1>1. CASE which = "patches" /\ StepsOn(Pair, Mixed, DOMAIN commits) /\ UNCHANGED <<which, access>>
  <2>1. Pair \in SUBSET Branches /\ Mixed \in SUBSET Proposals
    BY Views
  <2>2. StoreInv' /\ PatchesFit'
    BY <1>1, <2>1, StoreAdvances, PatchesAdvance DEF ContextsInv
  <2> QED BY <1>1, <2>2 DEF ContextsInv
<1>2. CASE which = "merges" /\ StepsOn(Triple, Appends, {}) /\ UNCHANGED <<which, access>>
  <2>1. Triple \in SUBSET Branches /\ Appends \in SUBSET Proposals /\ {} \in SUBSET DOMAIN commits
    BY Views
  <2>2. StoreInv' /\ PatchesFit'
    BY <1>2, <2>1, StoreAdvances, PatchesAdvance DEF ContextsInv
  <2> QED BY <1>2, <2>2 DEF ContextsInv
<1>3. CASE which = "runs" /\ Run!Next /\ UNCHANGED <<which, store>>
  <2>1. RunInv' /\ Run!ResultHolds
    BY <1>3, RunAdvances DEF ContextsInv
  <2> QED BY <1>3, <2>1 DEF ContextsInv
<1>4. CASE UNCHANGED <<which, store, access>>
  <2>1. which = "runs" => RunInv'
    BY <1>4, RunSleeps DEF ContextsInv, access
  <2>2. which # "runs" => StoreInv' /\ PatchesFit'
    BY <1>4, StoreRests, PatchesStay DEF ContextsInv, store
  <2> QED BY <1>4, <2>1, <2>2 DEF ContextsInv
<1> QED BY <1>1, <1>2, <1>3, <1>4 DEF ContextsNext

\* Every behaviour of the three views keeps it.
THEOREM ContextsHold == ContextsSpec => []ContextsInv
<1>1. ContextsInit => ContextsInv
  <2> SUFFICES ASSUME ContextsInit PROVE ContextsInv
    OBVIOUS
  <2>1. which = "runs" => RunInv
    BY RunBegins DEF ContextsInit
  <2>2. which # "runs" => StoreInv /\ PatchesFit
    BY StoreBegins, PatchesBegin DEF ContextsInit
  <2> QED BY <2>1, <2>2 DEF ContextsInit, ContextsInv
<1>2. ContextsInv /\ [ContextsNext]_<<which, store, access>> => ContextsInv'
  BY ContextsAdvance
<1> QED BY <1>1, <1>2, PTL DEF ContextsSpec

\* For all branches, patches and bounds.
THEOREM HistoriesReplay == ContextsSpec => []HeadsReplay
<1>1. ContextsInv => HeadsReplay
  BY StoreServes, RunIsTyped DEF ContextsInv, HeadsReplay
<1> QED BY <1>1, ContextsHold, PTL

\* For all branches and patches: a member nobody decides keeps the value of the only side
\* that changed it, an array both sides appended to has the elements of both, each once.
THEOREM MergesKeep == ContextsSpec => []MergesKeepBothSides
<1>1. ContextsInv => MergesKeepBothSides
  BY StoreServes DEF ContextsInv, MergesKeepBothSides
<1> QED BY <1>1, ContextsHold, PTL

\* What a patch names as a member is where it is applied as its author saw it, whatever
\* everybody else submits; what it names as a place of an array is, unless some patch
\* inserts or removes by place.
THEOREM MembersStayFresh == ContextsSpec => [](which # "runs" => FreshUnlessMoved)
<1>1. ContextsInv => (which # "runs" => FreshUnlessMoved)
  BY PatchesAreFresh DEF ContextsInv
<1> QED BY <1>1, ContextsHold, PTL

\* As long as no patch inserts or removes by place, no stale patch is accepted.
THEOREM NothingStale == ContextsSpec => [](InPlace => StaleWritesRefused)
<1>1. ContextsInv => (InPlace => StaleWritesRefused)
  BY PatchesAreFresh DEF ContextsInv, StaleWritesRefused
<1> QED BY <1>1, ContextsHold, PTL

\* For all records, places and bounds.
THEOREM NodesRestOnReads == ContextsSpec => ResultsRestOnReads
<1>1. ContextsInv /\ [ContextsNext]_<<which, store, access>> => [which = "runs" => Run!ResultHolds]_<<which, access>>
  BY ContextsAdvance
<1> QED BY <1>1, ContextsHold, PTL DEF ContextsSpec, ResultsRestOnReads
=============================================================================
