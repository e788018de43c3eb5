----------------------------- MODULE RunContext -----------------------------
(***************************************************************************)
(* What the nodes of a run read from the run's context branch and from      *)
(* long-term memory, and what they write back.  All reads of a node are     *)
(* resolved when it is activated; a further attempt is given a copy of      *)
(* them, except that a Router whose reads turn out stale when it finishes   *)
(* reads again, a few times.  An LLM node pins the head it was activated on *)
(* and, when it finishes, commits its static writes as one patch against it. *)
(*                                                                         *)
(* Each action is one transaction.  Workers, leases and timers are those of  *)
(* GraphRun: here an attempt is open until it finishes or is replaced.       *)
(* Commits are numbered along the branch, a commit touches one place of the  *)
(* document, and commit 0 left a list in each.  Patches that name a place    *)
(* inside another one are in ContextBranch, how memory changes in Memory.    *)
(***************************************************************************)
EXTENDS Naturals, Sequences, FiniteSets, FiniteSetsExt

CONSTANTS
    Places,               \* places of the context document
    Else,                 \* whoever writes the branch beside the nodes
    Records,              \* of one memory scope
    Graphs,               \* what a graph may say of its nodes, see config
    MaxAttempts,          \* limits.maxAttemptsPerActivation
    MaxReadReconciles,    \* of a Router
    MaxEdits, MaxChanges  \* bounds: commits of somebody else, changes of memory

VARIABLES
    config,      \* what the graph says of its nodes: the bindings of Routers, and the
                 \* static write of LLM nodes; never changes
    run,         \* "running" or "failed"
    nodes,       \* the newest attempt of each node, see Read
    lineage,     \* commits of the branch: [by, place, op]
    memory       \* [version: record -> head, 0: none; obsolete: set; revision: of the scope]

vars == <<config, run, nodes, lineage, memory>>

Nodes == DOMAIN config
Ops == {"add", "replace", "append", "remove"}
Bindings == [place : Places, context : {"snapshot", "validate_on_commit"},
             memory : {"snapshot", "validate_on_commit"}, required : BOOLEAN]
Writing == [place : Places, op : Ops]
Routers == {n \in Nodes : "context" \in DOMAIN config[n]}
Writers == Nodes \ Routers
Idle == [status |-> "idle", no |-> 0, rereads |-> 0, head |-> 0, base |-> 0, found |-> <<>>,
         revision |-> 0]

TypeOK ==
    /\ \A n \in Nodes : config[n] \in Bindings \cup Writing
    /\ run \in {"running", "failed"}
    /\ \A n \in Nodes : nodes[n].status \in {"idle", "open", "completed", "failed"}
    /\ lineage \in Seq([by : Writers \cup {Else}, place : Places, op : Ops])
    /\ DOMAIN memory.version = Records /\ memory.obsolete \subseteq Records

Init ==
    /\ config \in Graphs
    /\ run = "running" /\ nodes = [n \in Nodes |-> Idle] /\ lineage = <<>>
    /\ memory = [version |-> [m \in Records |-> 0], obsolete |-> {}, revision |-> 0]
-----------------------------------------------------------------------------
Tip == Len(lineage)
\* The commits up to k that touch a place, and what the document holds there.
Touching(place, k) == {i \in 1 .. k : lineage[i].place = place}
Holds(place, k) ==
    LET replacing == {i \in Touching(place, k) : lineage[i].op # "append"} IN
    CASE replacing = {} -> "list"
      [] replacing # {} /\ lineage[Max(replacing)].op = "remove" -> "nothing"
      [] OTHER -> "value"
\* apply_patch
Applies(place, op) ==
    CASE op = "add" -> TRUE
      [] op \in {"replace", "remove"} -> Holds(place, Tip) # "nothing"
      [] op = "append" -> Holds(place, Tip) = "list"
Commit(by, place, op) == lineage' = Append(lineage, [by |-> by, place |-> place, op |-> op])
\* patches_conflict with a commit since the base
ConflictsSince(k, place, op) ==
    \E i \in Touching(place, Tip) : i > k /\ ~(op = "append" /\ lineage[i].op = "append")

\* search_in: the records found, each at its head, and the token of the scope
Found == [m \in {r \in Records : memory.version[r] > 0} \ memory.obsolete |-> memory.version[m]]
Resolves(n) ==
    n \in Routers /\ config[n].required =>
        Holds(config[n].place, Tip) # "nothing" /\ DOMAIN Found # {}
\* A writer pins the head once, in node_static_write_bases.
Base(n) == IF n \in Writers THEN Tip ELSE 0
\* resolve_router_reads and resolve_llm_reads: the head is the commit of the context bindings
Read(n, no, rereads) ==
    nodes' = [nodes EXCEPT ![n] =
                [status |-> "open", no |-> no, rereads |-> rereads, head |-> Tip,
                 base |-> Base(n),
                 found |-> IF n \in Routers THEN Found ELSE <<>>,
                 revision |-> IF n \in Routers THEN memory.revision ELSE 0]]

\* fail_attempt, fail_input_activation: the run ends with the node
FailRun(n) ==
    /\ run' = "failed" /\ nodes' = [nodes EXCEPT ![n].status = "failed"]
    /\ UNCHANGED <<config, lineage, memory>>
Complete(n) == nodes' = [nodes EXCEPT ![n].status = "completed"]

Open(n) == run = "running" /\ nodes[n].status = "open"
-----------------------------------------------------------------------------
Activate(n) ==
    /\ run = "running" /\ nodes[n].status = "idle"
    /\ IF Resolves(n) THEN Read(n, 1, 0) /\ UNCHANGED <<config, run, lineage, memory>>
                      ELSE FailRun(n)

\* Lease recovery, a retry, or the answer to a wait: copy_attempt_reads.
Replace(n) ==
    /\ Open(n)
    /\ IF nodes[n].no < MaxAttempts
         THEN /\ nodes' = [nodes EXCEPT ![n].no = @ + 1]
              /\ UNCHANGED <<config, run, lineage, memory>>
         ELSE FailRun(n)

\* mutant: the heads of the records found are compared, the token of the scope is not
HasHeadConflict(r) ==
    \/ config[r].context = "validate_on_commit" /\ nodes[r].head # Tip
    \/ /\ config[r].memory = "validate_on_commit"
       /\ \E m \in DOMAIN nodes[r].found : nodes[r].found[m] # memory.version[m]
HasConflict(r) ==
    \/ config[r].context = "validate_on_commit" /\ nodes[r].head # Tip
    \/ /\ config[r].memory = "validate_on_commit"
       /\ \/ \E m \in DOMAIN nodes[r].found : nodes[r].found[m] # memory.version[m]
          \/ nodes[r].revision # memory.revision

Decide(r) == /\ Open(r) /\ ~HasConflict(r) /\ Complete(r)
             /\ UNCHANGED <<config, run, lineage, memory>>
\* reconcile_if_stale. When a required binding is gone the transaction is rolled back, and
\* the attempt is left to its lease.
Reconcile(r) ==
    /\ Open(r) /\ HasConflict(r)
    /\ IF nodes[r].rereads < MaxReadReconciles /\ nodes[r].no < MaxAttempts
         THEN /\ Resolves(r) /\ Read(r, nodes[r].no + 1, nodes[r].rereads + 1)
              /\ UNCHANGED <<config, run, lineage, memory>>
         ELSE FailRun(r)
\* A Router that fails is reconciled first as well.
Fail(n) == Open(n) /\ (n \in Routers => ~HasConflict(n)) /\ FailRun(n)

\* The static write of a node whose outputs have room on its edges; when they do not, the
\* attempt has failed before the write (Fail).
Write(w) ==
    LET place == config[w].place  op == config[w].op IN
    /\ Open(w)
    /\ IF ConflictsSince(nodes[w].base, place, op) \/ ~Applies(place, op)
         THEN FailRun(w)
         ELSE Commit(w, place, op) /\ Complete(w) /\ UNCHANGED <<config, run, memory>>

\* Another run, the projector or a caller of the API writes the branch. (What they write
\* after the end of the run meets none of its nodes.)
Edit(place, op) ==
    /\ run = "running"
    /\ Cardinality({i \in DOMAIN lineage : lineage[i].by = Else}) < MaxEdits
    /\ Applies(place, op) /\ Commit(Else, place, op)
    /\ UNCHANGED <<config, run, nodes, memory>>
\* A proposal is applied: a record is made, changed or marked obsolete.
Remember(m, obsolete) ==
    /\ run = "running" /\ memory.revision < MaxChanges /\ m \notin memory.obsolete
    /\ obsolete => memory.version[m] > 0
    /\ memory' = [version |-> [memory.version EXCEPT ![m] = @ + 1],
                  obsolete |-> IF obsolete THEN memory.obsolete \cup {m} ELSE memory.obsolete,
                  revision |-> memory.revision + 1]
    /\ UNCHANGED <<config, run, nodes, lineage>>

Next ==
    \/ \E n \in Nodes : Activate(n) \/ Replace(n) \/ Fail(n)
    \/ \E r \in Routers : Decide(r) \/ Reconcile(r)
    \/ \E w \in Writers : Write(w)
    \/ \E place \in Places, op \in Ops : Edit(place, op)
    \/ \E m \in Records, obsolete \in BOOLEAN : Remember(m, obsolete)

Spec == Init /\ [][Next]_vars
-----------------------------------------------------------------------------
\* A Router that completes has decided on what it would read now, in every binding it
\* asked to have validated, records that were not there included.
DecidesOnPresent(r) ==
    /\ config[r].context = "validate_on_commit" =>
         Touching(config[r].place, nodes[r].head) = Touching(config[r].place, Tip)
    /\ config[r].memory = "validate_on_commit" => nodes[r].found = Found
\* A writer that completes replaces what it was activated on, or appends to a list that only
\* grew; and it has then made one commit, other nodes none.
WritesOverWhatItRead(w) ==
    LET since == Touching(config[w].place, Tip) \ Touching(config[w].place, nodes[w].head) IN
    IF config[w].op = "append" THEN \A i \in since : lineage[i].op = "append" ELSE since = {}
CommitsOf(w) == Cardinality({i \in DOMAIN lineage : lineage[i].by = w})
\* What a node completes with rests on what it read, over retries and concurrent writers
\* (finalize_attempt, reconcile_if_stale, static_writes::apply).
ResultHolds ==
    /\ \A n \in Nodes : nodes[n].status = "open" /\ nodes'[n].status = "completed" =>
         IF n \in Routers THEN DecidesOnPresent(n) ELSE WritesOverWhatItRead(n)
    /\ \A w \in Writers : CommitsOf(w)' = IF nodes'[w].status = "completed" THEN 1 ELSE 0
ResultsRestOnReads == [][ResultHolds]_vars
=============================================================================
