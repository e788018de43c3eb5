----------------------------- MODULE ContextBranch -----------------------------
(***************************************************************************)
(* The versioned WorkingContext: commits, the branches that point at them, *)
(* and the projection kept beside each head, with every transaction of     *)
(* crates/storage/src/context that changes them: a patch written against   *)
(* any earlier commit, a fork, a three-way merge and a version snapshot.   *)
(*                                                                         *)
(* A document is an object whose members are scalars or arrays; both are   *)
(* written as sequences, an absent scalar as the empty one.  A path is a   *)
(* sequence: the root, a member, or a member and a place in its array.     *)
(* The value of an appended element is told apart by its element id alone. *)
(* No patch removes an array as a whole, puts anything but an array in its *)
(* place, or makes a scalar empty.                                         *)
(***************************************************************************)
EXTENDS Integers, Sequences, FiniteSets, SequencesExt

CONSTANTS
    Branches,       \* branch ids, numbers because merges sort by them
    Main,           \* the branch the context is created with
    Scalars, Lists, \* the members of the document
    Initial,        \* the document of the root commit
    Proposals,      \* the patches somebody may submit, against any base
    MaxCommits, MaxSnapshots  \* bounds of the model

Members == Scalars \cup Lists
Root == <<>>
NoElement == "none"

IsSequence(s) == s \in Seq(Range(s))
IsWhole(doc) == DOMAIN doc = Members /\ \A m \in Lists : IsSequence(doc[m])
\* What a patch may say: whoever writes an array or the whole document gives all of it.
WellFormed(op) ==
    /\ \/ op.path = Root
       \/ \E m \in Members : op.path = <<m>>
       \/ \E m \in Lists : Len(op.path) = 2 /\ op.path = <<m, op.path[2]>>
    /\ op.kind = "append" => \E m \in Lists : op.path = <<m>>
    /\ op.kind \in {"add", "replace"} =>
         /\ op.path = Root => IsWhole(op.value)
         /\ \A m \in Lists : op.path = <<m>> => IsSequence(op.value)

ASSUME ContextAssumption ==
    /\ Branches \subseteq Nat /\ Main \in Branches
    /\ Scalars \cap Lists = {} /\ Members # {}
    /\ IsWhole(Initial)
    /\ MaxCommits \in Nat \ {0} /\ MaxSnapshots \in Nat
ASSUME ProposalAssumption ==
    \A p \in Proposals : IsSequence(p.ops) /\ \A i \in DOMAIN p.ops : WellFormed(p.ops[i])

VARIABLES
    commits,     \* version_commits with their parents, patch and merge resolution
    branches,    \* context_branches: status and head of each
    projection,  \* materialized_projections: the document at each head
    snapshots    \* version_snapshots: [commit -> document and element ids]

vars == <<commits, branches, projection, snapshots>>

(***************************************************************************)
(* Patches.                                                                *)
(***************************************************************************)
SamePath(p, q) == p = q                               \* mutant: prefixes do not overlap
Overlap(p, q) == \A i \in DOMAIN p \cap DOMAIN q : p[i] = q[i]

\* patches_conflict
Conflict(left, right) ==
    \E i \in DOMAIN left, j \in DOMAIN right :
      /\ Overlap(left[i].path, right[j].path)
      /\ ~(/\ left[i].kind = "append" /\ right[j].kind = "append"
           /\ left[i].path = right[j].path)

\* an error of apply_operation: the path is missing or has the wrong type
Applies(op, doc) ==
    \/ op.path = Root /\ (op.kind \in {"add", "replace"} \/ (op.kind = "test" /\ doc = op.value))
    \/ /\ Len(op.path) = 1
       /\ LET m == op.path[1] IN
            \/ op.kind = "add"
            \/ op.kind = "replace" /\ (m \in Lists \/ doc[m] # <<>>)
            \/ op.kind = "remove" /\ m \in Scalars /\ doc[m] # <<>>
            \/ op.kind = "append" /\ m \in Lists
            \/ op.kind = "test" /\ doc[m] = op.value
    \/ /\ Len(op.path) = 2 /\ op.path[1] \in Lists
       /\ \/ op.path[2] \in DOMAIN doc[op.path[1]] /\ op.kind \in {"replace", "remove"}
          \/ op.path[2] \in 1..(Len(doc[op.path[1]]) + 1) /\ op.kind = "add"
          \/ /\ op.path[2] \in DOMAIN doc[op.path[1]] /\ op.kind = "test"
             /\ doc[op.path[1]][op.path[2]] = op.value

InMember(op, old) ==
    CASE op.kind = "append" -> Append(old, op.element)
      [] op.kind = "remove" -> <<>>
      [] op.kind = "test"   -> old
      [] OTHER              -> op.value
InArray(op, old) ==
    CASE op.kind = "add"     -> InsertAt(old, op.path[2], op.value)
      [] op.kind = "remove"  -> RemoveAt(old, op.path[2])
      [] op.kind = "replace" -> [old EXCEPT ![op.path[2]] = op.value]
      [] op.kind = "test"    -> old

Broken == <<>>   \* no document has an empty set of members
Step(doc, op) ==
    IF doc = Broken \/ ~Applies(op, doc) THEN Broken
    ELSE IF op.path = Root THEN op.value
    ELSE [doc EXCEPT ![op.path[1]] =
            IF Len(op.path) = 1 THEN InMember(op, @) ELSE InArray(op, @)]

\* effective_patch: an append whose element the history knows is left out
Effective(op, ids) == op.kind = "append" => op.element \notin ids
\* apply_patch: the effective operations, one after the other
Patched(ops, ids, doc) ==
    LET f[i \in 0..Len(ops)] ==
          IF i = 0 THEN doc ELSE IF Effective(ops[i], ids) THEN Step(f[i - 1], ops[i]) ELSE f[i - 1]
    IN f[Len(ops)]

(***************************************************************************)
(* History.  Commits are numbered as they are made, so a parent's number   *)
(* is smaller.  A merge stores the merged document as a patch of the root. *)
(***************************************************************************)
FirstParent(c) == commits[c].parents[1]
IsRoot(c) == commits[c].parents = <<>>
Lineage ==  \* the commits on the first-parent path from each commit to the root
    LET f[c \in DOMAIN commits] == {c} \cup (IF IsRoot(c) THEN {} ELSE f[FirstParent(c)]) IN f
Ancestors ==
    LET f[c \in DOMAIN commits] == {c} \cup UNION {f[commits[c].parents[i]] : i \in DOMAIN commits[c].parents}
    IN f

AppendedBy(c) == {commits[c].ops[i].element : i \in {j \in DOMAIN commits[c].ops : commits[c].ops[j].kind = "append"}}
TakenBy(c) == {x.element : x \in commits[c].taken}

\* load_history: the element ids, and whether a patch conflicts with a commit since base
KnownIds(head) == UNION {AppendedBy(c) \cup TakenBy(c) : c \in Lineage[head]}
ConflictsSince(ops, base, head) ==
    \E c \in Lineage[head] : c > base /\ Conflict(ops, commits[c].ops)

\* reconstruct: replays the patches from the nearest snapshot
Replayed ==
    LET f[c \in DOMAIN commits] ==
          IF c \in DOMAIN snapshots THEN snapshots[c]
          ELSE IF IsRoot(c) THEN [doc |-> Initial, ids |-> {}]
          ELSE LET before == f[FirstParent(c)] IN
               [doc |-> Patched(commits[c].ops, before.ids, before.doc),
                ids |-> before.ids \cup AppendedBy(c) \cup TakenBy(c)]
    IN f
Doc(c) == Replayed[c].doc

(***************************************************************************)
(* What a merge finds: the base, the appends of each side since then, and  *)
(* the document that follows from both without anybody's decision.         *)
(***************************************************************************)
MergeBases(s, t) ==  \* unique_merge_base: the common ancestors below no other one
    LET common == Ancestors[s] \cap Ancestors[t] IN
    {c \in common : \A d \in common \ {c} : c \notin Ancestors[d]}

\* stable_key; a branch and a sequence number name one commit
Earlier(x, y) ==
    \/ x.branch < y.branch
    \/ x.branch = y.branch /\ x.seq < y.seq
    \/ x.branch = y.branch /\ x.seq = y.seq /\ x.index < y.index

Elements(items) == {x.element : x \in items}
IsMerge(c) == Len(commits[c].parents) = 2

\* apply_step
AfterPatch(h, c, known) ==
    LET k == commits[c]
        new == {i \in DOMAIN k.ops : k.ops[i].kind = "append" /\ k.ops[i].element \notin known \cup Elements(h.items)}
        rewrites == {i \in DOMAIN k.ops : k.ops[i].kind \notin {"append", "test"}} IN
    [items |-> h.items \cup {[path |-> k.ops[i].path, element |-> k.ops[i].element, branch |-> k.branch,
                               seq |-> k.seq, operation |-> k.operation, index |-> i] : i \in new},
     blocked |-> h.blocked \cup {k.ops[i].path : i \in rewrites}]
AfterMerge(h, c, known) ==
    LET taken == {t \in commits[c].taken : t.element \notin known}
        Replaces(t, x) == t.element = x.element /\ Earlier(t, x) IN
    [items |-> {x \in h.items : ~\E t \in taken : Replaces(t, x)}
               \cup {t \in taken : \A x \in h.items : t.element = x.element => Earlier(t, x)},
     blocked |-> h.blocked \cup commits[c].blocked]

\* load_append_history follows first parents only; if they miss the base nothing counts as appended
AppendHistory(head, base) ==
    LET known == Replayed[base].ids
        f[c \in DOMAIN commits] ==
          IF c = base \/ IsRoot(c) THEN [items |-> {}, blocked |-> {}]
          ELSE IF IsMerge(c) THEN AfterMerge(f[FirstParent(c)], c, known)
          ELSE AfterPatch(f[FirstParent(c)], c, known)
    IN IF base \in Lineage[head] THEN f[head] ELSE [items |-> {}, blocked |-> {Root}]

AppendOnly(h, m) == \A p \in h.blocked : ~Overlap(p, <<m>>)
At(h, m) == {x \in h.items : x.path = <<m>>}

\* validate_cross_branch_identities
SameIdentities(hs, ht) ==
    /\ \A x \in hs.items, y \in ht.items : x.element = y.element => x.path = y.path
    /\ \A x \in hs.items, y \in ht.items : x.operation = y.operation =>
         LET Named(h) == {<<z.path, z.element>> : z \in {w \in h.items : w.operation = x.operation}}
         IN Named(hs) = Named(ht)

\* merge_append_only_arrays
IsTailOf(list, base, items) ==
    LET tail == SubSeq(list, Len(base) + 1, Len(list)) IN
    /\ IsPrefix(base, list) /\ IsInjective(tail) /\ Range(tail) = Elements(items)
BothOrigins(mine, theirs) == mine \cup theirs         \* mutant: an element is kept per origin
Combined(mine, theirs) ==
    {x \in mine \cup theirs : \A y \in mine \cup theirs : y.element = x.element => ~Earlier(y, x)}
Integrated(mine, theirs) == {x \in mine : \A y \in theirs : y.element = x.element => Earlier(x, y)}
Place(x, items) == Cardinality({y \in items : Earlier(y, x)}) + 1
InOrder(items) == [i \in 1..Cardinality(items) |-> (CHOOSE x \in items : Place(x, items) = i).element]

\* merge_value: a member only one side changed has that side's value
MergeValue(base, source, target) == IF target = base THEN source ELSE target
Disagree(base, source, target) == source # target /\ source # base /\ target # base

\* apply_verified_appends; "open" are the conflicts left to the caller
ThreeWay(B, S, T, hs, ht) ==
    LET Value(m) == MergeValue(B[m], S[m], T[m])
        conflicts == {m \in Members : Disagree(B[m], S[m], T[m])}
        Verified(m) == /\ m \in Lists
                       /\ IsTailOf(S[m], B[m], At(hs, m)) /\ IsTailOf(T[m], B[m], At(ht, m))
        Appended(m) == B[m] \o InOrder(Combined(At(hs, m), At(ht, m)))
        auto == {m \in conflicts : AppendOnly(hs, m) /\ AppendOnly(ht, m) /\ Verified(m)}
        carried == {m \in Lists : /\ At(hs, m) # {} /\ AppendOnly(hs, m) /\ Verified(m)
                                  /\ \/ S[m] = T[m]
                                     \/ T[m] = B[m] /\ Appended(m) = Value(m)}
    IN [doc     |-> [m \in Members |-> IF m \in auto THEN Appended(m) ELSE Value(m)],
        open    |-> [m \in conflicts \ auto |-> {S[m], T[m]} \ (IF m \in Scalars THEN {<<>>} ELSE {})],
        taken   |-> UNION {Integrated(At(hs, m), At(ht, m)) : m \in auto \cup carried},
        blocked |-> hs.blocked \cup ht.blocked,
        sound   |-> SameIdentities(hs, ht)]
Analysis(s, t, base) ==
    ThreeWay(Doc(base), Doc(s), Doc(t), AppendHistory(s, base), AppendHistory(t, base))

(***************************************************************************)
(* The transactions.                                                       *)
(***************************************************************************)
Init ==  \* create_conversation: a root commit with its snapshot, one branch, its projection
    /\ commits = <<[branch |-> Main, seq |-> 1, operation |-> "root", parents |-> <<>>, base |-> 1,
                    ops |-> <<>>, taken |-> {}, blocked |-> {}, chosen |-> {}]>>
    /\ branches = [b \in Branches |-> IF b = Main THEN [status |-> "active", head |-> 1]
                                      ELSE [status |-> "unused", head |-> 1]]
    /\ projection = [b \in Branches |-> Initial]
    /\ snapshots = <<>>

IsActive(b) == branches[b].status = "active"
HeadOf(b) == branches[b].head

\* commit_patch; an operation the branch already has returns its commit or an error
CommitPatch(b, base, p) ==
    LET head == HeadOf(b)
        next == Patched(p.ops, KnownIds(head), projection[b]) IN
    /\ IsActive(b) /\ Len(commits) < MaxCommits /\ base \in Lineage[head]
    /\ \A c \in DOMAIN commits : ~(commits[c].branch = b /\ commits[c].operation = p.operation)
    /\ ~ConflictsSince(p.ops, base, head)
    /\ next # Broken
    /\ commits' = Append(commits, [branch |-> b, seq |-> commits[head].seq + 1, operation |-> p.operation,
                                   parents |-> <<head>>, base |-> base, ops |-> p.ops,
                                   taken |-> {}, blocked |-> {}, chosen |-> {}])
    /\ branches' = [branches EXCEPT ![b].head = Len(commits) + 1]
    /\ projection' = [projection EXCEPT ![b] = next]
    /\ UNCHANGED snapshots

\* fork_context_at: a new branch at any ancestor of an active head
Fork(source, from, b) ==
    /\ branches[b].status = "unused"
    /\ IsActive(source) /\ from \in Ancestors[HeadOf(source)]
    /\ branches' = [branches EXCEPT ![b] = [status |-> "active", head |-> from]]
    /\ projection' = [projection EXCEPT ![b] = Doc(from)]
    /\ UNCHANGED <<commits, snapshots>>

SourceStatus(disposition) == IF disposition = "mark_merged" THEN "merged" ELSE "active"

Selections(open) ==
    {f \in [DOMAIN open -> UNION {open[m] : m \in DOMAIN open}] : \A m \in DOMAIN f : f[m] \in open[m]}

\* commit_merge and advance_branches, with a selection for every conflict; with fewer
\* merge_context_at only records the conflicts
CommitMerge(source, target, base, analysis) ==
    /\ analysis.sound
    /\ \E choice \in Selections(analysis.open), disposition \in {"mark_merged", "keep_active"} :
         LET doc == [m \in Members |-> IF m \in DOMAIN choice THEN choice[m] ELSE analysis.doc[m]] IN
         /\ commits' = Append(commits,
              [branch |-> target, seq |-> commits[HeadOf(target)].seq + 1, operation |-> "merge",
               parents |-> <<HeadOf(target), HeadOf(source)>>, base |-> base,
               ops |-> <<[kind |-> "replace", path |-> Root, value |-> doc]>>, taken |-> analysis.taken,
               blocked |-> analysis.blocked \cup {<<m>> : m \in DOMAIN choice}, chosen |-> DOMAIN choice])
         /\ branches' = [branches EXCEPT ![target].head = Len(commits) + 1,
                                         ![source].status = SourceStatus(disposition)]
         /\ projection' = [projection EXCEPT ![target] = doc]
         /\ UNCHANGED snapshots

\* merge_context_at
Merge(source, target) ==
    /\ IsActive(source) /\ IsActive(target) /\ HeadOf(source) # HeadOf(target)
    /\ Len(commits) < MaxCommits
    /\ \E base \in MergeBases(HeadOf(source), HeadOf(target)) :
         /\ MergeBases(HeadOf(source), HeadOf(target)) = {base}
         /\ CommitMerge(source, target, base, Analysis(HeadOf(source), HeadOf(target), base))

EnvelopeWithoutIds(c) == [doc |-> Doc(c), ids |-> {}] \* mutant: the element ids are not stored
Envelope(c) == Replayed[c]

\* create_version_snapshot
Snapshot(c) ==
    /\ c \in DOMAIN commits \ DOMAIN snapshots /\ Cardinality(DOMAIN snapshots) < MaxSnapshots
    /\ snapshots' = [d \in DOMAIN snapshots \cup {c} |-> IF d = c THEN Envelope(c) ELSE snapshots[d]]
    /\ UNCHANGED <<commits, branches, projection>>

\* What may happen on some branches, with some patches, and snapshots of some commits.
StepsOn(ids, patches, kept) ==
    \/ \E b \in ids, base \in DOMAIN commits, p \in patches : CommitPatch(b, base, p)
    \/ \E source, b \in ids, from \in DOMAIN commits : Fork(source, from, b)
    \/ \E source, target \in ids : Merge(source, target)
    \/ \E c \in kept : Snapshot(c)
Next == StepsOn(Branches, Proposals, DOMAIN commits)

Spec == Init /\ [][Next]_vars

(***************************************************************************)
(* Properties.                                                             *)
(***************************************************************************)
\* Every commit but the root has one or two earlier commits as parents, a branch in use
\* has a status the code knows, and no projection or snapshot is broken.
TypeOK ==
    /\ \A c \in DOMAIN commits :
         /\ commits[c].branch \in Branches /\ commits[c].base \in 1..c
         /\ commits[c].parents \in UNION {[1..n -> 1..(c - 1)] : n \in IF c = 1 THEN {0} ELSE 1..2}
    /\ branches \in [Branches -> [status: {"unused", "active", "merged"}, head: DOMAIN commits]]
    /\ \A b \in Branches : DOMAIN projection[b] = Members
    /\ DOMAIN snapshots \subseteq DOMAIN commits

\* The document kept beside a head is the one its history replays to, from whatever snapshot the
\* replay starts and however patches were rebased and merges deduplicated (advance_projection
\* computes the first from the projection before, reconstruct the second from the patches).
ProjectionIsReplay ==
    \A b \in Branches : branches[b].status # "unused" => projection[b] = Doc(HeadOf(b))

\* A patch written against an older commit is accepted only if nothing it names was changed since:
\* what its paths hold at its base they also hold where it is applied, up to appended elements.
Held(doc, path) ==
    CASE Len(path) = 0 -> doc
      [] Len(path) = 1 -> doc[path[1]]
      [] OTHER -> IF path[2] \in DOMAIN doc[path[1]] THEN doc[path[1]][path[2]] ELSE NoElement
NoStaleWrite ==
    \A c \in DOMAIN commits : ~IsRoot(c) /\ ~IsMerge(c) =>
      LET read == Doc(commits[c].base)  now == Doc(FirstParent(c)) IN
      \A i \in DOMAIN commits[c].ops :
        LET op == commits[c].ops[i] IN
        IF op.kind = "append" THEN IsPrefix(Held(read, op.path), Held(now, op.path))
        ELSE Held(read, op.path) = Held(now, op.path)

\* A merge undoes neither side: a member nobody decided by hand keeps the value of the only side
\* that changed it, and an array both sides appended to begins with the common part and holds
\* after it the elements of both, each once (analyze_three_way, merge_append_only_arrays).
MergeKeepsBothSides ==
    \A c \in DOMAIN commits : IsMerge(c) =>
      LET B == Doc(commits[c].base)  T == Doc(commits[c].parents[1])
          S == Doc(commits[c].parents[2])  D == Doc(c) IN
      \A m \in Members \ commits[c].chosen :
        \/ D[m] = T[m] /\ S[m] \in {B[m], T[m]}
        \/ D[m] = S[m] /\ T[m] = B[m]
        \/ /\ IsPrefix(B[m], D[m]) /\ Range(D[m]) = Range(S[m]) \cup Range(T[m])
           /\ IsInjective(SubSeq(D[m], Len(B[m]) + 1, Len(D[m])))

\* No element is appended twice to an array, whatever is retried, rebased, forked and merged:
\* an element id in the history stands for the element (effective_patch, load_resolution_append_ids).
AppendOnce == \A b \in Branches, m \in Lists : IsInjective(projection[b][m])
================================================================================
