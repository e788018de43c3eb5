------------------------------- MODULE Memory -------------------------------
(***************************************************************************)
(* Long-term memory: records that change only through proposals.  A         *)
(* proposal is made by an API caller or by a batch of memory tool calls of  *)
(* an LLM node, is decided by a user (through the API, or as the response   *)
(* to the wait the batch opened), and is then applied: one commit on top of *)
(* the head the proposal was made for, or a conflict.  Runs read memory     *)
(* through search calls whose result set and scope token are stored.        *)
(*                                                                         *)
(* One scope, whose rows are numbered in the order they are inserted; 0 is  *)
(* a NULL commit.  Each action is one database transaction.                 *)
(***************************************************************************)
EXTENDS Naturals, Sequences, FiniteSets, SequencesExt

CONSTANTS
  Contents,     \* canonical memory contents
  None,         \* no content
  Keys,         \* idempotency keys of the API's propose commands
  Nodes,        \* LLM node instances that call memory tools
  MaxProposals, \* bound: proposals
  MaxReads      \* bound: stored search calls

VARIABLES
  records,      \* memory_records
  commits,      \* version_commits of aggregate kind long_term_memory
  proposals,    \* memory_change_proposals
  revision,     \* memory_scopes.revision_no
  index,        \* memory_search: the text stored for a record, or None
  proposeReceipts, \* key -> proposal of the propose receipt, 0: none
  reviews,      \* node -> the approval wait on its proposals
  reads         \* tool_call_bound_read_results with their read sets

vars == <<records, commits, proposals, revision, index, proposeReceipts, reviews, reads>>

Changes == {"create", "replace_content", "mark_obsolete", "delete_tombstone"}
Readable == {"active", "obsolete"}
Undecided == {"awaiting_review"}

Init ==
  /\ records = <<>> /\ commits = <<>> /\ proposals = <<>> /\ revision = 0
  /\ index = <<>>
  /\ proposeReceipts = [k \in Keys |-> 0]
  /\ reviews = [n \in Nodes |-> [status |-> "none", items |-> {}]]
  /\ reads = {}
-----------------------------------------------------------------------------
(* A change names no record exactly when it creates one; otherwise it names *)
(* the head its author has read, which must still be the head.              *)
Commands ==
  [change : {"create"}, memory : {0}, expected : {0}, content : Contents]
  \cup [change : {"replace_content"}, memory : DOMAIN records,
        expected : DOMAIN commits, content : Contents]
  \cup [change : {"mark_obsolete", "delete_tombstone"}, memory : DOMAIN records,
        expected : DOMAIN commits, content : {None}]

Proposable(c) ==
  c.change # "create" =>
    /\ records[c.memory].head = c.expected
    /\ records[c.memory].status \in Readable

Reserved == [status |-> "reserved", head |-> 0, content |-> None]
Row(c, memory, by) ==
  [memory |-> memory, expected |-> c.expected, change |-> c.change,
   content |-> c.content, status |-> "awaiting_review", by |-> by]
(* How many of the first i commands reserve a record: each that does is     *)
(* about the record it reserves.                                            *)
Creates(cs, i) == Cardinality({j \in 1..i : cs[j].change = "create"})

(* The rows of the commands cs, in order, each on behalf of 'by'.           *)
Inserts(cs, by) ==
  LET target(i) == IF cs[i].change = "create" THEN Len(records) + Creates(cs, i) ELSE cs[i].memory
      created == Creates(cs, Len(cs))
  IN  /\ Len(proposals) + Len(cs) <= MaxProposals
      /\ records' = records \o [i \in 1..created |-> Reserved]
      /\ proposals' = proposals \o [i \in DOMAIN cs |-> Row(cs[i], target(i), by)]
      /\ index' = index \o [i \in 1..created |-> None]

(* A repeated key with the same command replays the stored view.            *)
Propose(k, c) ==
  /\ proposeReceipts[k] = 0
  /\ Proposable(c)
  /\ Inserts(<<c>>, None)
  /\ proposeReceipts' = [proposeReceipts EXCEPT ![k] = Len(proposals) + 1]
  /\ UNCHANGED <<commits, revision, reviews, reads>>

(* The proposal calls of one model response: either all are proposed, with  *)
(* one open wait whose blockers are the proposals, or the batch is refused. *)
PrepareReview(n, cs) ==
  /\ reviews[n].status = "none"
  /\ \A i \in DOMAIN cs : Proposable(cs[i])
  /\ Inserts(cs, n)
  /\ reviews' = [reviews EXCEPT ![n] =
       [status |-> "open", items |-> (Len(proposals) + 1)..(Len(proposals) + Len(cs))]]
  /\ UNCHANGED <<commits, revision, proposeReceipts, reads>>
-----------------------------------------------------------------------------
Decided(ps, p, decision) ==
  [ps EXCEPT ![p].status = IF decision = "approve" THEN "approved" ELSE "rejected"]
(* Rejecting a create gives its reserved record up.                         *)
Discards(p, decision) == decision = "reject" /\ proposals[p].change = "create"
Released(rejected) ==
  [m \in DOMAIN records |->
     IF \E p \in rejected : proposals[p].memory = m
     THEN [records[m] EXCEPT !.status = "discarded"] ELSE records[m]]

UnderReview(p) == \E n \in Nodes : reviews[n].status = "open" /\ p \in reviews[n].items
DecidableReviewed(p) == proposals[p].status \in Undecided
Decidable(p) == ~UnderReview(p) /\ proposals[p].status \in Undecided

Decide(p, decision) ==
  /\ Decidable(p)
  /\ proposals' = Decided(proposals, p, decision)
  /\ records' = IF Discards(p, decision) THEN Released({p}) ELSE records
  /\ UNCHANGED <<commits, revision, index, proposeReceipts, reviews, reads>>

(* A response decides every open blocker of the wait, or none of them.      *)
AnswerReview(n, decisions) ==
  /\ reviews[n].status = "open"
  /\ \A p \in reviews[n].items : proposals[p].status \in Undecided
  /\ LET items == reviews[n].items
     IN  /\ proposals' = [p \in DOMAIN proposals |->
              IF p \in items THEN Decided(proposals, p, decisions[p])[p] ELSE proposals[p]]
         /\ records' = Released({p \in items : Discards(p, decisions[p])})
  /\ reviews' = [reviews EXCEPT ![n].status = "resolved"]
  /\ UNCHANGED <<commits, revision, index, proposeReceipts, reads>>

(* The run is cancelled or fails: its tool calls are fenced, their blockers *)
(* are aborted, and what they proposed stays for the API to decide.         *)
EndRun(n) ==
  /\ reviews[n].status = "open"
  /\ reviews' = [reviews EXCEPT ![n].status = "aborted"]
  /\ UNCHANGED <<records, commits, proposals, revision, index, proposeReceipts, reads>>
-----------------------------------------------------------------------------
HeadMoved(p) == records[proposals[p].memory].head # proposals[p].expected

Permitted(change, status) ==
  CASE change = "create" -> status = "reserved"
    [] change \in {"replace_content", "mark_obsolete"} -> status = "active"
    [] change = "delete_tombstone" -> status \in Readable

NextStatus(change) ==
  CASE change \in {"create", "replace_content"} -> "active"
    [] change = "mark_obsolete" -> "obsolete"
    [] change = "delete_tombstone" -> "deleted"

NextContent(p, record) ==
  CASE p.change \in {"create", "replace_content"} -> p.content
    [] p.change = "mark_obsolete" -> record.content
    [] p.change = "delete_tombstone" -> None

BumpedByContent(p) == IF proposals[p].change = "mark_obsolete" THEN revision ELSE revision + 1
Bumped(p) == revision + 1

Conflicted(p) ==
  /\ proposals[p].status = "approved"
  /\ HeadMoved(p)
  /\ proposals' = [proposals EXCEPT ![p].status = "conflicted"]
  /\ UNCHANGED <<records, commits, revision, index, proposeReceipts, reviews, reads>>

Apply(p) ==
  LET m == proposals[p].memory
      status == NextStatus(proposals[p].change)
      content == NextContent(proposals[p], records[m])
  IN  /\ proposals[p].status = "approved"
      /\ ~HeadMoved(p)
      /\ Permitted(proposals[p].change, records[m].status)
      /\ commits' = Append(commits, [memory |-> m, parent |-> records[m].head,
                                     proposal |-> p])
      /\ records' = [records EXCEPT ![m] =
           [status |-> status, head |-> Len(commits) + 1, content |-> content]]
      /\ proposals' = [proposals EXCEPT ![p].status = "applied"]
      /\ revision' = Bumped(p)
      /\ index' = [index EXCEPT ![m] = IF status \in Readable THEN content ELSE None]
      /\ UNCHANGED <<proposeReceipts, reviews, reads>>
-----------------------------------------------------------------------------
(* A search by text goes through the index, one without text through the    *)
(* records; only records of the requested status are selected.  What it     *)
(* selected, and the scope's revision, are stored with the tool call.       *)
Candidates(text) ==
  IF text = None THEN {m \in DOMAIN records : records[m].status \in Readable}
  ELSE {m \in DOMAIN records : index[m] = text /\ records[m].status \in Readable}
Selected(text, status) ==
  {<<m, records[m].head, records[m].content>> :
     m \in {x \in Candidates(text) : records[x].status = status /\ records[x].content # None}}

(* A repeated batch of the same attempt reads what the first one stored.    *)
(* Searches of a memory without any commit select nothing and are left out. *)
Search(n, text, status) ==
  /\ reviews[n].status # "open"
  /\ commits # <<>>
  /\ Cardinality(reads) < MaxReads
  /\ reads' = reads \cup {[token |-> revision, text |-> text, status |-> status,
                           selected |-> Selected(text, status)]}
  /\ UNCHANGED <<records, commits, proposals, revision, index, proposeReceipts, reviews>>
-----------------------------------------------------------------------------
Decisions == {"approve", "reject"}
Callers ==
  \/ \E k \in Keys, c \in Commands : Propose(k, c)
  \/ \E p \in DOMAIN proposals : Apply(p) \/ Conflicted(p)
  \/ \E p \in DOMAIN proposals, d \in Decisions : Decide(p, d)
LlmNodes ==
  \E n \in Nodes :
    \/ \E c \in Commands : PrepareReview(n, <<c>>)
    \/ \E c, d \in Commands : PrepareReview(n, <<c, d>>)
    \/ \E ds \in [reviews[n].items -> Decisions] : AnswerReview(n, ds)
    \/ EndRun(n)
    \/ \E text \in Contents \cup {None}, status \in Readable : Search(n, text, status)
Next == Callers \/ LlmNodes

Spec == Init /\ [][Next]_vars
-----------------------------------------------------------------------------
(* The commits of one memory.  Commits are numbered as they are made.       *)
Made(m) == {i \in DOMAIN commits : commits[i].memory = m}
Latest(made) == IF made = {} THEN 0 ELSE Max(made)
CreatesOf(m) == {p \in DOMAIN proposals : proposals[p].memory = m /\ proposals[p].change = "create"}

(* No decided change is lost or applied to something its author had not     *)
(* read: every memory is a chain of commits, one for each of its applied    *)
(* proposals and made on the head that proposal names, and its head and     *)
(* status are those of the last; a record reserved or given up is one whose *)
(* create is not applied yet or was rejected (apply.rs, decide.rs).         *)
RecordsFollowProposals ==
  /\ \A m \in DOMAIN records :
       LET made == Made(m)
           creates == CreatesOf(m)
       IN  /\ \A i \in made :
                /\ commits[i].parent = Latest({j \in made : j < i})
                /\ commits[i].parent = proposals[commits[i].proposal].expected
           /\ records[m].head = Latest(made)
           /\ made # {} =>
                records[m].status = NextStatus(proposals[commits[Latest(made)].proposal].change)
           /\ \E p \in creates :
                /\ creates = {p}
                /\ records[m].status = "reserved"
                     <=> proposals[p].status \in {"awaiting_review", "approved"}
                /\ records[m].status = "discarded" <=> proposals[p].status = "rejected"
  /\ \A p \in DOMAIN proposals :
       proposals[p].status = "applied"
         <=> \E i \in DOMAIN commits : commits[i].proposal = p

(* A node that waits for a review can be answered: nobody else decides the  *)
(* proposals its wait is blocked on (decide.rs:49); an answer that meets a  *)
(* decided proposal is refused as a whole and the run would wait for ever.  *)
ReviewsStayAnswerable ==
  \A n \in Nodes : reviews[n].status = "open" =>
    \A p \in reviews[n].items : proposals[p].status \in Undecided

(* The scope token a search stores names what it could see: two searches    *)
(* for the same thing under the same token selected the same versions       *)
(* (search.rs, update_scope_and_search in apply.rs).                        *)
TokensNameWhatWasRead ==
  \A r, q \in reads :
    [r EXCEPT !.selected = {}] = [q EXCEPT !.selected = {}] => r.selected = q.selected
=============================================================================
