---------------------------- MODULE Conversation ----------------------------
(***************************************************************************)
(* One conversation (crates/storage/src/conversation): the active branch   *)
(* and head that the story shows, its turns, and the candidate replies of  *)
(* each turn.  A candidate is a run bound to a branch of its own, forked   *)
(* at the user's commit; when the run has ended, the projector appends the *)
(* reply to that branch and, if nothing has moved, makes it the active     *)
(* one.  Every command and every job of the projector is one transaction,  *)
(* so an action here is a whole command; what interleaves is the commands, *)
(* the runs, the projector and other writers of the same context.          *)
(*                                                                         *)
(* Commits, branches, turns and candidates are numbered as they are made:  *)
(* commit 1 is the root commit and branch 1 the root branch.  A commit     *)
(* keeps what it appended: the turn's user message, the reply of a run, or *)
(* no message at all.                                                      *)
(***************************************************************************)
EXTENDS Integers, Sequences, FiniteSets

CONSTANTS MaxTurns, \* turns submitted
          MaxRuns,  \* candidates, over all the turns
          MaxForks, \* branches forked by a selection
          MaxWrites \* commits of the runs and of other writers

VARIABLES commits,    \* Seq of [parent, branch, kind, of]: what was appended
          branches,   \* Seq of heads
          active,     \* [branch, head]: what the story shows
          turns,      \* Seq of [user, request]: the user commit
          selection,  \* Seq, by turn: the selected candidate or 0
          candidates, \* Seq of [turn, branch, base, status, commit, error]
          runs,       \* Seq, by candidate: [status, output, reply]
          jobs        \* Seq, by candidate: the projection job

vars == <<commits, branches, active, turns, selection, candidates, runs, jobs>>

Terminal == {"completed", "failed", "cancelled"}
Unready == {"projection_conflicted", "projection_failed", "projection_abandoned"}
Statuses == {"running", "ready", "failed", "cancelled"} \cup Unready
Kinds == {"root", "user", "assistant", "run", "context"}
JobStatuses == {"none", "pending", "done", "failed", "conflicted"}
-----------------------------------------------------------------------------
(* The commits from the root to each commit: their numbers grow on the way. *)
Ancestry ==
  LET Path[c \in DOMAIN commits] ==
        {c} \cup (IF c = 1 THEN {} ELSE Path[commits[c].parent])
  IN  Path

Reaches(from, to) == to \in Ancestry[from]

(* The messages at a commit, in the order of their numbers. *)
Messages(c) == {d \in Ancestry[c] : commits[d].kind \in {"user", "assistant"}}

(* A commit lands on the head its branch has now: a patch made against an  *)
(* older commit is rebased, since only messages are appended to /messages. *)
Committed(b, kind, of) ==
  commits' = Append(commits, [parent |-> branches[b], branch |-> b,
                              kind |-> kind, of |-> of])
NewCommit == Len(commits) + 1
NewBranch == Len(branches) + 1
Writes == Cardinality({c \in DOMAIN commits : commits[c].kind \in {"run", "context"}})
Forks == Len(branches) - 1 - Len(candidates)

(* A request whose key has a receipt is answered with its first result.    *)
(* Keys are numbered as they are first used.                               *)
Fresh(key) == \A t \in DOMAIN turns : turns[t].request # key

Init ==
  /\ commits = <<[parent |-> 0, branch |-> 1, kind |-> "root", of |-> 0]>>
  /\ branches = <<1>>
  /\ active = [branch |-> 1, head |-> 1]
  /\ turns = <<>> /\ selection = <<>> /\ candidates = <<>>
  /\ runs = <<>> /\ jobs = <<>>

(* A candidate: a branch at the user's commit and a run bound to it. *)
StartCandidate(t, base) ==
  /\ candidates' = Append(candidates,
       [turn |-> t, branch |-> NewBranch, base |-> base, status |-> "running",
        commit |-> 0, error |-> FALSE])
  /\ runs' = Append(runs, [status |-> "running", output |-> 0, reply |-> "none"])
  /\ jobs' = Append(jobs, "none")

(* The user's message: its commit, the turn and the first candidate. *)
Submit(key, expected) ==
  /\ Len(turns) < MaxTurns /\ Len(candidates) < MaxRuns
  /\ Fresh(key)
  /\ expected = active.head
  /\ LET t == Len(turns) + 1
     IN  /\ Committed(active.branch, "user", t)
         /\ branches' = Append([branches EXCEPT ![active.branch] = NewCommit], NewCommit)
         /\ active' = [active EXCEPT !.head = NewCommit]
         /\ turns' = Append(turns, [user |-> NewCommit, request |-> key])
         /\ selection' = Append(selection, 0)
         /\ StartCandidate(t, NewCommit)

(* Another candidate of a turn, forked at the turn's user commit.  (A      *)
(* retried request is answered by its receipt and changes nothing.)        *)
ForkPointNow(t) == active.head
ForkPoint(t) == turns[t].user
Regenerate(t) ==
  /\ Len(candidates) < MaxRuns
  /\ branches' = Append(branches, ForkPoint(t))
  /\ StartCandidate(t, turns[t].user)
  /\ UNCHANGED <<commits, active, turns, selection>>
-----------------------------------------------------------------------------
(* The run of a candidate commits to its branch and ends; the output       *)
(* commit of a completed run is the head of the branch it is bound to.     *)
RunCommits(r) ==
  /\ runs[r].status = "running" /\ Writes < MaxWrites
  /\ Committed(candidates[r].branch, "run", r)
  /\ branches' = [branches EXCEPT ![candidates[r].branch] = NewCommit]
  /\ UNCHANGED <<active, turns, selection, candidates, runs, jobs>>

RunEnds(r, status, reply) ==
  /\ runs[r].status = "running"
  /\ runs' = [runs EXCEPT ![r] =
       [status |-> status, reply |-> reply,
        output |-> IF status = "completed" THEN branches[candidates[r].branch] ELSE 0]]
  /\ UNCHANGED <<commits, branches, active, turns, selection, candidates, jobs>>

(* Another writer commits to a branch of the conversation's context. *)
ContextCommit(b) ==
  /\ Writes < MaxWrites
  /\ Committed(b, "context", 0)
  /\ branches' = [branches EXCEPT ![b] = NewCommit]
  /\ UNCHANGED <<active, turns, selection, candidates, runs, jobs>>
-----------------------------------------------------------------------------
(* The projector: a job for every running candidate of an ended run. *)
UnprojectedCompleted(r) ==
  candidates[r].status = "running" /\ runs[r].status = "completed" /\ jobs[r] = "none"
Unprojected(r) ==
  candidates[r].status = "running" /\ runs[r].status \in Terminal /\ jobs[r] = "none"
Reconcile ==
  /\ \E r \in DOMAIN runs : Unprojected(r)
  /\ jobs' = [r \in DOMAIN jobs |-> IF Unprojected(r) THEN "pending" ELSE jobs[r]]
  /\ UNCHANGED <<commits, branches, active, turns, selection, candidates, runs>>

(* The first reply of a turn becomes the active one while the head is      *)
(* still the user's commit and no candidate of the turn was selected.      *)
MaySelectUnselected(r) == selection[candidates[r].turn] = 0
MaySelect(r) == active.head = candidates[r].base /\ selection[candidates[r].turn] = 0
AutoSelect(r) ==
  IF MaySelect(r)
  THEN /\ active' = [branch |-> candidates[r].branch, head |-> NewCommit]
       /\ selection' = [selection EXCEPT ![candidates[r].turn] = r]
  ELSE UNCHANGED <<active, selection>>

(* The reply is appended to the candidate's branch. *)
AppendReply(r) ==
  /\ Committed(candidates[r].branch, "assistant", r)
  /\ branches' = [branches EXCEPT ![candidates[r].branch] = NewCommit]
  /\ candidates' = [candidates EXCEPT ![r].status = "ready", ![r].commit = NewCommit]
  /\ AutoSelect(r)
  /\ UNCHANGED <<turns, runs>>

Outcome(r, status, job, error) ==
  /\ candidates' = [candidates EXCEPT ![r].status = status, ![r].error = error]
  /\ jobs' = [jobs EXCEPT ![r] = job]
  /\ UNCHANGED <<commits, branches, active, turns, selection, runs>>

Due(r) == jobs[r] = "pending" /\ candidates[r].status = "running"
HeadMoved(r) == branches[candidates[r].branch] # runs[r].output
ProjectEnded(r) ==
  /\ Due(r) /\ runs[r].status \in {"failed", "cancelled"}
  /\ Outcome(r, runs[r].status, "done", FALSE)
ProjectConflict(r) ==
  /\ Due(r) /\ runs[r].status = "completed" /\ HeadMoved(r)
  /\ Outcome(r, "projection_conflicted", "conflicted", TRUE)
ProjectFailure(r) ==
  /\ Due(r) /\ runs[r].status = "completed" /\ ~HeadMoved(r) /\ runs[r].reply = "invalid"
  /\ Outcome(r, "projection_failed", "failed", TRUE)
ProjectReady(r) ==
  /\ Due(r) /\ runs[r].status = "completed" /\ ~HeadMoved(r) /\ runs[r].reply = "valid"
  /\ AppendReply(r)
  /\ jobs' = [jobs EXCEPT ![r] = "done"]
Project(r) ==
  ProjectEnded(r) \/ ProjectConflict(r) \/ ProjectFailure(r) \/ ProjectReady(r)
-----------------------------------------------------------------------------
(* The user settles a conflict against the head the branch has now. *)
Conflicted(r, expected) ==
  /\ candidates[r].status = "projection_conflicted"
  /\ branches[candidates[r].branch] = expected
ResolveAppend(r, expected) ==
  /\ Conflicted(r, expected)
  /\ Reaches(expected, runs[r].output)
  /\ runs[r].reply = "valid"
  /\ AppendReply(r)
  /\ UNCHANGED jobs
ResolveAbandon(r, expected) ==
  /\ Conflicted(r, expected)
  /\ candidates' = [candidates EXCEPT ![r].status = "projection_abandoned"]
  /\ UNCHANGED <<commits, branches, active, turns, selection, runs, jobs>>

(* The user picks a ready candidate.  When its branch has moved on, the    *)
(* story continues on a new branch forked at the reply.                    *)
Selectable(r) == candidates[r].status = "ready"
Select(r, expected) ==
  /\ Selectable(r)
  /\ expected = active.head
  /\ LET c == candidates[r]
         stale == branches[c.branch] # c.commit
     IN  /\ stale => Forks < MaxForks /\ Reaches(branches[c.branch], c.commit)
         /\ branches' = IF stale THEN Append(branches, c.commit) ELSE branches
         /\ active' = [branch |-> IF stale THEN NewBranch ELSE c.branch, head |-> c.commit]
         /\ selection' = [selection EXCEPT ![c.turn] = r]
  /\ UNCHANGED <<commits, turns, candidates, runs, jobs>>
-----------------------------------------------------------------------------
User ==
  \/ \E k \in 1..(Len(turns) + 1), h \in DOMAIN commits : Submit(k, h)
  \/ \E t \in DOMAIN turns : Regenerate(t)
  \/ \E r \in DOMAIN runs, h \in DOMAIN commits :
       Select(r, h) \/ ResolveAppend(r, h) \/ ResolveAbandon(r, h)
Runs ==
  \E r \in DOMAIN runs :
    \/ RunCommits(r)
    \/ \E reply \in {"valid", "invalid"} : RunEnds(r, "completed", reply)
    \/ \E status \in {"failed", "cancelled"} : RunEnds(r, status, "none")
Projector == Reconcile \/ \E r \in DOMAIN runs : Project(r)
Next == User \/ Runs \/ Projector \/ \E b \in DOMAIN branches : ContextCommit(b)

Spec == Init /\ [][Next]_vars
(* The server polls the projector for as long as it runs, and a job that   *)
(* meets no storage error is finished in the pass that finds it.           *)
FairSpec == Spec /\ WF_vars(Reconcile)
                 /\ \A r \in 1..MaxRuns : WF_vars(r \in DOMAIN runs /\ Project(r))
-----------------------------------------------------------------------------
TypeOK ==
  /\ \A c \in DOMAIN commits :
       /\ commits[c].kind \in Kinds /\ commits[c].parent \in 0..(c - 1)
       /\ commits[c].branch \in DOMAIN branches
  /\ \A b \in DOMAIN branches : branches[b] \in DOMAIN commits
  /\ active.branch \in DOMAIN branches /\ active.head \in DOMAIN commits
  /\ Len(selection) = Len(turns)
  /\ Len(runs) = Len(candidates) /\ Len(jobs) = Len(candidates)
  /\ \A r \in DOMAIN candidates :
       candidates[r].status \in Statuses /\ jobs[r] \in JobStatuses

(* What a read of the story insists on (read_timeline.rs, read_messages.rs, *)
(* read_candidates.rs and read_candidate_validation.rs answer anything else *)
(* with an integrity error): the active head is on the active branch, which *)
(* at most other writers of the context have moved since; no turn is on the *)
(* path twice; a selection is a ready candidate of its turn; a candidate    *)
(* has the message, the commit and the error its status calls for.          *)
HeadReads ==
  /\ Reaches(branches[active.branch], active.head)
  /\ \A c \in DOMAIN commits :
       Reaches(branches[active.branch], c) /\ ~Reaches(active.head, c)
         => commits[c].kind = "context"
TurnsRead ==
  LET users == {c \in Messages(active.head) : commits[c].kind = "user"}
  IN  \A c, d \in users : commits[c].of = commits[d].of => c = d
SelectionsRead ==
  \A t \in DOMAIN turns : selection[t] # 0 =>
    candidates[selection[t]].turn = t /\ candidates[selection[t]].status = "ready"
CandidateReads(r) ==
  LET c == candidates[r]
  IN  /\ c.base = turns[c.turn].user
      /\ (c.status = "ready") = (c.commit # 0)
      /\ c.status \in Unready => c.error
      /\ c.error => c.status \in Unready \cup {"ready"}
      /\ c.status \in Unready \cup {"ready"} => runs[r].status = "completed"
      /\ c.status \in {"failed", "cancelled"} => runs[r].status = c.status
      /\ c.status = "ready" => commits[c.commit].branch = c.branch

(* No order of submissions, regenerations, selections, resolutions, runs and      *)
(* other writers makes the story unreadable, and a ready candidate's reply is one *)
(* commit of its branch that follows the output of its run (append.rs).           *)
StoryReads ==
  /\ HeadReads /\ TurnsRead /\ SelectionsRead
  /\ \A r \in DOMAIN candidates :
       /\ CandidateReads(r)
       /\ candidates[r].status = "ready" =>
            /\ Reaches(candidates[r].commit, runs[r].output)
            /\ Reaches(branches[candidates[r].branch], candidates[r].commit)
            /\ {d \in DOMAIN commits : commits[d].kind = "assistant" /\ commits[d].of = r}
                 = {candidates[r].commit}

(* On every branch a reply follows the user message of its own turn with no other *)
(* message between, whichever turn was submitted, regenerated, resolved or        *)
(* selected in the meantime (the parent message written by append.rs).            *)
RepliesFollowTheirTurn ==
  \A b \in DOMAIN branches : \A c \in Messages(branches[b]) :
    commits[c].kind = "assistant" =>
      LET base == candidates[commits[c].of].base
      IN  base \in Messages(c) /\ \A d \in Messages(c) : d <= base \/ d = c

(* A submission retried under its key makes no second turn, even when a selection *)
(* has put the head back to where the first one found it (receipt.rs, submit.rs). *)
RequestsRunOnce ==
  \A s, t \in DOMAIN turns : turns[s].request = turns[t].request => s = t

(* The projector never takes a message off the story: it may only extend what is  *)
(* shown, however late the reply comes and whatever was submitted meanwhile       *)
(* (auto_select of selection.rs); only a selection goes back.                     *)
GoesBackBySelection ==
  active'.head # active.head =>
    \/ \E h \in DOMAIN commits : h = active.head /\ Reaches(active.head, h)'
    \/ \E r \in DOMAIN candidates :
         /\ candidates[r].status = "ready" /\ candidates[r].commit = active'.head
         /\ selection'[candidates[r].turn] = r
OnlySelectionsGoBack == [][GoesBackBySelection]_vars

(* Every candidate whose run has ended leaves 'running', for the projector finds  *)
(* the candidates by scanning, whatever happened to the wake-up after the run.    *)
Over(r) == r \in DOMAIN runs /\ runs[r].status \in Terminal
Settled(r) == r \in DOMAIN runs /\ candidates[r].status # "running"
CandidatesSettle == \A r \in 1..MaxRuns : Over(r) ~> Settled(r)
=============================================================================
