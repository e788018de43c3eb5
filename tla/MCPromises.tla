------------------------------ MODULE MCPromises ------------------------------
(***************************************************************************)
(* Two components that owe somebody an answer: the projector a settled      *)
(* candidate to whoever waits for the reply of a turn, and a checked graph  *)
(* a way out to every value.  They share no state; which of them a          *)
(* behaviour is about is chosen in its initial state, the other sleeps.     *)
(***************************************************************************)
EXTENDS Naturals, Sequences

CONSTANTS
  MaxTurns, MaxRuns, MaxForks, MaxWrites,
  Routers, Steps, MaxVisits, MaxEdges, Gone

VARIABLES
  which,
  commits, branches, active, turns, selection, candidates, runs, jobs,
  edges, guard, status, at, visits, expired

C == INSTANCE Conversation
R == INSTANCE RouterGuards

story == <<commits, branches, active, turns, selection, candidates, runs, jobs>>
graph == <<edges, guard, status, at, visits, expired>>
vars == <<which, story, graph>>

StorySleeps ==
  /\ commits = 0 /\ branches = 0 /\ active = 0 /\ turns = 0 /\ selection = 0
  /\ candidates = 0 /\ runs = 0 /\ jobs = 0
GraphSleeps ==
  /\ edges = 0 /\ guard = 0 /\ status = 0 /\ at = 0 /\ visits = 0 /\ expired = 0

Init ==
  /\ which \in {"story", "graph"}
  /\ IF which = "story" THEN C!Init ELSE StorySleeps
  /\ IF which = "graph" THEN R!Init ELSE GraphSleeps

Next ==
  \/ which = "story" /\ C!Next /\ UNCHANGED <<which, graph>>
  \/ which = "graph" /\ R!Next /\ UNCHANGED <<which, story>>

(* The fairness of the two, each while the behaviour is about it.           *)
StoryStep(A) == which = "story" /\ A /\ UNCHANGED <<which, graph>>
GraphStep(A) == which = "graph" /\ A /\ UNCHANGED <<which, story>>
Fairness ==
  /\ WF_vars(StoryStep(C!Reconcile))
  /\ \A r \in 1..MaxRuns : WF_vars(StoryStep(r \in DOMAIN runs /\ C!Project(r)))
  /\ WF_vars(GraphStep(R!PassStep)) /\ WF_vars(GraphStep(R!PassRouter))
  /\ \A r \in Routers : WF_vars(GraphStep(R!Expire(r)))

Spec == Init /\ [][Next]_vars /\ Fairness
-----------------------------------------------------------------------------
(* Conversation: no order of what users, runs and the projector do makes    *)
(* the story unreadable, puts a reply after another message than the one it *)
(* answers, or makes two turns of a submission that is repeated.            *)
StoryIsSound ==
  which = "story" =>
    C!TypeOK /\ C!StoryReads /\ C!RepliesFollowTheirTurn /\ C!RequestsRunOnce
(* Conversation: what is shown goes back on a selection only.               *)
OnlySelectionsGoBack == [][which = "story" => C!GoesBackBySelection]_vars
(* Conversation: a candidate whose run has ended is settled.                *)
CandidatesSettle ==
  \A r \in 1..MaxRuns : (which = "story" /\ C!Over(r)) ~> (which = "story" /\ C!Settled(r))
(* RouterGuards: in a graph that was applied no value goes round for ever.  *)
ValuesLeave == (which = "graph" /\ status = "running") ~> at = Gone
=============================================================================
