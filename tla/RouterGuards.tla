----------------------------- MODULE RouterGuards -----------------------------
(***************************************************************************)
(* Cycles of a graph and the Routers that guard them.  Apply accepts a      *)
(* cyclic graph when every cycle passes a Router with a limit and when the  *)
(* outputs taken at the limit leave the cycle.  What that is for: no value  *)
(* goes round for ever, whatever the Routers decide.                        *)
(*                                                                         *)
(* The module follows one value through a run: at every node it goes on     *)
(* along one of the edges the node emits on.  Strongly connected components *)
(* are what validate_cycles computes, here by their definition; the nodes   *)
(* outside every cycle (inputs, outputs) and the limits of the whole run     *)
(* are left out.                                                            *)
(***************************************************************************)
EXTENDS Naturals, FiniteSets, Graphs

CONSTANTS
  Routers, Steps,   \* nodes with two output ports; nodes with one
  MaxVisits,        \* maxVisitsPerRun of a Router that has one
  MaxEdges,         \* bound of a draft's edges
  Gone              \* where a value is that goes nowhere

VARIABLES
  edges,     \* of the draft, later of the revision
  guard,     \* guard[r]: [kind, limit], limit = onLimitOutputs ({} if absent)
  status,    \* "draft", "running"
  at,        \* where the followed value is
  visits,    \* router_controls.visits
  expired    \* Routers whose timeoutMsPerRun is over

vars == <<edges, guard, status, at, visits, expired>>

Ports == {"a", "b"}
Nodes == Routers \cup Steps
Edges == [from : Routers, port : Ports, to : Nodes] \cup [from : Steps, port : {"a"}, to : Nodes]
Guards == [kind : {"none"}, limit : {{}}] \cup [kind : {"visits", "timeout"}, limit : SUBSET Ports]

Init ==
  /\ edges \in UNION {kSubset(k, Edges) : k \in 0..MaxEdges}
  /\ guard \in [Routers -> Guards]
  /\ status = "draft" /\ at = Gone
  /\ visits = [r \in Routers |-> 0] /\ expired = {}
-----------------------------------------------------------------------------
(* validate_cycles.                                                         *)
Adjacency == {<<e.from, e.to>> : e \in edges}
Within(nodes) == [node |-> nodes, edge |-> Adjacency \cap (nodes \X nodes)]
Component(joined, n) == {m \in Nodes : joined[n, m] /\ joined[m, n]}
StronglyConnected == LET joined == ConnectionsIn(Within(Nodes)) IN {Component(joined, n) : n \in Nodes}
Cyclic(component) == Cardinality(component) > 1 \/ Within(component).edge # {}

IsGuarded(n) == IF n \in Routers THEN guard[n].kind # "none" ELSE FALSE
Guarded(component) == {n \in component : IsGuarded(n)}
BypassesNowhere(component) == TRUE
BypassesNoGuard(component) == ~HasCycle(Within(component \ Guarded(component)))
AvoidsCycle(component, r, e) == e.to \notin component
LimitRoutesLeave(component) ==
  \A r \in Guarded(component) : \A e \in edges :
    e.from = r /\ e.port \in guard[r].limit => AvoidsCycle(component, r, e)

ValidCycles ==
  \A component \in StronglyConnected :
    Cyclic(component) => /\ Guarded(component) # {}
                         /\ BypassesNoGuard(component)
                         /\ LimitRoutesLeave(component)

Apply ==
  /\ status = "draft" /\ ValidCycles
  /\ status' = "running" /\ at' \in Nodes
  /\ UNCHANGED <<edges, guard, visits, expired>>
-----------------------------------------------------------------------------
(* The value goes on along an edge of one of these ports, if there is one.  *)
GoesOn(ports) ==
  LET taken == {e \in edges : e.from = at /\ e.port \in ports} IN
  IF taken = {} THEN at' = Gone ELSE \E e \in taken : at' = e.to

PassStep ==
  /\ at \in Steps
  /\ GoesOn(Ports)
  /\ UNCHANGED <<edges, guard, status, visits, expired>>

(* create_control_snapshot counts the activation; past a limit the rules    *)
(* are not asked, and without an output for the limit the Router fails, as  *)
(* it does when no rule matches.                                            *)
LimitReached(r) ==
  \/ guard[r].kind = "visits" /\ visits'[r] > MaxVisits
  \/ guard[r].kind = "timeout" /\ r \in expired
\* Visits are counted as far as something depends on them.
CountsTo(r) == CASE guard[r].kind = "visits" -> MaxVisits + 1
                 [] guard[r].kind = "timeout" -> 1
                 [] OTHER -> 0
Counted(r) == IF visits[r] = CountsTo(r) THEN visits ELSE [visits EXCEPT ![r] = @ + 1]

PassRouter ==
  /\ at \in Routers
  /\ visits' = Counted(at)
  /\ IF LimitReached(at) THEN GoesOn(guard[at].limit)
     ELSE \E selected \in SUBSET Ports : GoesOn(selected)
  /\ UNCHANGED <<edges, guard, status, expired>>

(* A timeout counts from the Router's first visit.                          *)
Expire(r) ==
  /\ status = "running" /\ at # Gone
  /\ guard[r].kind = "timeout" /\ visits[r] > 0 /\ r \notin expired
  /\ expired' = expired \cup {r}
  /\ UNCHANGED <<edges, guard, status, at, visits>>

Next == Apply \/ PassStep \/ PassRouter \/ \E r \in Routers : Expire(r)

(* The scheduler goes on with every value, and time passes.                 *)
Fairness ==
  /\ WF_vars(PassStep) /\ WF_vars(PassRouter)
  /\ \A r \in Routers : WF_vars(Expire(r))
FairSpec == Init /\ [][Next]_vars /\ Fairness
-----------------------------------------------------------------------------
(* In a graph that was applied no value goes round for ever: what the three *)
(* checks of the cycles (cycle.rs:26-63) promise about every decision a     *)
(* Router may take (decision.rs:75-142).                                    *)
ValuesLeave == status = "running" ~> at = Gone
=============================================================================
