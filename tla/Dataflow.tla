------------------------------- MODULE Dataflow -------------------------------
(***************************************************************************)
(* What a run promises the author of a graph: a network of nodes joined by *)
(* first-in first-out edges.  A node has at most one activation at a time; *)
(* an activation takes its inputs once and, when it completes, fills its   *)
(* edges once.  A halted network completes what it had begun and begins    *)
(* nothing; a closed one does nothing.  Attempts, leases, retries, waits,  *)
(* wakeups and crashes do not exist here.                                  *)
(***************************************************************************)
EXTENDS Integers, Sequences, FiniteSets

CONSTANTS Nodes, Edges, Source, Target, Entry, Mergers, Routers

VARIABLES
    mode,   \* "open", "halted" or "closed"
    busy,   \* the nodes with an activation under way
    fired,  \* how often each node was activated
    queue,  \* the values on each edge, by the number they were sent under
    next    \* the number of the next value

vars == <<mode, busy, fired, queue, next>>

In(n)  == {e \in Edges : Target[e] = n}
Out(n) == {e \in Edges : Source[e] = n}

Init ==
    /\ mode = "open"
    /\ busy = Entry
    /\ fired = [n \in Nodes |-> IF n \in Entry THEN 1 ELSE 0]
    /\ queue = [e \in Edges |-> <<>>]
    /\ next = 1

\* a Merge node takes the oldest value on offer, any other node one per edge
Takes(n, heads) ==
    /\ heads \subseteq In(n) /\ heads # {}
    /\ \A e \in heads : queue[e] # <<>>
    /\ IF n \in Mergers
         THEN \E e \in heads : /\ heads = {e}
                               /\ \A d \in In(n) : queue[d] # <<>>
                                                     => Head(queue[e]) <= Head(queue[d])
         ELSE heads = In(n)

Activate(n, heads) ==
    /\ mode = "open"
    /\ n \notin busy
    /\ Takes(n, heads)
    /\ fired' = [fired EXCEPT ![n] = @ + 1]
    /\ queue' = [e \in Edges |-> IF e \in heads THEN Tail(queue[e]) ELSE queue[e]]

Fire(n, heads) ==
    /\ Activate(n, heads)
    /\ busy' = busy \cup {n}
    /\ UNCHANGED <<mode, next>>

\* the inputs were taken and found invalid
Reject(n, heads) ==
    /\ Activate(n, heads)
    /\ mode' = "closed" /\ busy' = {}
    /\ UNCHANGED next

\* the k-th edge of the emission receives the value numbered next + k - 1
Complete(n) ==
    /\ mode # "closed"
    /\ n \in busy
    /\ busy' = busy \ {n}
    /\ next' \in next..(next + Cardinality(Out(n)))
    /\ n \notin Routers => next' = next + Cardinality(Out(n))
    /\ \A e \in Edges :
         \/ queue'[e] = queue[e]
         \/ /\ e \in Out(n)
            /\ \E seq \in next..(next' - 1) : queue'[e] = Append(queue[e], seq)
    /\ \A seq \in next..(next' - 1) :
         \E e \in Out(n) : queue'[e] = Append(queue[e], seq)
    /\ DOMAIN queue' = Edges
    /\ UNCHANGED <<mode, fired>>

Halt     == mode = "open" /\ mode' = "halted" /\ UNCHANGED <<busy, fired, queue, next>>
Continue == mode = "halted" /\ mode' = "open" /\ UNCHANGED <<busy, fired, queue, next>>

\* the run ended: whatever was under way is gone
Close ==
    /\ mode # "closed"
    /\ mode' = "closed" /\ busy' = {}
    /\ UNCHANGED <<fired, queue, next>>

Next ==
    \/ \E n \in Nodes : Complete(n)
    \/ \E n \in Nodes : \E heads \in SUBSET In(n) : Fire(n, heads) \/ Reject(n, heads)
    \/ Halt \/ Continue \/ Close

Spec == Init /\ [][Next]_vars
===============================================================================
