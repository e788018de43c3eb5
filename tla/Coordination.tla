---------------------------- MODULE Coordination ----------------------------
(***************************************************************************)
(* The coordination nodes of a run (crates/storage/src/runtime/scheduler): *)
(* Expand, which turns one array into many queued values, JoinByKey, which *)
(* buffers values until every port has one of the same key, and            *)
(* Aggregator, which collects values in a window until it is full or its   *)
(* deadline passes; with the wakeups that make them look at their queues   *)
(* and the settlement that decides whether the run is finished.            *)
(*                                                                         *)
(* Every action is one transaction.  Leases, retries and clocks are those  *)
(* of GraphRun and left out: a wakeup is claimed and may be given back, an *)
(* attempt is ready, running or over, and a window's deadline just passes. *)
(* A value is known by the item a selector finds in it; items in BadItems  *)
(* have no usable key, items in Refused do not fit an Aggregator's schema. *)
(***************************************************************************)
EXTENDS Integers, Sequences, FiniteSets, FiniteSetsExt, SequencesExt

CONSTANTS
    Expands, Joins, Aggregators,   \* the nodes, by kind
    Edges, Source, Target,         \* edges are numbers: their order is that of their ids
    Entry,           \* the edges on which the start of the run left an array
    Items, BadItems, Refused,
    Arrays,          \* what each Expand may emit
    MaxItems,        \* of an Expand
    Count,           \* of an Aggregator
    MaxBuffered, MaxOpenKeys, MaxPerKeyPort, MaxPending, MaxTotal,
    MaxActivations, MaxAttempts,   \* the limits of the run
    Workers,         \* how many wakeups may be claimed at a time
    MaxDisturbances  \* bound of the model: interrupts, and workers that die with a wakeup

Nodes == Expands \cup Joins \cup Aggregators
Settle == "settle"
Slots == Nodes \cup {Settle}
Limits == {MaxItems, Count, MaxBuffered, MaxOpenKeys, MaxPerKeyPort, MaxPending, MaxTotal,
           MaxActivations, MaxAttempts, Workers}

ASSUME CoordinationAssumption ==
    /\ Settle \notin Nodes /\ Edges \subseteq Nat /\ Entry \subseteq Edges
    /\ IsFiniteSet(Nodes) /\ IsFiniteSet(Edges) /\ Items # {}
    /\ Expands \cap Joins = {} /\ (Expands \cup Joins) \cap Aggregators = {}
    /\ \A e \in Edges : Target[e] \in Nodes
    /\ \A n \in Joins : \E e \in Edges : Target[e] = n
    /\ \A e \in Edges \ Entry : Source[e] \in Nodes
    /\ \A e \in Entry : Target[e] \in Expands
    /\ BadItems \subseteq Items /\ Refused \subseteq Items
    /\ \A n \in Expands : Arrays[n] \subseteq Seq(Items)
    /\ Limits \subseteq Nat \ {0} /\ MaxDisturbances \in Nat

VARIABLES
    run,        \* graph_runs: status, the interrupts and lost claims so far
    values,     \* edge_queue_values in enqueue order, with their coordination_buffer_items
    counters,   \* run_execution_counters
    active,     \* the active instance of each node
    seqs,       \* node_scheduling_cursors: activations of each node
    windows,    \* aggregation_windows of each Aggregator, in order
    wakeups     \* scheduler_wakeups by node, pending and claimed

vars == <<run, values, counters, active, seqs, windows, wakeups>>

Terminal == {"completed", "failed", "cancelled"}
Unconsumed == {"queued", "indexed", "stranded", "cancelled"}
ValueStatus == Unconsumed \cup {"consumed"}

\* the elements of a finite set of numbers, in order
Rank(V, v) == Cardinality({u \in V : u <= v})
InOrder(S) == [i \in 1 .. Cardinality(S) |-> CHOOSE x \in S : Rank(S, x) = i]

In(n) == {e \in Edges : Target[e] = n}
Out(n) == InOrder({e \in Edges : e \notin Entry /\ Source[e] = n})
On(n, status) == {v \in DOMAIN values : Target[values[v].edge] = n /\ values[v].status = status}
Sum(f) == MapThenSumSet(LAMBDA k : f[k], DOMAIN f)

Disturbances == run.halts + run.losses

NewValue(e, item) == [edge |-> e, item |-> item, status |-> "queued", by |-> 0]
None == [s \in Slots |-> 0]

Init ==
    /\ run = [status |-> "running", halts |-> 0, losses |-> 0]
    /\ values = [i \in 1 .. Cardinality(Entry) |->
                   NewValue(InOrder(Entry)[i], CHOOSE x \in Items : TRUE)]
    /\ counters = [activations |-> 0, attempts |-> 0, pending |-> Cardinality(Entry),
                   total |-> Cardinality(Entry), buffered |-> 0]
    /\ active = [n \in Nodes |-> "none"]
    /\ seqs = [n \in Nodes |-> 0]
    /\ windows = [n \in Aggregators |-> <<>>]
    /\ wakeups = [pending |-> [s \in Slots |->
                     IF s = Settle \/ \E e \in Entry : Target[e] = s THEN 1 ELSE 0],
                  claimed |-> None]

(***************************************************************************)
(* Wakeups.                                                                *)
(***************************************************************************)
Claim(s) ==
    /\ run.status = "running" /\ wakeups.pending[s] > 0
    /\ Sum(wakeups.claimed) < Workers
    /\ wakeups' = [wakeups EXCEPT !.pending[s] = @ - 1, !.claimed[s] = @ + 1]
    /\ UNCHANGED <<run, values, counters, active, seqs, windows>>

\* the worker died: recovery gives the wakeup back
LoseClaim(s) ==
    /\ wakeups.claimed[s] > 0 /\ Disturbances < MaxDisturbances
    /\ wakeups' = [wakeups EXCEPT !.pending[s] = @ + 1, !.claimed[s] = @ - 1]
    /\ run' = [run EXCEPT !.losses = @ + 1]
    /\ UNCHANGED <<values, counters, active, seqs, windows>>

\* The claimed wakeup of s is done, and each slot in S has a new one.
Served(s, S) ==
    [pending |-> [k \in Slots |-> wakeups.pending[k] + IF k \in S THEN 1 ELSE 0],
     claimed |-> [wakeups.claimed EXCEPT ![s] = @ - 1]]
Woken(S) == [wakeups EXCEPT !.pending = [k \in Slots |-> @[k] + IF k \in S THEN 1 ELSE 0]]
Quiet(s) ==
    \A k \in Slots : Served(s, {}).pending[k] = 0 /\ Served(s, {}).claimed[k] = 0

Spent(s) ==
    /\ wakeups' = Served(s, {})
    /\ UNCHANGED <<run, values, counters, active, seqs, windows>>
\* finish_and_settle
SpentAndSettle(n) == wakeups' = Served(n, {Settle})

(***************************************************************************)
(* The end of a run: what is open is cancelled and nothing is buffered.    *)
(* fail_run and apply_cancel; V, C and S are what the caller has changed.     *)
(***************************************************************************)
Cancelled(V) == [v \in DOMAIN V |-> IF V[v].status = "indexed"
                                     THEN [V[v] EXCEPT !.status = "cancelled"] ELSE V[v]]
LastOpen(n) == windows[n] # <<>> /\ Last(windows[n]).status = "open"
EndRun(status, V, C, S) ==
    /\ run' = [run EXCEPT !.status = status]
    /\ values' = Cancelled(V)
    /\ counters' = [C EXCEPT !.buffered = 0]
    /\ active' = [n \in Nodes |-> "none"]
    /\ windows' = [n \in Aggregators |->
                     IF LastOpen(n) THEN [windows[n] EXCEPT ![Len(windows[n])].status = "cancelled"]
                     ELSE windows[n]]
    /\ wakeups' = [pending |-> None, claimed |-> None]
    /\ seqs' = S
FailRun == EndRun("failed", values, counters, seqs)

(***************************************************************************)
(* Emissions: one value per item and edge, in this order; one wakeup for   *)
(* each node downstream, however many values it gets.                      *)
(***************************************************************************)
Emitted(n, items) ==
    FlattenSeq([i \in DOMAIN items |-> [j \in DOMAIN Out(n) |-> NewValue(Out(n)[j], items[i])]])
Downstream(n, items) == IF items = <<>> THEN {} ELSE {Target[e] : e \in Range(Out(n))}
ExceedsQueues(n, items) ==
    \/ counters.total + Len(Emitted(n, items)) > MaxTotal
    \/ counters.pending + Len(Emitted(n, items)) > MaxPending
Enqueued(C, n, items) ==
    [C EXCEPT !.total = @ + Len(Emitted(n, items)), !.pending = @ + Len(Emitted(n, items))]

NoActivationLeft ==
    \/ counters.activations + 1 > MaxActivations
    \/ counters.attempts + 1 > MaxActivations * MaxAttempts
Activated(k) ==
    [counters EXCEPT !.activations = @ + 1, !.attempts = @ + 1, !.pending = @ - k]

NextSeq(n) == [seqs EXCEPT ![n] = @ + 1]
Consumed(V, n) ==
    [v \in DOMAIN values |-> IF v \in V THEN [values[v] EXCEPT !.status = "consumed", !.by = seqs[n] + 1]
                              ELSE values[v]]

(***************************************************************************)
(* activate_if_ready.  A node that has an instance is left to the recheck  *)
(* that ends the instance; an Aggregator looks at its window first.        *)
(***************************************************************************)
MaybeReady(n) == run.status = "running" /\ wakeups.claimed[n] > 0

\* the run is halted, or the node is at work
WakeupSpent(n) ==
    /\ wakeups.claimed[n] > 0
    /\ run.status # "running" \/ (n \notin Aggregators /\ active[n] # "none")
    /\ Spent(n)

NotReady(n) ==
    /\ SpentAndSettle(n)
    /\ UNCHANGED <<run, values, counters, active, seqs, windows>>

\* V is consumed by a new instance, whose attempt is queued
Begin(n, V, C) ==
    IF NoActivationLeft THEN FailRun
    ELSE /\ values' = Consumed(V, n)
         /\ counters' = C
         /\ active' = [active EXCEPT ![n] = "ready"]
         /\ seqs' = NextSeq(n)
         /\ wakeups' = Served(n, {})
         /\ UNCHANGED <<run, windows>>

ActivateExpand(n) ==
    /\ n \in Expands /\ MaybeReady(n) /\ active[n] = "none"
    /\ IF On(n, "queued") = {} THEN NotReady(n)
       ELSE Begin(n, {Min(On(n, "queued"))}, Activated(1))

(***************************************************************************)
(* join_by_key::prepare indexes the queued values in enqueue order until   *)
(* one has no key or no room, and then selects the tuple that was complete *)
(* first.  Earlier(n, v) is what is indexed when v is looked at.           *)
(***************************************************************************)
EarlierQueued(n, v) == {u \in On(n, "queued") : u < v}
Earlier(n, v) == On(n, "indexed") \cup EarlierQueued(n, v)
SameKey(V, v) == {u \in V : values[u].item = values[v].item}
SamePort(V, v) == {u \in V : values[u].edge = values[v].edge}
HasKey(v) == values[v].item \notin BadItems

\* check_limits
OverLimit(n, v) ==
    \/ counters.buffered + Cardinality(EarlierQueued(n, v)) + 1 > MaxBuffered
    \/ Cardinality(SamePort(SameKey(Earlier(n, v), v), v)) + 1 > MaxPerKeyPort
    \/ /\ SameKey(Earlier(n, v), v) = {}
       /\ Cardinality({values[u].item : u \in Earlier(n, v)}) + 1 > MaxOpenKeys
Stoppers(n) == {v \in On(n, "queued") : ~HasKey(v) \/ OverLimit(n, v)}

IndexedOf(V) ==
    [v \in DOMAIN values |-> IF v \in V THEN [values[v] EXCEPT !.status = "indexed"] ELSE values[v]]
IndexedAll(n) == IndexedOf(On(n, "queued"))
Buffered(n) == On(n, "indexed") \cup On(n, "queued")
Complete(V, n, k) == \A e \in In(n) : \E v \in V : values[v].edge = e /\ values[v].item = k
\* mutant: the newest value of each port
NewestOfKey(V, n, k) == {Max({v \in V : values[v].edge = e /\ values[v].item = k}) : e \in In(n)}
FirstOfKey(V, n, k) == {Min({v \in V : values[v].edge = e /\ values[v].item = k}) : e \in In(n)}
\* select_ready: the smallest tupleReadySeq, which only one key can have
Tuples(n) == {FirstOfKey(Buffered(n), n, k) :
                k \in {x \in Items \ BadItems : Complete(Buffered(n), n, x)}}
Selected(n) == CHOOSE t \in Tuples(n) : \A u \in Tuples(n) : Max(t) <= Max(u)

\* A failing join keeps what it has indexed: the run that ends cancels it.
JoinStopped(n) ==
    LET v == Min(Stoppers(n))  indexed == IndexedOf(EarlierQueued(n, v)) IN
    IF HasKey(v) \/ NoActivationLeft THEN EndRun("failed", indexed, counters, seqs)
    ELSE \* the value without a key ends up in a failed instance, and the run fails
         EndRun("failed",
                [u \in DOMAIN values |-> IF u = v THEN Consumed({v}, n)[u] ELSE indexed[u]],
                Activated(1), NextSeq(n))

JoinIndexed(n) ==
    LET new == Cardinality(On(n, "queued")) IN
    IF Tuples(n) = {}
      THEN /\ SpentAndSettle(n)
           /\ values' = IndexedAll(n)
           /\ counters' = [counters EXCEPT !.buffered = @ + new]
           /\ UNCHANGED <<run, active, seqs, windows>>
    ELSE IF NoActivationLeft THEN EndRun("failed", IndexedAll(n), counters, seqs)
    ELSE LET t == Selected(n) IN
         /\ values' = [v \in DOMAIN values |-> IF v \in t THEN Consumed(t, n)[v] ELSE IndexedAll(n)[v]]
         /\ counters' = [Activated(Cardinality(t)) EXCEPT !.buffered = @ + new - Cardinality(t)]
         /\ active' = [active EXCEPT ![n] = "ready"]
         /\ seqs' = NextSeq(n)
         /\ wakeups' = Served(n, {})
         /\ UNCHANGED <<run, windows>>

ActivateJoin(n) ==
    /\ n \in Joins /\ MaybeReady(n) /\ active[n] = "none"
    /\ IF Stoppers(n) # {} THEN JoinStopped(n) ELSE JoinIndexed(n)

(***************************************************************************)
(* An attempt of an Expand or a JoinByKey: started, and finalized while    *)
(* the run runs or drains.                                                 *)
(***************************************************************************)
Start(n) ==
    /\ run.status = "running" /\ active[n] = "ready"
    /\ active' = [active EXCEPT ![n] = "running"]
    /\ UNCHANGED <<run, values, counters, seqs, windows, wakeups>>

Drained(A) ==
    IF run.status = "interrupting" /\ \A n \in Nodes : A[n] # "running"
      THEN [run EXCEPT !.status = "interrupted"] ELSE run

\* The recheck of the node and the settlement that follow a completed instance.
AfterSilently(n) == {Settle}                                      \* mutant: no recheck
After(n) == {n, Settle}

Finalize(n, items) ==
    IF ExceedsQueues(n, items) THEN FailRun
    ELSE /\ values' = values \o Emitted(n, items)
         /\ counters' = Enqueued(counters, n, items)
         /\ active' = [active EXCEPT ![n] = "none"]
         /\ run' = Drained(active')
         /\ wakeups' = [Woken(Downstream(n, items)) EXCEPT
                          !.pending = [s \in Slots |-> @[s] + IF s \in After(n) THEN 1 ELSE 0]]
         /\ UNCHANGED <<seqs, windows>>

FinalizeExpand(n, items) ==
    /\ n \in Expands /\ active[n] = "running"
    /\ IF Len(items) > MaxItems THEN FailRun ELSE Finalize(n, items)

FinalizeJoin(n) ==
    /\ n \in Joins /\ active[n] = "running"
    /\ LET v == CHOOSE u \in On(n, "consumed") : values[u].by = seqs[n]
       IN  Finalize(n, <<values[v].item>>)

(***************************************************************************)
(* aggregator.rs.  The first value opens a window, with an instance that   *)
(* waits; each further wakeup adds one value, until the window is full.    *)
(***************************************************************************)
Opens(n) == active[n] = "none"
Newest(n) == Max(On(n, "queued"))                      \* mutant
Oldest(n) == Min(On(n, "queued"))
Collected(n) == IF Opens(n) THEN <<>> ELSE Last(windows[n]).items
Closed(n) == IF Opens(n) THEN windows[n] ELSE Front(windows[n])
Window(status, items, reason) == [status |-> status, items |-> items, reason |-> reason]

\* the rows after the head was taken into the window
TakenSeq(n) == IF Opens(n) THEN NextSeq(n) ELSE seqs
Taken(n) == [values EXCEPT ![Oldest(n)].status = "consumed", ![Oldest(n)].by = TakenSeq(n)[n]]
TakenCount(n) ==
    [(IF Opens(n) THEN Activated(1) ELSE [counters EXCEPT !.pending = @ - 1])
       EXCEPT !.buffered = @ + 1]

NoRoom(n) == (Opens(n) /\ NoActivationLeft) \/ counters.buffered + 1 > MaxBuffered

\* close_window, for a window that has collected items; V, C and S as in EndRun.
\* The envelope that is emitted is known by its first item.
Envelope(items) == <<values[items[1]].item>>
CloseWindow(n, V, C, S, W, items, reason, resumed) ==
    IF (resumed /\ C.attempts + 1 > MaxActivations * MaxAttempts) \/ ExceedsQueues(n, Envelope(items))
      THEN EndRun("failed", V, C, S)
    ELSE /\ run' = [run EXCEPT !.status = "running"]
         /\ values' = V \o Emitted(n, Envelope(items))
         /\ counters' = [Enqueued(C, n, Envelope(items)) EXCEPT
                           !.attempts = @ + (IF resumed THEN 1 ELSE 0), !.buffered = @ - Len(items)]
         /\ active' = [active EXCEPT ![n] = "none"]
         /\ seqs' = S
         /\ windows' = [windows EXCEPT ![n] = Append(Closed(n), Window("completed", items, reason))]
         /\ wakeups' = [W EXCEPT !.pending = [s \in Slots |->
                           @[s] + (IF s \in After(n) THEN 1 ELSE 0)
                                + (IF s \in Downstream(n, Envelope(items)) THEN 1 ELSE 0)]]

\* the window may grow further
KeepWindow(n, items) ==
    /\ values' = Taken(n)
    /\ counters' = TakenCount(n)
    /\ active' = [active EXCEPT ![n] = "waiting"]
    /\ seqs' = TakenSeq(n)
    /\ windows' = [windows EXCEPT ![n] = Append(Closed(n), Window("open", items, "none"))]
    /\ SpentAndSettle(n)
    /\ UNCHANGED run

Collect(n) ==
    LET items == Append(Collected(n), Oldest(n)) IN
    IF Len(items) >= Count
      THEN CloseWindow(n, Taken(n), TakenCount(n), TakenSeq(n), Served(n, {}), items, "count", ~Opens(n))
      ELSE KeepWindow(n, items)

\* a first value that does not fit ends up in a failed instance; a later one stays queued
RefuseHead(n) ==
    IF Opens(n) THEN EndRun("failed", Taken(n), Activated(1), NextSeq(n)) ELSE FailRun

ActivateAggregator(n) ==
    /\ n \in Aggregators /\ MaybeReady(n)
    /\ CASE On(n, "queued") = {} -> NotReady(n)
         [] On(n, "queued") # {} /\ NoRoom(n) -> FailRun
         [] On(n, "queued") # {} /\ ~NoRoom(n) /\ values[Oldest(n)].item \in Refused -> RefuseHead(n)
         [] OTHER -> Collect(n)

TimesOutRunning == run.status = "running"              \* mutant: a waiting run is forgotten
TimesOut == run.status \in {"running", "waiting"}
\* close_due, by the timer: the deadline has passed, now or while the run was halted
CloseDue(n) ==
    /\ n \in Aggregators /\ active[n] = "waiting"
    /\ TimesOut
    /\ CloseWindow(n, values, counters, seqs, wakeups, Collected(n), "timeout", TRUE)

(***************************************************************************)
(* settle_run.                                                             *)
(***************************************************************************)
Busy == {n \in Nodes : active[n] \in {"ready", "running"}}
Awaited == \E n \in Aggregators : active[n] = "waiting"
Settles == run.status = "running" /\ wakeups.claimed[Settle] > 0

SettleWaiting ==
    /\ Settles /\ Awaited /\ Busy = {} /\ Quiet(Settle)
    /\ run' = [run EXCEPT !.status = "waiting"]
    /\ wakeups' = Served(Settle, {})
    /\ UNCHANGED <<values, counters, active, seqs, windows>>

SettleBusy ==
    /\ wakeups.claimed[Settle] > 0
    /\ run.status = "running" => Busy # {} \/ ~Quiet(Settle)
    /\ Spent(Settle)

\* strand: what no tuple was found for is given up
Stranded == [v \in DOMAIN values |-> IF values[v].status = "indexed"
                                       THEN [values[v] EXCEPT !.status = "stranded"] ELSE values[v]]
StrandedCountKept == counters                                  \* mutant: the counter is forgotten
StrandedCount ==
    [counters EXCEPT !.buffered = @ - Cardinality({v \in DOMAIN values : values[v].status = "indexed"})]

SettleCompleted ==
    /\ Settles /\ Busy = {} /\ ~Awaited /\ Quiet(Settle)
    /\ run' = [run EXCEPT !.status = "completed"]
    /\ values' = Stranded
    /\ counters' = StrandedCount
    /\ wakeups' = Served(Settle, {})
    /\ UNCHANGED <<active, seqs, windows>>

(***************************************************************************)
(* Controls.                                                               *)
(***************************************************************************)
Interrupt ==
    /\ run.status \in {"running", "waiting"} /\ Disturbances < MaxDisturbances
    /\ run' = [run EXCEPT !.halts = @ + 1,
                 !.status = IF \E n \in Nodes : active[n] = "running" THEN "interrupting" ELSE "interrupted"]
    /\ UNCHANGED <<values, counters, active, seqs, windows, wakeups>>

Resume ==
    /\ run.status = "interrupted"
    /\ run' = [run EXCEPT !.status = "running"]
    /\ wakeups' = Woken({Settle})
    /\ UNCHANGED <<values, counters, active, seqs, windows>>

Cancel == run.status \notin Terminal /\ EndRun("cancelled", values, counters, seqs)

Work(n) ==
    \/ WakeupSpent(n) \/ ActivateExpand(n) \/ ActivateJoin(n) \/ ActivateAggregator(n)
    \/ Start(n) \/ FinalizeJoin(n)
    \/ n \in Expands /\ \E items \in Arrays[n] : FinalizeExpand(n, items)

Next ==
    \/ \E s \in Slots : Claim(s) \/ LoseClaim(s)
    \/ \E n \in Nodes : Work(n)
    \/ \E n \in Aggregators : CloseDue(n)
    \/ SettleWaiting \/ SettleBusy \/ SettleCompleted
    \/ Interrupt \/ Resume \/ Cancel

Spec == Init /\ [][Next]_vars

\* The scheduler loop goes on: it claims what is pending, serves what it claimed and ends
\* what it started, in an order of its own; and it looks at the deadlines, which run_one
\* does first.  People need not do anything.
Loop ==
    \/ \E s \in Slots : Claim(s)
    \/ \E n \in Nodes : Work(n)
    \/ SettleWaiting \/ SettleBusy \/ SettleCompleted
FairSpec ==
    /\ Spec
    /\ WF_vars(Loop)
    /\ \A n \in Aggregators : WF_vars(CloseDue(n))

(***************************************************************************)
(* Properties.                                                             *)
(***************************************************************************)
\* Every row keeps its type.
TypeOK ==
    /\ run \in [status : {"running", "waiting", "interrupting", "interrupted"} \cup Terminal,
                halts : 0 .. MaxDisturbances, losses : 0 .. MaxDisturbances]
    /\ \A v \in DOMAIN values :
         values[v] \in [edge : Edges, item : Items, status : ValueStatus, by : 0 .. MaxActivations]
    /\ counters \in [activations : Nat, attempts : Nat, pending : Nat, total : Nat, buffered : Nat]
    /\ active \in [Nodes -> {"none", "ready", "running", "waiting"}]
    /\ seqs \in [Nodes -> 0 .. MaxActivations]
    /\ \A n \in Aggregators : \A i \in DOMAIN windows[n] :
         /\ windows[n][i].status \in {"open", "completed", "cancelled"}
         /\ windows[n][i].status = "open" <=> (i = Len(windows[n]) /\ active[n] = "waiting")
    /\ wakeups.pending \in [Slots -> Nat] /\ wakeups.claimed \in [Slots -> Nat]

\* The two counters that guard the limits agree with the rows they count - values
\* buffered by joins and windows, values that wait in queues - at every limit, failure,
\* closing and end of the run (runtime/scheduler, every transaction that moves a value).
InWindows == UNION {IF active[n] = "waiting" THEN Range(Last(windows[n]).items) ELSE {} : n \in Aggregators}
CountersMatchRows ==
    /\ counters.buffered =
         Cardinality({v \in DOMAIN values : values[v].status = "indexed"}) + Cardinality(InWindows)
    /\ counters.pending = Cardinality({v \in DOMAIN values : values[v].status \in Unconsumed})

\* Nodes, windows, wakeups and counters of a run agree with each other.
RowsAreConsistent == TypeOK /\ CountersMatchRows

\* A JoinByKey pairs the i-th value of a key on one port with the i-th value of this key
\* on every other port, in whatever order the values arrived (join_by_key.rs:169).
Tupled(n, e, k) == {v \in On(n, "consumed") : values[v].edge = e /\ values[v].item = k}
OfKey(e, k) == {v \in DOMAIN values : values[v].edge = e /\ values[v].item = k}
JoinPairsInOrder ==
    \A n \in Joins : \A k \in Items \ BadItems : \A d, e \in In(n) :
      \A v \in Tupled(n, d, k), u \in Tupled(n, e, k) :
        values[v].by = values[u].by <=> Rank(OfKey(d, k), v) = Rank(OfKey(e, k), u)

\* The windows of an Aggregator, one after the other, are the values of its queue in
\* enqueue order, none left out and none twice; and only a deadline closes a window that
\* is not full, whichever of the two comes first (aggregator.rs:245, aggregator_close.rs:210).
Arrived(n) == InOrder({v \in DOMAIN values : Target[values[v].edge] = n})
WindowsPartitionTheQueue ==
    \A n \in Aggregators :
      /\ IsPrefix(FlattenSeq([i \in DOMAIN windows[n] |-> windows[n][i].items]), Arrived(n))
      /\ \A i \in DOMAIN windows[n] :
           windows[n][i].reason = "count" <=> Len(windows[n][i].items) = Count

\* A run completes only when no node could fire any more: no tuple is complete and no
\* value waits for an Expand or an Aggregator.  A run that was interrupted may have lost
\* a wakeup (see NoLostWakeup of GraphRun) and is left out.
NothingReadyIsStranded ==
    (run.status = "completed" /\ run.halts = 0) =>
      /\ \A n \in Joins : \A k \in Items \ BadItems :
           ~Complete(On(n, "stranded") \cup On(n, "queued"), n, k)
      /\ \A n \in Expands \cup Aggregators : On(n, "queued") = {}

\* A window does not wait for its deadline while values for it are queued: somebody is
\* about to look at the queue again.
OpenWindowIsFed ==
    (run.status \in {"running", "waiting"} /\ run.halts = 0) =>
      \A n \in Aggregators : active[n] = "waiting" /\ On(n, "queued") # {} =>
        wakeups.pending[n] + wakeups.claimed[n] > 0

\* Every window closes, by its count, its deadline or the end of the run, unless the run
\* is halted and never resumed.
WindowsClose ==
    \A n \in Aggregators :
      active[n] = "waiting" ~> (active[n] # "waiting" \/ run.status \in {"interrupting", "interrupted"})
=============================================================================
