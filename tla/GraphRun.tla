------------------------------- MODULE GraphRun -------------------------------
(***************************************************************************)
(* One durable run of a graph: the rows the SQLite store keeps for it and  *)
(* every transaction that changes them, from the scheduler loop of         *)
(* crates/core/src/scheduler.rs (timers, lease recovery, claim, start,     *)
(* finalize, activate, settle), from the run controls (interrupt, resume,  *)
(* cancel) and from the delivery of an external response.                  *)
(*                                                                         *)
(* The pool holds one connection, so a transaction is one atomic step.     *)
(* What interleaves is the transactions of several workers, of the API     *)
(* and of a process that dies between two of them.  A transaction that     *)
(* returns an error rolls back: it is a step that cannot be taken.         *)
(*                                                                         *)
(* Left out here: JoinByKey, Aggregator and Expand nodes, the LLM ledger   *)
(* with the waits it opens, Context commits, events and checkpoints.       *)
(***************************************************************************)
EXTENDS Integers, Sequences, FiniteSets

CONSTANTS
    Nodes, Edges,       \* the graph; edges are numbers, in emission order
    Source, Target,     \* the two ends of each edge
    Entry,              \* Input nodes: they start the run, no edge enters them
    Mergers, Routers,   \* nodes that take one head; nodes that pick their edges
    Outputs,            \* Output nodes: each commits values of one output key
    Single, Required,   \* the keys that hold one value; the keys a run must have
    WaitKinds,          \* the external waits a node's executor may ask for
    Workers,
    MaxAttempts, MaxActivations, MaxTotal, MaxPending,  \* RunLimits
    MaxRetries, MaxReconciles,                          \* per node
    Timeout, LeaseLen, Backoff, WaitTime, RunDeadline,  \* durations, one instant
    Horizon, MaxEpoch, MaxCrashes                       \* bounds of the model

None == -1

InEdges(n)  == {e \in Edges : Target[e] = n}
OutEdges(n) == {e \in Edges : Source[e] = n}

ASSUME GraphAssumption ==
    /\ IsFiniteSet(Nodes) /\ IsFiniteSet(Workers)
    /\ Nodes # {} /\ Workers # {}
    /\ IsFiniteSet(Edges) /\ Edges \subseteq Nat
    /\ Source \in [Edges -> Nodes] /\ Target \in [Edges -> Nodes]
    /\ Entry \subseteq Nodes /\ \A e \in Edges : Target[e] \notin Entry
    /\ \A n \in Nodes \ Entry : InEdges(n) # {}
    /\ Mergers \subseteq Nodes \ Entry /\ Routers \subseteq Nodes \ (Entry \cup Mergers)
    /\ Outputs \subseteq Nodes \ Routers
    /\ Single \subseteq Outputs /\ Required \subseteq Outputs
    /\ WaitKinds \in [Nodes -> SUBSET {"response", "timer"}]

ASSUME LimitAssumption ==
    /\ MaxAttempts \in Nat \ {0} /\ MaxActivations \in Nat
    /\ MaxTotal \in Nat /\ MaxPending \in Nat
    /\ MaxRetries \in [Nodes -> Nat] /\ MaxReconciles \in [Nodes -> Nat]
    /\ Timeout \in [Nodes -> Nat \ {0}] /\ LeaseLen \in Nat \ {0}
    /\ Backoff \in Nat /\ WaitTime \in Nat \ {0} /\ RunDeadline \in Nat \ {0}
    /\ Horizon \in Nat /\ MaxEpoch \in Nat /\ MaxCrashes \in Nat

VARIABLES
    clock,      \* the time every caller reads
    run,        \* graph_runs: status, control_epoch, drain_epoch
    insts,      \* node_instances: the newest one of each node
    attempts,   \* node_attempts of that instance, in attempt_no order
    retries,    \* runtime_timers of kind 'retry' of that instance
    waits,      \* node_waits: the open one of that instance
    queues,     \* edge_queue_values not consumed: their enqueue_seq
    counters,   \* run_execution_counters
    produced,   \* the keys of run_output_values
    wakeups,    \* scheduler_wakeups that are pending or claimed
    workers,    \* where each worker's run_one stands, and what it holds
    crashes

rows == <<run, insts, attempts, retries, waits, queues, counters, produced, wakeups>>
vars == <<clock, rows, workers, crashes>>

Terminal  == {"completed", "failed", "cancelled"}
Halting   == {"interrupting", "interrupted"}
RunStatus == {"running", "waiting"} \cup Halting \cup Terminal
Active    == {"ready", "running", "waiting"}      \* of an instance
Held      == {"leased", "running"}                \* of an attempt
UnsettledNotHeld == {"queued", "waiting"}         \* mutant: held ones are forgotten
Unsettled == {"queued", "waiting"} \cup Held

(***************************************************************************)
(* Rows.  An attempt row is leased once at most (a retry is a new row), so *)
(* its lease_fence is 1 whenever it is read and is left out.  lease and    *)
(* deadline mean something while the row is held, and are 0 otherwise.     *)
(* timer is the row's 'attempt_deadline' timer.  The 'run_deadline' timer  *)
(* is pending exactly while the run is not terminal.                       *)
(***************************************************************************)
NewAttempt(kind, ordinal, epoch) ==
    [status |-> "queued", kind |-> kind, ordinal |-> ordinal, epoch |-> epoch,
     worker |-> None, lease |-> 0, deadline |-> 0, timer |-> FALSE]

Ended(attempt, status) ==
    [attempt EXCEPT !.status = status, !.worker = None,
                    !.lease = 0, !.deadline = 0, !.timer = FALSE]

NoWait == [kind |-> "none", due |-> 0, onTimeout |-> "fail", no |-> 0]

(***************************************************************************)
(* A wakeup row is named by its dedupe_key: the cause and the id the key   *)
(* is built from (an enqueue_seq, an activation and an attempt number, or  *)
(* the epoch of a control command).  No key is issued twice, so a row that *)
(* is done need not be remembered.  The node of a settle_run key only      *)
(* names its cause.  available_at and created_at are one value, at.        *)
(***************************************************************************)
Key(kind, node, cause, ref, no) ==
    [kind |-> kind, node |-> node, cause |-> cause, ref |-> ref, no |-> no]

EdgeReady(n, seq)       == Key("node_maybe_ready", n, "edge-ready", seq, 0)
Recheck(n, seq)         == Key("node_maybe_ready", n, "recheck", seq, 0)
AttemptReady(n, seq, i) == Key("attempt_ready", n, "attempt-ready", seq, i)
Restored(n, epoch)      == Key("attempt_ready", n, "resume", epoch, 0)
WaitResume(n, seq, i)   == Key("attempt_ready", n, "wait-resume", seq, i)
WaitTimeout(n, seq, i)  == Key("attempt_ready", n, "wait-timeout", seq, i)
SettleDone(n, seq)      == Key("settle_run", n, "settle", seq, 0)
SettleWait(n, seq, i)   == Key("settle_run", n, "settle-wait", seq, i)
SettleResumed(epoch)    == Key("settle_run", CHOOSE n \in Nodes : TRUE, "resume-settle", epoch, 0)
SettleAfterAsSettle(key) == [key EXCEPT !.kind = "settle"]   \* mutant: an unknown kind
SettleAfter(key)        == [key EXCEPT !.kind = "settle_run"]
NoKey                   == Key("none", CHOOSE n \in Nodes : TRUE, "none", 0, 0)

Enqueue(W, key, now) ==
    IF \E x \in W : x.key = key THEN W
    ELSE W \cup {[key |-> key, status |-> "pending", at |-> now, lease |-> 0]}

Finish(W, key) == {x \in W : x.key # key}

\* resets an expired claim; the row keeps its place in time
Unclaim(W, now) ==
    {IF x.status = "claimed" /\ x.lease <= now
       THEN [x EXCEPT !.status = "pending", !.lease = 0] ELSE x : x \in W}

Idle == [phase |-> "idle", now |-> 0, key |-> NoKey, seq |-> 0, no |-> 0, epoch |-> 0]

(***************************************************************************)
(* start_run: Input nodes have a queued first attempt and its wakeup.      *)
(***************************************************************************)
Init ==
    /\ clock = 0
    /\ run = [status |-> "running", epoch |-> 0, drain |-> None]
    /\ insts = [n \in Nodes |-> IF n \in Entry THEN [status |-> "ready", seq |-> 1]
                                               ELSE [status |-> "none", seq |-> 0]]
    /\ attempts = [n \in Nodes |-> IF n \in Entry THEN <<NewAttempt("start", 0, 0)>>
                                                  ELSE <<>>]
    /\ retries = [n \in Nodes |-> {}]
    /\ waits = [n \in Nodes |-> NoWait]
    /\ queues = [e \in Edges |-> <<>>]
    /\ counters = [enqueue |-> 1, total |-> 0, pending |-> 0, openWaits |-> 0,
                   activations |-> Cardinality(Entry), attempts |-> Cardinality(Entry)]
    /\ produced = {}
    /\ wakeups = {[key |-> AttemptReady(n, 1, 1), status |-> "pending", at |-> 0, lease |-> 0]
                    : n \in Entry}
    /\ workers = [w \in Workers |-> Idle]
    /\ crashes = 0

(***************************************************************************)
(* Shared parts of the transactions.                                       *)
(***************************************************************************)
IsRunning(A) == \E n \in Nodes : \E i \in DOMAIN A[n] : A[n][i].status = "running"  \* mutant
IsHeld(A) == \E n \in Nodes : \E i \in DOMAIN A[n] : A[n][i].status \in Held
HasStatus(I, S) == \E n \in Nodes : I[n].status \in S

\* settle_interrupt_after_attempt and both finish_interrupt_if_drained
\* mutant: the rows are read before the attempt is settled
DrainedBefore(A) ==
    IF run.status = "interrupting" /\ ~IsHeld(attempts)
      THEN [run EXCEPT !.status = "interrupted", !.drain = None] ELSE run
Drained(A) ==
    IF run.status = "interrupting" /\ ~IsHeld(A)
      THEN [run EXCEPT !.status = "interrupted", !.drain = None] ELSE run

\* 'waiting' -> 'running', as every event that makes an attempt ready does
Restarted == IF run.status = "waiting" THEN [run EXCEPT !.status = "running"] ELSE run

\* fail_run and apply_cancel: the run ends with a new epoch, everything open
\* is cancelled.  I, A and C are the rows the caller has already changed.
Closed(I) ==
    [n \in Nodes |-> IF I[n].status \in Active
                       THEN [I[n] EXCEPT !.status = "cancelled"] ELSE I[n]]
EndRun(status, I, A, C) ==
    /\ run' = [status |-> status, epoch |-> run.epoch + 1, drain |-> None]
    /\ insts' = Closed(I)
    /\ attempts' = [n \in Nodes |-> [i \in DOMAIN A[n] |->
                        IF A[n][i].status \in Unsettled
                          THEN Ended(A[n][i], "cancelled") ELSE A[n][i]]]
    /\ retries' = [n \in Nodes |-> {[r EXCEPT !.status = IF @ = "fired" THEN @ ELSE "cancelled"]
                                      : r \in retries[n]}]
    /\ waits' = [n \in Nodes |-> NoWait]
    /\ counters' = [C EXCEPT !.openWaits = 0]
    /\ wakeups' = {}

\* a node whose wait is over is ready again with one more attempt
Answered == [counters EXCEPT !.attempts = @ + 1, !.openWaits = @ - 1]
ResumeAttempt(n) ==
    /\ Len(attempts[n]) < MaxAttempts
    /\ insts' = [insts EXCEPT ![n].status = "ready"]
    /\ attempts' = [attempts EXCEPT ![n] =
                        Append(@, NewAttempt("resume", @[waits[n].no].ordinal, run.epoch))]
    /\ waits' = [waits EXCEPT ![n] = NoWait]
    /\ counters' = Answered
    /\ run' = Restarted

\* attempt i of n fails and another one takes its place
ReplacedAlive(n, i, next) == [attempts EXCEPT ![n] = Append(@, next)]   \* mutant: i stays held
Replaced(n, i, next) ==
    [attempts EXCEPT ![n] = Append([@ EXCEPT ![i] = Ended(attempts[n][i], "failed")], next)]

Goto(w, next) == workers' = [workers EXCEPT ![w] = next]
To(w, phase) == [workers[w] EXCEPT !.phase = phase]

(***************************************************************************)
(* run_one, step 1: process_due_timers fires the earliest due timer, or    *)
(* the earliest wait whose deadline passed; a timer goes first when both   *)
(* are due at one time, and two timers due at one time in either order.    *)
(***************************************************************************)
RunDuesUnlessHalted == IF run.status \in Terminal \cup Halting THEN {} ELSE {RunDeadline}  \* mutant
RunDues     == IF run.status \in Terminal THEN {} ELSE {RunDeadline}
AttemptDues == {attempts[p[1]][p[2]].deadline : p \in
                  {q \in Nodes \X (1..MaxAttempts) :
                     q[2] \in DOMAIN attempts[q[1]] /\ attempts[q[1]][q[2]].timer}}
RetryDues   == UNION {{r.due : r \in {s \in retries[n] : s.status = "pending"}} : n \in Nodes}
WaitDues    == {waits[n].due : n \in {m \in Nodes : waits[m].due # 0}}
TimerDues   == RunDues \cup AttemptDues \cup RetryDues

TimerFires(due) == due <= clock /\ (\A t \in TimerDues : due <= t) /\ (\A t \in WaitDues : due <= t)
WaitFires(due)  == due <= clock /\ (\A t \in TimerDues : due < t) /\ (\A t \in WaitDues : due <= t)

\* the worker reads the clock once, for the whole iteration
Begin(w) == /\ workers[w].phase = "idle"
            /\ Goto(w, [Idle EXCEPT !.phase = "recover", !.now = clock])

NoTimerDue(w) ==
    /\ Begin(w)
    /\ \A t \in TimerDues \cup WaitDues : clock < t
    /\ UNCHANGED <<clock, rows, crashes>>

FireRunDeadline(w) ==
    /\ Begin(w)
    /\ RunDeadline \in RunDues /\ TimerFires(RunDeadline)
    /\ EndRun("failed", insts, attempts, counters)
    /\ UNCHANGED <<clock, queues, produced, crashes>>

(***************************************************************************)
(* fire_attempt_deadline.  The retry ordinal goes on from a retry, and     *)
(* starts again at 0 from every other kind of attempt; the timer's key is  *)
(* retry:{instance}:{ordinal}, and a second row with that key is an error. *)
(***************************************************************************)
NextOrdinal(n, i) ==
    IF attempts[n][i].kind = "retry" THEN attempts[n][i].ordinal + 1 ELSE 0
MayRetry(n, i) == NextOrdinal(n, i) < MaxRetries[n] /\ i < MaxAttempts
TimedOut(n, i) == [attempts EXCEPT ![n][i] = Ended(@, "timed_out")]

DeadlineOf(n, i) ==
    /\ i \in DOMAIN attempts[n]
    /\ attempts[n][i].timer
    /\ TimerFires(attempts[n][i].deadline)
    /\ attempts[n][i].status \in Held

\* the wakeups the lapsed lease had claimed are spent
Unheld(n) == {x \in wakeups : ~(/\ x.key.kind = "attempt_ready" /\ x.key.node = n
                                /\ x.status = "claimed")}

\* mark_run_waiting_if_idle
CanIdle(I, W) == W = {} /\ ~HasStatus(I, {"ready", "running"})

FireAndRetry(w, n, i) ==
    /\ Begin(w)
    /\ DeadlineOf(n, i) /\ MayRetry(n, i)
    /\ \A r \in retries[n] : r.ordinal # NextOrdinal(n, i)
    /\ attempts' = TimedOut(n, i)
    /\ insts' = [insts EXCEPT ![n].status = "waiting"]
    /\ retries' = [retries EXCEPT ![n] = @ \cup
                     {[ordinal |-> NextOrdinal(n, i), no |-> i + 1,
                       due |-> clock + Backoff, status |-> "pending"]}]
    /\ wakeups' = Unheld(n)
    /\ run' = IF run.status = "running" /\ CanIdle(insts', wakeups')
                THEN [run EXCEPT !.status = "waiting"] ELSE Drained(attempts')
    /\ UNCHANGED <<clock, waits, queues, counters, produced, crashes>>

FireAndFail(w, n, i) ==
    /\ Begin(w)
    /\ DeadlineOf(n, i) /\ ~MayRetry(n, i)
    /\ EndRun("failed", [insts EXCEPT ![n].status = "failed"], TimedOut(n, i), counters)
    /\ UNCHANGED <<clock, queues, produced, crashes>>

\* fire_retry of an interrupted run: the timer is kept for the resume
ParkRetry(w, n, r) ==
    /\ Begin(w)
    /\ r \in retries[n] /\ r.status = "pending" /\ TimerFires(r.due)
    /\ run.status \in Halting
    /\ retries' = [retries EXCEPT ![n] = (@ \ {r}) \cup {[r EXCEPT !.status = "ready"]}]
    /\ UNCHANGED <<clock, run, insts, attempts, waits, queues, counters, produced, wakeups, crashes>>

FireRetry(w, n, r) ==
    /\ Begin(w)
    /\ r \in retries[n] /\ r.status = "pending" /\ TimerFires(r.due)
    /\ run.status \in {"running", "waiting"}
    /\ insts[n].status = "waiting"
    /\ retries' = [retries EXCEPT ![n] = (@ \ {r}) \cup {[r EXCEPT !.status = "fired"]}]
    /\ attempts' = [attempts EXCEPT ![n] = Append(@, NewAttempt("retry", r.ordinal, run.epoch))]
    /\ insts' = [insts EXCEPT ![n].status = "ready"]
    /\ counters' = [counters EXCEPT !.attempts = @ + 1]
    /\ run' = Restarted
    /\ wakeups' = Enqueue(wakeups, AttemptReady(n, insts[n].seq, r.no), clock)
    /\ UNCHANGED <<clock, waits, queues, produced, crashes>>

\* wait_deadline::fire, by the policy of the wait
WaitFails(w, n) ==
    /\ Begin(w)
    /\ waits[n].due # 0 /\ WaitFires(waits[n].due)
    /\ waits[n].onTimeout = "fail"
    /\ EndRun("failed", [insts EXCEPT ![n].status = "failed"],
              [attempts EXCEPT ![n][waits[n].no] = Ended(@, "timed_out")], counters)
    /\ UNCHANGED <<clock, queues, produced, crashes>>

WaitTimesOut(w, n) ==
    /\ Begin(w)
    /\ waits[n].due # 0 /\ WaitFires(waits[n].due)
    /\ waits[n].onTimeout = "resume_with_timeout"
    /\ ResumeAttempt(n)
    /\ wakeups' = IF run.status \in {"running", "waiting"}
                    THEN Enqueue(wakeups, WaitTimeout(n, insts[n].seq, waits[n].no), clock)
                    ELSE wakeups
    /\ UNCHANGED <<clock, retries, queues, produced, crashes>>

TimerStep(w) ==
    \/ NoTimerDue(w)
    \/ FireRunDeadline(w)
    \/ \E n \in Nodes : \E i \in 1..MaxAttempts : FireAndRetry(w, n, i) \/ FireAndFail(w, n, i)
    \/ \E n \in Nodes : \E r \in retries[n] : ParkRetry(w, n, r) \/ FireRetry(w, n, r)
    \/ \E n \in Nodes : WaitFails(w, n) \/ WaitTimesOut(w, n)

(***************************************************************************)
(* run_one, step 2: recover_expired_leases gives expired claims back and   *)
(* replaces one attempt whose lease ran out (the one that ran out first).  *)
(***************************************************************************)
Expired(n, i, now) ==
    /\ i \in DOMAIN attempts[n]
    /\ attempts[n][i].status \in Held
    /\ attempts[n][i].lease <= now
    /\ run.status \in {"running", "interrupting"}

FirstExpired(n, i, now) ==
    /\ Expired(n, i, now)
    /\ \A m \in Nodes : \A j \in 1..MaxAttempts :
          Expired(m, j, now) => attempts[n][i].lease <= attempts[m][j].lease

RecoverNothing(w) ==
    /\ workers[w].phase = "recover"
    /\ \A n \in Nodes : \A i \in 1..MaxAttempts : ~Expired(n, i, workers[w].now)
    /\ wakeups' = Unclaim(wakeups, workers[w].now)
    /\ Goto(w, To(w, "claim"))
    /\ UNCHANGED <<clock, run, insts, attempts, retries, waits, queues, counters, produced, crashes>>

RecoverExhausted(w, n, i) ==
    /\ workers[w].phase = "recover"
    /\ FirstExpired(n, i, workers[w].now)
    /\ i >= MaxAttempts
    /\ EndRun("failed", insts, attempts, counters)
    /\ Goto(w, To(w, "claim"))
    /\ UNCHANGED <<clock, queues, produced, crashes>>

RecoverAttempt(w, n, i) ==
    /\ workers[w].phase = "recover"
    /\ FirstExpired(n, i, workers[w].now)
    /\ i < MaxAttempts
    /\ attempts' = Replaced(n, i, NewAttempt("retry", attempts[n][i].ordinal + 1, run.epoch))
    /\ insts' = [insts EXCEPT ![n].status = "ready"]
    /\ counters' = [counters EXCEPT !.attempts = @ + 1]
    /\ wakeups' = Enqueue(Unclaim(wakeups, workers[w].now),
                          AttemptReady(n, insts[n].seq, i + 1), workers[w].now)
    /\ run' = Drained(attempts')
    /\ Goto(w, To(w, "claim"))
    /\ UNCHANGED <<clock, retries, waits, queues, produced, crashes>>

RecoverStep(w) ==
    \/ RecoverNothing(w)
    \/ \E n \in Nodes : \E i \in 1..MaxAttempts : RecoverExhausted(w, n, i) \/ RecoverAttempt(w, n, i)

(***************************************************************************)
(* run_one, step 3: claim_next_work takes the oldest pending wakeup of a   *)
(* running run and, for an attempt_ready wakeup, leases the first queued   *)
(* attempt of the node, whichever attempt the wakeup was made for.         *)
(***************************************************************************)
ClaimableAlways(x, now) == x.status = "pending" /\ x.at <= now   \* mutant: also of a halted run
Claimable(x, now) == run.status = "running" /\ x.status = "pending" /\ x.at <= now

Claim(w, x) ==
    /\ workers[w].phase = "claim"
    /\ x \in wakeups /\ Claimable(x, workers[w].now)
    /\ \A y \in wakeups : Claimable(y, workers[w].now) => x.at <= y.at

Claimed(w, x) == (wakeups \ {x}) \cup
                 {[x EXCEPT !.status = "claimed", !.lease = workers[w].now + LeaseLen]}

\* mutant: only the first attempt of an activation is ever leased
FirstOnly(n, i) ==
    insts[n].status = "ready" /\ i = 1 /\ i \in DOMAIN attempts[n] /\ attempts[n][i].status = "queued"
FirstQueued(n, i) ==
    /\ insts[n].status = "ready"
    /\ i \in DOMAIN attempts[n] /\ attempts[n][i].status = "queued"
    /\ \A j \in 1..(i - 1) : attempts[n][j].status # "queued"

Earlier(t, u) == IF t <= u THEN t ELSE u

ClaimNothing(w) ==
    /\ workers[w].phase = "claim"
    /\ \A x \in wakeups : ~Claimable(x, workers[w].now)
    /\ Goto(w, Idle)
    /\ UNCHANGED <<clock, rows, crashes>>

ClaimAttempt(w, x, i) ==
    LET n == x.key.node
        now == workers[w].now
        deadline == Earlier(now + Timeout[n], RunDeadline)
    IN  /\ Claim(w, x)
        /\ x.key.kind = "attempt_ready"
        /\ FirstQueued(n, i)
        /\ attempts' = [attempts EXCEPT ![n][i] =
              [@ EXCEPT !.status = "leased", !.epoch = run.epoch, !.worker = w, !.timer = TRUE,
                        !.lease = Earlier(now + LeaseLen, deadline), !.deadline = deadline]]
        /\ wakeups' = Claimed(w, x)
        /\ Goto(w, [phase |-> "mark", now |-> now, key |-> x.key,
                    seq |-> insts[n].seq, no |-> i, epoch |-> run.epoch])
        /\ UNCHANGED <<clock, run, insts, retries, waits, queues, counters, produced, crashes>>

ClaimNoop(w, x) ==
    /\ Claim(w, x)
    /\ x.key.kind = "attempt_ready"
    /\ \A i \in 1..MaxAttempts : ~FirstQueued(x.key.node, i)
    /\ wakeups' = Finish(wakeups, x.key)
    /\ Goto(w, Idle)
    /\ UNCHANGED <<clock, run, insts, attempts, retries, waits, queues, counters, produced, crashes>>

ClaimDispatch(w, x) ==
    /\ Claim(w, x)
    /\ x.key.kind # "attempt_ready"
    /\ wakeups' = Claimed(w, x)
    /\ Goto(w, [workers[w] EXCEPT !.key = x.key,
                  !.phase = IF x.key.kind = "settle_run" THEN "settle" ELSE "activate"])
    /\ UNCHANGED <<clock, run, insts, attempts, retries, waits, queues, counters, produced, crashes>>

ClaimStep(w) ==
    \/ ClaimNothing(w)
    \/ \E x \in wakeups : ClaimNoop(w, x) \/ ClaimDispatch(w, x)
    \/ \E x \in wakeups : \E i \in 1..MaxAttempts : ClaimAttempt(w, x, i)

(***************************************************************************)
(* run_one, step 4, of a leased attempt: mark_attempt_running, then the    *)
(* executor, which may take any time, then finalize_attempt.  A worker     *)
(* whose attempt is no longer its own gets an error and starts over.       *)
(***************************************************************************)
Node(w) == workers[w].key.node
Owns(w, status) ==
    LET n == Node(w) i == workers[w].no IN
    /\ insts[n].seq = workers[w].seq
    /\ i \in DOMAIN attempts[n]
    /\ attempts[n][i].status = status
    /\ attempts[n][i].worker = w
    /\ attempts[n][i].epoch = workers[w].epoch

MarkRunning(w) ==
    /\ workers[w].phase = "mark"
    /\ Owns(w, "leased") /\ insts[Node(w)].status = "ready"
    /\ attempts' = [attempts EXCEPT ![Node(w)][workers[w].no].status = "running"]
    /\ insts' = [insts EXCEPT ![Node(w)].status = "running"]
    /\ Goto(w, To(w, "execute"))
    /\ UNCHANGED <<clock, run, retries, waits, queues, counters, produced, wakeups, crashes>>

MarkRejected(w) ==
    /\ workers[w].phase = "mark"
    /\ ~(Owns(w, "leased") /\ insts[Node(w)].status = "ready")
    /\ Goto(w, Idle)
    /\ UNCHANGED <<clock, rows, crashes>>

\* validate_fence
AcceptsLate(w) == run.status \in {"running", "interrupting"}   \* mutant: no fence
Accepts(w) ==
    LET attempt == attempts[Node(w)][workers[w].no]
        now == workers[w].now
    IN  /\ Owns(w, "running")
        /\ \/ run.status = "running" /\ attempt.epoch = run.epoch
           \/ run.status = "interrupting" /\ attempt.epoch = run.drain
        /\ now < attempt.lease /\ now < attempt.deadline /\ now < RunDeadline

FinalizeRejected(w) ==
    /\ workers[w].phase = "execute"
    /\ ~Accepts(w)
    /\ Goto(w, Idle)
    /\ UNCHANGED <<clock, rows, crashes>>

Settling(w, status) ==
    [attempts EXCEPT ![Node(w)][workers[w].no] = Ended(@, status)]

Finalizes(w) ==
    /\ workers[w].phase = "execute"
    /\ Accepts(w)
    /\ Goto(w, Idle)
    /\ UNCHANGED <<clock, crashes>>

(***************************************************************************)
(* The orders in which a completed node may fill its edges: all of them,   *)
(* in edge order, but a Router selects some, in the order of its decision. *)
(***************************************************************************)
Emissions(n) ==
    {order \in UNION {[1..k -> OutEdges(n)] : k \in 0..Cardinality(OutEdges(n))} :
        /\ \A i, j \in DOMAIN order : i # j => order[i] # order[j]
        /\ n \in Routers => order # <<>>
        /\ n \notin Routers => /\ Len(order) = Cardinality(OutEdges(n))
                               /\ \A i, j \in DOMAIN order : i < j => order[i] < order[j]}

Filled(order) ==
    [e \in Edges |-> IF \E i \in DOMAIN order : order[i] = e
        THEN Append(queues[e], counters.enqueue + (CHOOSE i \in DOMAIN order : order[i] = e) - 1)
        ELSE queues[e]]

\* one wakeup for each target, named by the first value it receives
Alerts(order, now) ==
    {[key |-> EdgeReady(Target[order[i]], counters.enqueue + i - 1),
      status |-> "pending", at |-> now, lease |-> 0] : i \in
        {j \in DOMAIN order : \A h \in 1..(j - 1) : Target[order[h]] # Target[order[j]]}}

\* ensure_edge_capacity, and the single output check of commit_run_output
Deliverable(n, count) ==
    /\ count > 0 => /\ counters.total + count <= MaxTotal
                    /\ counters.pending + count <= MaxPending
    /\ n \in Single => n \notin produced

FinalizeCompleted(w, order) ==
    LET n == Node(w)
        now == workers[w].now
        seq == workers[w].seq
        rest == Finish(wakeups, workers[w].key) \cup Alerts(order, now)
    IN  /\ Finalizes(w)
        /\ Deliverable(n, Len(order))
        /\ attempts' = Settling(w, "completed")
        /\ insts' = [insts EXCEPT ![n].status = "completed"]
        /\ queues' = Filled(order)
        /\ counters' = [counters EXCEPT !.enqueue = @ + Len(order), !.total = @ + Len(order),
                                        !.pending = @ + Len(order)]
        /\ produced' = produced \cup ({n} \cap Outputs)
        /\ wakeups' = Enqueue(IF n \in Entry THEN rest ELSE Enqueue(rest, Recheck(n, seq), now),
                              SettleDone(n, seq), now)
        /\ run' = Drained(attempts')
        /\ UNCHANGED <<retries, waits>>

\* the executor failed, a contract does not hold, a limit is exceeded, or a
\* Router ran out of reconciles: fail_attempt, which fails the run
FinalizeFailed(w) ==
    /\ Finalizes(w)
    /\ EndRun("failed", [insts EXCEPT ![Node(w)].status = "failed"],
              Settling(w, "failed"), counters)
    /\ UNCHANGED <<queues, produced>>

\* finalize_wait, for a wait its contract admits
FinalizeWaiting(w, kind, due, onTimeout) ==
    LET n == Node(w) now == workers[w].now IN
    /\ Finalizes(w)
    /\ kind \in WaitKinds[n]
    /\ due # 0 => now < due /\ due <= RunDeadline
    /\ attempts' = Settling(w, "waiting")
    /\ insts' = [insts EXCEPT ![n].status = "waiting"]
    /\ waits' = [waits EXCEPT ![n] = [kind |-> kind, due |-> due, onTimeout |-> onTimeout,
                                      no |-> workers[w].no]]
    /\ counters' = [counters EXCEPT !.openWaits = @ + 1]
    /\ wakeups' = Enqueue(Finish(wakeups, workers[w].key),
                          SettleWait(n, workers[w].seq, workers[w].no), now)
    /\ run' = Drained(attempts')
    /\ UNCHANGED <<retries, queues, produced>>

\* reconcile_if_stale found the Router's reads overtaken: Requeued
FinalizeReconcile(w) ==
    LET n == Node(w) i == workers[w].no now == workers[w].now IN
    /\ Finalizes(w)
    /\ n \in Routers
    /\ Cardinality({j \in DOMAIN attempts[n] : attempts[n][j].kind = "reconcile"}) < MaxReconciles[n]
    /\ i < MaxAttempts
    /\ attempts' = Replaced(n, i, NewAttempt("reconcile", 0, workers[w].epoch))
    /\ insts' = [insts EXCEPT ![n].status = "ready"]
    /\ counters' = [counters EXCEPT !.attempts = @ + 1]
    /\ wakeups' = Enqueue(Finish(wakeups, workers[w].key),
                          AttemptReady(n, workers[w].seq, i + 1), now)
    /\ UNCHANGED <<run, retries, waits, queues, produced>>

ExecuteStep(w) ==
    \/ MarkRunning(w) \/ MarkRejected(w)
    \/ FinalizeRejected(w) \/ FinalizeFailed(w) \/ FinalizeReconcile(w)
    \/ \E order \in Emissions(Node(w)) : FinalizeCompleted(w, order)
    \/ \E kind \in WaitKinds[Node(w)], due \in {0, workers[w].now + WaitTime},
          onTimeout \in {"fail", "resume_with_timeout"} : FinalizeWaiting(w, kind, due, onTimeout)

(***************************************************************************)
(* run_one, step 4, of a node_maybe_ready wakeup: activate_if_ready.       *)
(* A Merge node takes the oldest head, every other node one head of each   *)
(* of its edges.                                                           *)
(***************************************************************************)
HeadsOfAny(n) == {e \in InEdges(n) : queues[e] # <<>>}       \* mutant: whatever is there
Heads(n) ==
    IF n \in Mergers
      THEN {e \in InEdges(n) : /\ queues[e] # <<>>
                               /\ \A d \in InEdges(n) : queues[d] # <<>>
                                                          => Head(queues[e]) <= Head(queues[d])}
      ELSE IF \A e \in InEdges(n) : queues[e] # <<>> THEN InEdges(n) ELSE {}

Fireable(n) == Heads(n) # {}
LimitsExceeded == \/ counters.activations + 1 > MaxActivations
                  \/ counters.attempts + 1 > MaxActivations * MaxAttempts

Activating(w) ==
    /\ workers[w].phase = "activate"
    /\ Goto(w, Idle)
    /\ UNCHANGED <<clock, produced, crashes>>
HoldsKey(w) == \E x \in wakeups : x.key = workers[w].key /\ x.status = "claimed"

ActivateSkipped(w) ==
    /\ Activating(w)
    /\ ~HoldsKey(w)
    /\ UNCHANGED <<run, insts, attempts, retries, waits, queues, counters, wakeups>>

\* the run is not running any more, or the node is busy: the wakeup is spent
ActivateDropped(w) ==
    /\ Activating(w)
    /\ HoldsKey(w)
    /\ run.status # "running" \/ insts[Node(w)].status \in Active
    /\ wakeups' = Finish(wakeups, workers[w].key)
    /\ UNCHANGED <<run, insts, attempts, retries, waits, queues, counters>>

Activatable(w) ==
    /\ HoldsKey(w)
    /\ run.status = "running"
    /\ insts[Node(w)].status \notin Active

ActivateNotReadySilently(w) ==                        \* mutant: no settlement follows
    /\ Activating(w)
    /\ Activatable(w) /\ ~Fireable(Node(w))
    /\ wakeups' = Finish(wakeups, workers[w].key)
    /\ UNCHANGED <<run, insts, attempts, retries, waits, queues, counters>>

ActivateNotReady(w) ==
    /\ Activating(w)
    /\ Activatable(w) /\ ~Fireable(Node(w))
    /\ wakeups' = Enqueue(Finish(wakeups, workers[w].key), SettleAfter(workers[w].key),
                          workers[w].now)
    /\ UNCHANGED <<run, insts, attempts, retries, waits, queues, counters>>

ActivateOverLimit(w) ==
    /\ Activating(w)
    /\ Activatable(w) /\ Fireable(Node(w)) /\ LimitsExceeded
    /\ EndRun("failed", insts, attempts, counters)
    /\ UNCHANGED queues

\* the heads leave their queues and the activation is counted
Taken(n) == [e \in Edges |-> IF e \in Heads(n) THEN Tail(queues[e]) ELSE queues[e]]
ConsumedFromAll(n) ==                                 \* mutant: one value per edge is counted
    [counters EXCEPT !.activations = @ + 1, !.attempts = @ + 1,
                     !.pending = @ - Cardinality(InEdges(n))]
Consumed(n) ==
    [counters EXCEPT !.activations = @ + 1, !.attempts = @ + 1,
                     !.pending = @ - Cardinality(Heads(n))]
Consumes(w) ==
    /\ Activating(w)
    /\ Activatable(w) /\ Fireable(Node(w)) /\ ~LimitsExceeded
    /\ queues' = Taken(Node(w))

ActivateReady(w) ==
    LET n == Node(w) seq == insts[n].seq + 1 IN
    /\ Consumes(w)
    /\ insts' = [insts EXCEPT ![n] = [status |-> "ready", seq |-> seq]]
    /\ attempts' = [attempts EXCEPT ![n] = <<NewAttempt("start", 0, run.epoch)>>]
    /\ retries' = [retries EXCEPT ![n] = {}]
    /\ counters' = Consumed(n)
    /\ wakeups' = Enqueue(Finish(wakeups, workers[w].key), AttemptReady(n, seq, 1), workers[w].now)
    /\ UNCHANGED <<run, waits>>

\* the input does not satisfy its selector or schema, or a required read did
\* not resolve: fail_input_activation, on whose rows nothing ever acts again
ActivateInvalid(w) ==
    LET n == Node(w) IN
    /\ Consumes(w)
    /\ EndRun("failed",
              [insts EXCEPT ![n] = [status |-> "failed", seq |-> @.seq + 1]],
              [attempts EXCEPT ![n] = <<Ended(NewAttempt("start", 0, run.epoch), "failed")>>],
              Consumed(n))

ActivateStep(w) ==
    \/ ActivateSkipped(w) \/ ActivateDropped(w) \/ ActivateNotReady(w)
    \/ ActivateOverLimit(w) \/ ActivateReady(w) \/ ActivateInvalid(w)

(***************************************************************************)
(* run_one, step 4, of a settle_run wakeup.                                *)
(***************************************************************************)
Settles(w) ==
    /\ workers[w].phase = "settle"
    /\ Goto(w, Idle)
    /\ UNCHANGED <<clock, queues, produced, crashes>>
Others(w) == Finish(wakeups, workers[w].key)

SettleLate(w) ==
    /\ Settles(w)
    /\ run.status = "running" /\ workers[w].now >= RunDeadline
    /\ EndRun("failed", insts, attempts, counters)

OnTime(w) == run.status = "running" /\ workers[w].now < RunDeadline
MustWaitAnyway(w) == /\ \E n \in Nodes : waits[n].kind # "none"      \* mutant
                     /\ ~HasStatus(insts, {"ready", "running"})
MustWait(w) == /\ \E n \in Nodes : waits[n].kind # "none"
               /\ ~HasStatus(insts, {"ready", "running"}) /\ Others(w) = {}
BusyNodesOnly(w) == HasStatus(insts, Active)          \* mutant: wakeups are ignored
Busy(w) == HasStatus(insts, Active) \/ Others(w) # {}

SettleWaiting(w) ==
    /\ Settles(w)
    /\ OnTime(w) /\ MustWait(w)
    /\ run' = [run EXCEPT !.status = "waiting"]
    /\ wakeups' = Others(w)
    /\ UNCHANGED <<insts, attempts, retries, waits, counters>>

\* not the last one, or the run is not running: only the wakeup is spent
SettleBusy(w) ==
    /\ Settles(w)
    /\ run.status = "running" => OnTime(w) /\ ~MustWait(w) /\ Busy(w)
    /\ wakeups' = Others(w)
    /\ UNCHANGED <<run, insts, attempts, retries, waits, counters>>

Finished(w) == OnTime(w) /\ ~Busy(w)

SettleMissing(w) ==
    /\ Settles(w)
    /\ Finished(w) /\ ~(Required \subseteq produced)
    /\ EndRun("failed", insts, attempts, counters)

SettleCompleted(w) ==
    /\ Settles(w)
    /\ Finished(w) /\ Required \subseteq produced
    /\ run' = [run EXCEPT !.status = "completed"]
    /\ retries' = [n \in Nodes |-> {[r EXCEPT !.status = IF @ = "fired" THEN @ ELSE "cancelled"]
                                      : r \in retries[n]}]
    /\ attempts' = [n \in Nodes |-> [i \in DOMAIN attempts[n] |->
                                      [attempts[n][i] EXCEPT !.timer = FALSE]]]
    /\ wakeups' = Others(w)
    /\ UNCHANGED <<insts, waits, counters>>

SettleStep(w) ==
    \/ SettleLate(w) \/ SettleWaiting(w) \/ SettleBusy(w)
    \/ SettleMissing(w) \/ SettleCompleted(w)

(***************************************************************************)
(* The API: run controls, which carry the epoch they read, and responses.  *)
(***************************************************************************)
Controls(nextStatus, drain) ==
    /\ run.epoch < MaxEpoch
    /\ run' = [status |-> nextStatus, epoch |-> run.epoch + 1, drain |-> drain]
    /\ UNCHANGED <<clock, insts, attempts, waits, queues, counters, produced, workers, crashes>>

Interrupt ==
    /\ run.status \in {"running", "waiting"}
    /\ IF IsHeld(attempts) THEN Controls("interrupting", run.epoch)
                           ELSE Controls("interrupted", None)
    /\ UNCHANGED <<retries, wakeups>>

\* restore_wakeups: one for each queued attempt; parked retries are due now
QueuedNodes == {n \in Nodes : \E i \in DOMAIN attempts[n] : attempts[n][i].status = "queued"}

Resume ==
    LET keys == {Restored(n, run.epoch + 1) : n \in QueuedNodes} \cup {SettleResumed(run.epoch + 1)}
    IN  /\ run.status = "interrupted"
        /\ Controls("running", None)
        /\ retries' = [n \in Nodes |-> {IF r.status = "ready" THEN [r EXCEPT !.status = "pending", !.due = clock]
                                        ELSE r : r \in retries[n]}]
        /\ wakeups' = wakeups \cup
             {[key |-> k, status |-> "pending", at |-> clock, lease |-> 0] : k \in keys}

Cancel ==
    /\ run.status \notin Terminal
    /\ run.epoch < MaxEpoch
    /\ EndRun("cancelled", insts, attempts, counters)
    /\ UNCHANGED <<clock, queues, produced, workers, crashes>>

\* submit_wait_response with a value: settle_generic_response
SubmitResponse(n) ==
    /\ waits[n].kind = "response"
    /\ insts[n].status = "waiting"
    /\ ResumeAttempt(n)
    /\ wakeups' = IF run.status \in {"running", "waiting"}
                    THEN Enqueue(wakeups, WaitResume(n, insts[n].seq, Len(attempts[n]) + 1), clock)
                    ELSE wakeups
    /\ UNCHANGED <<clock, retries, queues, produced, workers, crashes>>

(***************************************************************************)
(* The worker process dies between two transactions and starts again.      *)
(***************************************************************************)
Crash(w) ==
    /\ workers[w].phase # "idle"
    /\ crashes < MaxCrashes
    /\ crashes' = crashes + 1
    /\ Goto(w, Idle)
    /\ UNCHANGED <<clock, rows>>

Tick ==
    /\ clock < Horizon
    /\ clock' = clock + 1
    /\ UNCHANGED <<rows, workers, crashes>>

WorkerStep(w) ==
    \/ TimerStep(w) \/ RecoverStep(w) \/ ClaimStep(w)
    \/ ExecuteStep(w) \/ ActivateStep(w) \/ SettleStep(w)

Next ==
    \/ \E w \in Workers : WorkerStep(w) \/ Crash(w)
    \/ Interrupt \/ Resume \/ Cancel
    \/ \E n \in Nodes : SubmitResponse(n)
    \/ Tick

Spec == Init /\ [][Next]_vars

\* the loop of main.rs never stops and an executor returns; time passes
FairSpec == Spec /\ WF_vars(Tick) /\ \A w \in Workers : WF_vars(WorkerStep(w))

-------------------------------------------------------------------------------
(***************************************************************************)
(* Types                                                                   *)
(***************************************************************************)
Keys == [kind : {"none", "node_maybe_ready", "attempt_ready", "settle_run"}, node : Nodes,
         cause : {"none", "edge-ready", "recheck", "attempt-ready", "resume", "wait-resume",
                  "wait-timeout", "settle", "settle-wait", "resume-settle"},
         ref : Nat, no : Nat]
WakeupRows == [key : Keys, status : {"pending", "claimed"}, at : Nat, lease : Nat]
RunRows == [status : RunStatus, epoch : Nat, drain : Nat \cup {None}]
InstRows == [status : Active \cup {"none", "completed", "failed", "cancelled"}, seq : Nat]
AttemptRows ==
    [status : Unsettled \cup {"completed", "failed", "timed_out", "cancelled"},
     kind : {"start", "retry", "reconcile", "resume"}, ordinal : Nat, epoch : Nat,
     worker : Workers \cup {None}, lease : Nat, deadline : Nat, timer : BOOLEAN]
RetryRows == [ordinal : Nat, no : Nat, due : Nat,
              status : {"pending", "ready", "fired", "cancelled"}]
WaitRows == [kind : {"none", "response", "timer"}, due : Nat,
             onTimeout : {"fail", "resume_with_timeout"}, no : Nat]
CounterRows == [enqueue : Nat, total : Nat, pending : Int, openWaits : Int,
                activations : Nat, attempts : Nat]
WorkerStates == [phase : {"idle", "recover", "claim", "mark", "execute", "activate", "settle"},
                 now : Nat, key : Keys, seq : Nat, no : Nat, epoch : Nat]

\* Every variable keeps its type.
TypeOK ==
    /\ clock \in Nat /\ crashes \in Nat
    /\ run \in RunRows
    /\ insts \in [Nodes -> InstRows]
    /\ attempts \in [Nodes -> Seq(AttemptRows)]
    /\ retries \in [Nodes -> SUBSET RetryRows]
    /\ waits \in [Nodes -> WaitRows]
    /\ queues \in [Edges -> Seq(Nat)]
    /\ counters \in CounterRows
    /\ produced \subseteq Outputs
    /\ wakeups \subseteq WakeupRows
    /\ workers \in [Workers -> WorkerStates]

(***************************************************************************)
(* Safety                                                                  *)
(***************************************************************************)
\* The counters of the run agree with the rows they summarise, which
\* validate_projection of a checkpoint demands after every iteration.
CountersMatchProjection ==
    /\ counters.pending = Cardinality(UNION {{e} \X DOMAIN queues[e] : e \in Edges})
    /\ counters.openWaits = Cardinality({n \in Nodes : waits[n].kind # "none"})

\* An activation has one owner at a time: a ready one has exactly one attempt
\* to run, its last, a running one exactly one attempt running, a waiting one
\* exactly one thing that will end the wait, and a finished one nothing.
Live(A)    == {i \in DOMAIN A : A[i].status \in {"queued"} \cup Held}
Pledges(R) == {r \in R : r.status \in {"pending", "ready"}}
Owned(status, A, R, wait) ==
    /\ Live(A) \subseteq {Len(A)}
    /\ status = "ready" <=> \E i \in Live(A) : A[i].status # "running"
    /\ status = "running" <=> \E i \in Live(A) : A[i].status = "running"
    /\ status = "waiting" <=> wait.kind # "none" \/ Pledges(R) # {}
    /\ wait # NoWait => wait.kind # "none" /\ wait.no \in DOMAIN A /\ A[wait.no].status = "waiting"
    /\ Pledges(R) # {} => wait.kind = "none" /\ \E r \in R : Pledges(R) = {r}
    /\ \A i \in DOMAIN A : A[i].timer <=> A[i].status \in Held
OneOwner == \A n \in Nodes : Owned(insts[n].status, attempts[n], retries[n], waits[n])

\* No attempt works under an authority that was withdrawn: a held attempt
\* belongs to the current epoch, or to the one being drained.
HeldIsFenced ==
    \A n \in Nodes : \A i \in DOMAIN attempts[n] :
      attempts[n][i].status \in Held =>
        \/ run.status = "running" /\ attempts[n][i].epoch = run.epoch
        \/ run.status = "interrupting" /\ attempts[n][i].epoch = run.drain

\* Nothing of an ended run is open: what could still act on it is gone.
EndedIsClosed == run.status \in Terminal => ~HasStatus(insts, Active)

\* 'waiting' promises that nothing can run and something will wake the run.
WaitingIsQuiescent ==
    run.status = "waiting" =>
      /\ wakeups = {}
      /\ ~HasStatus(insts, {"ready", "running"})
      /\ \E n \in Nodes : waits[n].kind # "none" \/ Pledges(retries[n]) # {}

\* What the rows of a run say of each other is true.
ProjectionIsSound == CountersMatchProjection /\ WaitingIsQuiescent

\* A queued attempt of a run that may schedule is never forgotten: a wakeup
\* for its node is pending or claimed.
NoLostAttempt ==
    run.status \in {"running", "waiting"} =>
      \A n \in Nodes : \A i \in DOMAIN attempts[n] :
        attempts[n][i].status = "queued" =>
          \E x \in wakeups : x.key.kind = "attempt_ready" /\ x.key.node = n

\* An idle node that can fire in a running run has a wakeup to do so.
NoLostWakeup ==
    run.status = "running" =>
      \A n \in Nodes : insts[n].status \notin Active /\ Fireable(n) =>
        \E x \in wakeups : x.key.kind = "node_maybe_ready" /\ x.key.node = n

\* A run completes only with all its work done: no node could still fire, and
\* every required output is there.
CompletedIsDrained ==
    run.status = "completed" =>
      /\ \A n \in Nodes \ Entry : ~Fireable(n)
      /\ Required \subseteq produced

\* A running run never stands still: an activation is at work, a retry is
\* pending, or a wakeup is left that schedules or settles it.
NoStalledRun ==
    run.status = "running" =>
      \/ wakeups # {}
      \/ HasStatus(insts, {"ready", "running"})
      \/ \E n \in Nodes : Pledges(retries[n]) # {}

\* No work is forgotten: neither a queued attempt, nor a node that can fire ...
NoLostWork == NoLostAttempt /\ NoLostWakeup
\* ... nor the run as a whole.
WorkGoesOn == NoLostWork /\ NoStalledRun

\* A run stays in 'interrupting' only while an attempt is still held.
InterruptingDrains == run.status = "interrupting" => IsHeld(attempts)

\* The inductive invariant from which the theorems of GraphRunProofs follow.
Inv == TypeOK /\ OneOwner /\ HeldIsFenced /\ EndedIsClosed

(***************************************************************************)
(* Steps                                                                   *)
(***************************************************************************)
\* After a run ended no late result, timer, response or recovery changes
\* anything of it; only spent wakeups go.
TerminalIsFinal ==
    [][run.status \in Terminal =>
         UNCHANGED <<run, insts, attempts, retries, waits, queues, counters, produced>>]_vars

\* A halted run starts no attempt and takes no input: nothing becomes held
\* and nothing leaves a queue.
HaltedStartsNothing ==
    [][run.status \in Halting =>
         \A n \in Nodes :
           /\ insts'[n].seq = insts[n].seq
           /\ \A i \in DOMAIN attempts[n] :
                attempts'[n][i].status = "leased" => attempts[n][i].status = "leased"]_vars

(***************************************************************************)
(* Implementation of the network                                           *)
(***************************************************************************)
Net == INSTANCE Dataflow WITH
    mode  <- IF run.status \in Terminal THEN "closed"
             ELSE IF run.status \in Halting THEN "halted" ELSE "open",
    busy  <- {n \in Nodes : insts[n].status \in Active},
    fired <- [n \in Nodes |-> insts[n].seq],
    queue <- queues,
    next  <- counters.enqueue

\* Whatever the scheduler, the controls and the crashes do, the author of the
\* graph sees a network whose activations happen exactly once.
ImplementsDataflow == Net!Spec

(***************************************************************************)
(* Liveness                                                                *)
(***************************************************************************)
\* Every run ends, by its deadline at the latest.
RunEnds == <>(run.status \in Terminal)
===============================================================================
