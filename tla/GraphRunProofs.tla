---------------------------- MODULE GraphRunProofs ----------------------------
(***************************************************************************)
(* The inductive invariant of GraphRun, and the theorems that follow from  *)
(* it, for every graph, number of workers and limit: every activation has  *)
(* one owner, held attempts are fenced, an ended run is closed and stays   *)
(* as it is, and a halted run starts nothing.  Types come first: what the  *)
(* shared parts of the transactions return, then one lemma for each part   *)
(* of the next-state relation.  The invariant builds on these, and the     *)
(* counters of a run (ProjectionIsSound) on the invariant: what a          *)
(* transaction adds to or subtracts from a counter is what it adds to or   *)
(* takes from the rows, because the node it acts on had no wait before,    *)
(* or exactly one.  Last, each transaction is a step of the data-flow       *)
(* network of the graph, or is not seen in it.                             *)
(***************************************************************************)
EXTENDS GraphRun, SequenceTheorems, FiniteSetTheorems, TLAPS

\* A function on 1..k is a sequence.
LEMMA FunIsSeq == ASSUME NEW S, NEW k \in Nat, NEW f \in [1..k -> S] PROVE f \in Seq(S)
BY SeqDef

-------------------------------------------------------------------------------
(***************************************************************************)
(* What the shared parts of the transactions return.                       *)
(***************************************************************************)
\* The keys of wakeups are keys.
LEMMA KeyTypes ==
  ASSUME NEW n \in Nodes, NEW a \in Nat, NEW b \in Nat
  PROVE  /\ EdgeReady(n, a) \in Keys /\ Recheck(n, a) \in Keys
         /\ AttemptReady(n, a, b) \in Keys /\ Restored(n, a) \in Keys
         /\ WaitResume(n, a, b) \in Keys /\ WaitTimeout(n, a, b) \in Keys
         /\ SettleDone(n, a) \in Keys /\ SettleWait(n, a, b) \in Keys
         /\ SettleResumed(a) \in Keys /\ NoKey \in Keys
         /\ \A key \in Keys : SettleAfter(key) \in Keys
<1>1. (CHOOSE m \in Nodes : TRUE) \in Nodes
  BY GraphAssumption
<1> QED
  BY <1>1 DEF Keys, Key, EdgeReady, Recheck, AttemptReady, Restored, WaitResume,
       WaitTimeout, SettleDone, SettleWait, SettleResumed, NoKey, SettleAfter

\* Wakeup rows are made, spent and given back as wakeup rows.
LEMMA WakeupTypes ==
  ASSUME NEW W \in SUBSET WakeupRows, NEW now \in Nat
  PROVE  /\ \A key \in Keys : Enqueue(W, key, now) \in SUBSET WakeupRows
         /\ \A key : Finish(W, key) \in SUBSET WakeupRows
         /\ Unclaim(W, now) \in SUBSET WakeupRows
<1>1. ASSUME NEW key \in Keys PROVE Enqueue(W, key, now) \in SUBSET WakeupRows
  BY DEF Enqueue, WakeupRows
<1>2. ASSUME NEW key PROVE Finish(W, key) \in SUBSET WakeupRows
  BY DEF Finish
<1>3. Unclaim(W, now) \in SUBSET WakeupRows
  <2>1. ASSUME NEW x \in WakeupRows
        PROVE  [x EXCEPT !.status = "pending", !.lease = 0] \in WakeupRows
    BY DEF WakeupRows
  <2> QED BY <2>1 DEF Unclaim
<1> QED BY <1>1, <1>2, <1>3

\* A new attempt and an ended one are attempt rows.
LEMMA AttemptTypes ==
  /\ \A kind \in {"start", "retry", "reconcile", "resume"}, ordinal \in Nat, epoch \in Nat :
        NewAttempt(kind, ordinal, epoch) \in AttemptRows
  /\ \A a \in AttemptRows, s \in {"waiting", "completed", "failed", "timed_out", "cancelled"} :
        Ended(a, s) \in AttemptRows
BY DEF NewAttempt, Ended, AttemptRows, Unsettled, Held, None

\* Replacing one row of one node.
LEMMA PutType ==
  ASSUME NEW S, NEW A \in [Nodes -> Seq(S)], NEW n \in Nodes, NEW i \in DOMAIN A[n], NEW x \in S
  PROVE  [A EXCEPT ![n][i] = x] \in [Nodes -> Seq(S)]
<1>1. A[n] \in Seq(S) /\ DOMAIN A[n] = 1..Len(A[n])
  BY LenProperties
<1>2. [A[n] EXCEPT ![i] = x] \in Seq(S)
  BY <1>1, ExceptSeq
<1> QED BY <1>2

\* One row is a sequence of rows.
LEMMA OneType == ASSUME NEW S, NEW x \in S PROVE <<x>> \in Seq(S)
OBVIOUS

\* Adding a row to one node.
LEMMA AddType ==
  ASSUME NEW S, NEW A \in [Nodes -> Seq(S)], NEW n \in Nodes, NEW x \in S
  PROVE  [A EXCEPT ![n] = Append(@, x)] \in [Nodes -> Seq(S)]
<1>1. A[n] \in Seq(S)
  OBVIOUS
<1> QED BY <1>1

\* Ending a row of one node and adding another.
LEMMA ReplaceType ==
  ASSUME NEW S, NEW A \in [Nodes -> Seq(S)], NEW n \in Nodes, NEW i \in DOMAIN A[n],
         NEW x \in S, NEW y \in S
  PROVE  [A EXCEPT ![n] = Append([@ EXCEPT ![i] = x], y)] \in [Nodes -> Seq(S)]
<1>1. A[n] \in Seq(S) /\ DOMAIN A[n] = 1..Len(A[n])
  BY LenProperties
<1>2. [A[n] EXCEPT ![i] = x] \in Seq(S)
  BY <1>1, ExceptSeq
<1>3. Append([A[n] EXCEPT ![i] = x], y) \in Seq(S)
  BY <1>2
<1> QED BY <1>3

\* Ending a run keeps the types of its rows.
LEMMA EndRunTypes ==
  ASSUME TypeOK,
         NEW status \in Terminal, NEW I \in [Nodes -> InstRows],
         NEW A \in [Nodes -> Seq(AttemptRows)], NEW C \in CounterRows,
         EndRun(status, I, A, C)
  PROVE  /\ run' \in RunRows
         /\ insts' \in [Nodes -> InstRows]
         /\ attempts' \in [Nodes -> Seq(AttemptRows)]
         /\ retries' \in [Nodes -> SUBSET RetryRows]
         /\ waits' \in [Nodes -> WaitRows]
         /\ counters' \in CounterRows
         /\ wakeups' \in SUBSET WakeupRows
<1>1. run' \in RunRows
  BY DEF EndRun, TypeOK, RunRows, RunStatus, Terminal, None
<1>2. insts' \in [Nodes -> InstRows]
  BY DEF EndRun, Closed, InstRows, Active
<1>3. attempts' \in [Nodes -> Seq(AttemptRows)]
  <2> DEFINE row(n, i) == IF A[n][i].status \in Unsettled
                            THEN Ended(A[n][i], "cancelled") ELSE A[n][i]
  <2>1. SUFFICES ASSUME NEW n \in Nodes
                 PROVE  [i \in DOMAIN A[n] |-> row(n, i)] \in Seq(AttemptRows)
    BY DEF EndRun
  <2>2. A[n] \in Seq(AttemptRows) /\ DOMAIN A[n] = 1..Len(A[n]) /\ Len(A[n]) \in Nat
    BY LenProperties
  <2>3. ASSUME NEW i \in DOMAIN A[n] PROVE row(n, i) \in AttemptRows
    <3>1. A[n][i] \in AttemptRows
      BY <2>2, ElementOfSeq
    <3> QED BY <3>1, AttemptTypes
  <2> HIDE DEF row
  <2>4. [i \in DOMAIN A[n] |-> row(n, i)] \in [1..Len(A[n]) -> AttemptRows]
    BY <2>2, <2>3
  <2> QED BY <2>2, <2>4, SeqDef
<1>4. retries' \in [Nodes -> SUBSET RetryRows]
  <2>1. ASSUME NEW r \in RetryRows
        PROVE  [r EXCEPT !.status = IF @ = "fired" THEN @ ELSE "cancelled"] \in RetryRows
    BY DEF RetryRows
  <2> QED BY <2>1 DEF EndRun, TypeOK
<1>5. waits' \in [Nodes -> WaitRows]
  BY DEF EndRun, NoWait, WaitRows
<1>6. counters' \in CounterRows
  <2>1. counters' = [C EXCEPT !.openWaits = 0]
    BY DEF EndRun
  <2> QED BY <2>1 DEF CounterRows
<1>7. wakeups' \in SUBSET WakeupRows
  BY DEF EndRun
<1> QED BY <1>1, <1>2, <1>3, <1>4, <1>5, <1>6, <1>7

\* A worker stays a worker.
LEMMA WorkerTypes ==
  ASSUME TypeOK, NEW w \in Workers
  PROVE  /\ \A next \in WorkerStates : Goto(w, next) => workers' \in [Workers -> WorkerStates]
         /\ \A phase \in {"claim", "execute"} : To(w, phase) \in WorkerStates
         /\ Idle \in WorkerStates
         /\ Begin(w) => workers' \in [Workers -> WorkerStates]
         /\ workers[w].now \in Nat /\ workers[w].key \in Keys /\ Node(w) \in Nodes
         /\ workers[w].seq \in Nat /\ workers[w].no \in Nat /\ workers[w].epoch \in Nat
<1>1. NoKey \in Keys
  BY KeyTypes, GraphAssumption
<1>2. Idle \in WorkerStates /\ [Idle EXCEPT !.phase = "recover", !.now = clock] \in WorkerStates
  BY <1>1 DEF Idle, WorkerStates, TypeOK
<1>3. workers[w] \in WorkerStates
  BY DEF TypeOK
<1>4. \A phase \in {"claim", "execute"} : To(w, phase) \in WorkerStates
  BY <1>3 DEF To, WorkerStates
<1>5. \A next \in WorkerStates : Goto(w, next) => workers' \in [Workers -> WorkerStates]
  BY DEF Goto, TypeOK
<1>6. workers[w].key \in Keys /\ workers[w].key.node \in Nodes
  BY <1>3 DEF WorkerStates, Keys
<1> QED BY <1>2, <1>3, <1>4, <1>5, <1>6 DEF Begin, WorkerStates, Node

\* The rows of a node have the types TypeOK gives them.
LEMMA RowTypes ==
  ASSUME TypeOK, NEW n \in Nodes
  PROVE  /\ insts[n] \in InstRows /\ insts[n].seq \in Nat
         /\ attempts[n] \in Seq(AttemptRows) /\ DOMAIN attempts[n] = 1..Len(attempts[n])
         /\ \A i \in DOMAIN attempts[n] :
               /\ attempts[n][i] \in AttemptRows /\ attempts[n][i].ordinal \in Nat
               /\ i \in Nat /\ i + 1 \in Nat
         /\ Len(attempts[n]) \in Nat
         /\ waits[n] \in WaitRows /\ waits[n].no \in Nat
<1>1. attempts[n] \in Seq(AttemptRows)
  BY DEF TypeOK
<1>2. DOMAIN attempts[n] = 1..Len(attempts[n]) /\ Len(attempts[n]) \in Nat
  BY <1>1, LenProperties
<1>3. \A i \in DOMAIN attempts[n] : attempts[n][i] \in AttemptRows
  BY <1>1, <1>2, ElementOfSeq
<1>4. \A i \in DOMAIN attempts[n] : attempts[n][i].ordinal \in Nat
  BY <1>3 DEF AttemptRows
<1> QED BY <1>1, <1>2, <1>3, <1>4 DEF TypeOK, InstRows, WaitRows

\* The run keeps its type when it restarts and when it has drained.
LEMMA RunTypes ==
  ASSUME TypeOK
  PROVE  /\ \A A : Drained(A) \in RunRows
         /\ Restarted \in RunRows
         /\ run.epoch \in Nat
BY DEF TypeOK, RunRows, RunStatus, Halting, Drained, Restarted

\* The counters are integers, and those that only grow are natural numbers.
LEMMA CounterTypes ==
  ASSUME TypeOK
  PROVE  /\ counters \in CounterRows
         /\ counters.attempts + 1 \in Nat /\ counters.activations + 1 \in Nat
         /\ counters.openWaits + 1 \in Int /\ counters.openWaits - 1 \in Int
         /\ counters.enqueue \in Nat /\ counters.total \in Nat /\ counters.pending \in Int
BY DEF TypeOK, CounterRows

\* A resumed node keeps the types of its rows.
LEMMA ResumeAttemptTypes ==
  ASSUME TypeOK, NEW n \in Nodes, waits[n].no \in DOMAIN attempts[n], ResumeAttempt(n)
  PROVE  /\ run' \in RunRows
         /\ insts' \in [Nodes -> InstRows]
         /\ attempts' \in [Nodes -> Seq(AttemptRows)]
         /\ waits' \in [Nodes -> WaitRows]
         /\ counters' \in CounterRows
<1>1. run' \in RunRows
  BY RunTypes DEF ResumeAttempt
<1>2. insts' \in [Nodes -> InstRows]
  BY DEF ResumeAttempt, TypeOK, InstRows, Active
<1>3. attempts' \in [Nodes -> Seq(AttemptRows)]
  <2>1. NewAttempt("resume", attempts[n][waits[n].no].ordinal, run.epoch) \in AttemptRows
    BY RowTypes, RunTypes, AttemptTypes
  <2> QED BY <2>1, AddType DEF ResumeAttempt, TypeOK
<1>4. waits' \in [Nodes -> WaitRows]
  BY DEF ResumeAttempt, TypeOK, NoWait, WaitRows
<1>5. counters' \in CounterRows
  <2>1. counters' = Answered /\ counters \in CounterRows
    BY DEF ResumeAttempt, TypeOK
  <2> QED BY <2>1, CounterTypes DEF Answered, CounterRows
<1> QED BY <1>1, <1>2, <1>3, <1>4, <1>5

-------------------------------------------------------------------------------
(***************************************************************************)
(* Types: one lemma for each part of the next-state relation.              *)
(***************************************************************************)
LEMMA TimerStepTypes ==
  ASSUME TypeOK, OneOwner, NEW w \in Workers, TimerStep(w)
  PROVE  TypeOK'
<1> USE DEF TypeOK
<1>1. CASE NoTimerDue(w)
  BY <1>1, WorkerTypes DEF NoTimerDue, rows
<1>2. CASE FireRunDeadline(w)
  <2>1. EndRun("failed", insts, attempts, counters)
    BY <1>2 DEF FireRunDeadline
  <2> QED BY <1>2, <2>1, EndRunTypes, WorkerTypes DEF FireRunDeadline, Terminal
<1>3. ASSUME NEW n \in Nodes, NEW i \in 1..MaxAttempts, FireAndRetry(w, n, i)
      PROVE  TypeOK'
  <2>1. i \in DOMAIN attempts[n]
    BY <1>3 DEF FireAndRetry, DeadlineOf
  <2>2. attempts' \in [Nodes -> Seq(AttemptRows)]
    <3>1. Ended(attempts[n][i], "timed_out") \in AttemptRows
      BY <2>1, RowTypes, AttemptTypes
    <3> QED BY <1>3, <2>1, <3>1, PutType DEF FireAndRetry, TimedOut
  <2>3. insts' \in [Nodes -> InstRows]
    BY <1>3 DEF FireAndRetry, InstRows, Active
  <2>4. retries' \in [Nodes -> SUBSET RetryRows]
    <3>1. NextOrdinal(n, i) \in Nat /\ i + 1 \in Nat /\ clock + Backoff \in Nat
      BY <2>1, RowTypes, LimitAssumption DEF NextOrdinal
    <3> QED BY <1>3, <3>1 DEF FireAndRetry, RetryRows
  <2>5. run' \in RunRows
    BY <1>3, RunTypes DEF FireAndRetry, RunRows, RunStatus
  <2>6. wakeups' \subseteq WakeupRows
    BY <1>3 DEF FireAndRetry, Unheld
  <2> QED BY <1>3, <2>2, <2>3, <2>4, <2>5, <2>6, WorkerTypes DEF FireAndRetry
<1>4. ASSUME NEW n \in Nodes, NEW i \in 1..MaxAttempts, FireAndFail(w, n, i)
      PROVE  TypeOK'
  <2>1. i \in DOMAIN attempts[n]
    BY <1>4 DEF FireAndFail, DeadlineOf
  <2>2. Ended(attempts[n][i], "timed_out") \in AttemptRows
    BY <2>1, RowTypes, AttemptTypes
  <2>3. TimedOut(n, i) \in [Nodes -> Seq(AttemptRows)]
    BY <2>1, <2>2, PutType DEF TimedOut
  <2>4. [insts EXCEPT ![n].status = "failed"] \in [Nodes -> InstRows]
    BY DEF InstRows
  <2>5. EndRun("failed", [insts EXCEPT ![n].status = "failed"], TimedOut(n, i), counters)
    BY <1>4 DEF FireAndFail
  <2> QED BY <1>4, <2>3, <2>4, <2>5, EndRunTypes, WorkerTypes DEF FireAndFail, Terminal
<1>5. ASSUME NEW n \in Nodes, NEW r \in retries[n], ParkRetry(w, n, r)
      PROVE  TypeOK'
  <2>1. [r EXCEPT !.status = "ready"] \in RetryRows
    <3>1. r \in RetryRows
      OBVIOUS
    <3> QED BY <3>1 DEF RetryRows
  <2>2. retries' = [retries EXCEPT ![n] = (@ \ {r}) \cup {[r EXCEPT !.status = "ready"]}]
    BY <1>5 DEF ParkRetry
  <2>3. retries' \in [Nodes -> SUBSET RetryRows]
    BY <2>1, <2>2
  <2> QED BY <1>5, <2>3, WorkerTypes DEF ParkRetry
<1>6. ASSUME NEW n \in Nodes, NEW r \in retries[n], FireRetry(w, n, r)
      PROVE  TypeOK'
  <2>1. r \in RetryRows /\ r.ordinal \in Nat /\ r.no \in Nat
    BY DEF RetryRows
  <2>2. retries' \in [Nodes -> SUBSET RetryRows]
    BY <1>6 DEF FireRetry, RetryRows
  <2>3. attempts' \in [Nodes -> Seq(AttemptRows)]
    BY <1>6, <2>1, RunTypes, AttemptTypes, AddType DEF FireRetry
  <2>4. insts' \in [Nodes -> InstRows]
    BY <1>6 DEF FireRetry, InstRows, Active
  <2>5. counters' \in CounterRows
    BY <1>6, CounterTypes DEF FireRetry, CounterRows
  <2>6. wakeups' \subseteq WakeupRows
    BY <1>6, <2>1, RowTypes, KeyTypes, WakeupTypes DEF FireRetry
  <2>7. run' \in RunRows
    BY <1>6, RunTypes DEF FireRetry
  <2> QED BY <1>6, <2>2, <2>3, <2>4, <2>5, <2>6, <2>7, WorkerTypes DEF FireRetry
<1>7. ASSUME NEW n \in Nodes, WaitFails(w, n)
      PROVE  TypeOK'
  <2> DEFINE A == [attempts EXCEPT ![n][waits[n].no] = Ended(@, "timed_out")]
  <2>1. waits[n].no \in DOMAIN attempts[n]
    BY <1>7 DEF WaitFails, OneOwner, Owned, NoWait
  <2>2. A \in [Nodes -> Seq(AttemptRows)]
    BY <2>1, RowTypes, AttemptTypes, PutType
  <2>3. [insts EXCEPT ![n].status = "failed"] \in [Nodes -> InstRows]
    BY DEF InstRows
  <2>4. EndRun("failed", [insts EXCEPT ![n].status = "failed"], A, counters)
    BY <1>7 DEF WaitFails
  <2> HIDE DEF A
  <2> QED BY <1>7, <2>2, <2>3, <2>4, EndRunTypes, WorkerTypes DEF WaitFails, Terminal
<1>8. ASSUME NEW n \in Nodes, WaitTimesOut(w, n)
      PROVE  TypeOK'
  <2>1. waits[n].no \in DOMAIN attempts[n]
    BY <1>8 DEF WaitTimesOut, OneOwner, Owned, NoWait
  <2>2. wakeups' \subseteq WakeupRows
    BY <1>8, RowTypes, KeyTypes, WakeupTypes DEF WaitTimesOut
  <2> QED BY <1>8, <2>1, <2>2, ResumeAttemptTypes, WorkerTypes DEF WaitTimesOut
<1> QED
  BY <1>1, <1>2, <1>3, <1>4, <1>5, <1>6, <1>7, <1>8 DEF TimerStep

\* Recovering leases keeps the types.
LEMMA RecoverStepTypes ==
  ASSUME TypeOK, NEW w \in Workers, RecoverStep(w)
  PROVE  TypeOK'
<1> USE DEF TypeOK
<1>1. CASE RecoverNothing(w)
  <2>1. wakeups' \subseteq WakeupRows
    BY <1>1, WakeupTypes, WorkerTypes DEF RecoverNothing
  <2> QED BY <1>1, <2>1, WorkerTypes DEF RecoverNothing
<1>2. ASSUME NEW n \in Nodes, NEW i \in 1..MaxAttempts, RecoverExhausted(w, n, i)
      PROVE  TypeOK'
  <2>1. EndRun("failed", insts, attempts, counters)
    BY <1>2 DEF RecoverExhausted
  <2> QED BY <1>2, <2>1, EndRunTypes, WorkerTypes DEF RecoverExhausted, Terminal
<1>3. ASSUME NEW n \in Nodes, NEW i \in 1..MaxAttempts, RecoverAttempt(w, n, i)
      PROVE  TypeOK'
  <2>1. i \in DOMAIN attempts[n] /\ i + 1 \in Nat
    BY <1>3 DEF RecoverAttempt, FirstExpired, Expired
  <2>2. attempts' \in [Nodes -> Seq(AttemptRows)]
    <3>1. Ended(attempts[n][i], "failed") \in AttemptRows
      BY <2>1, RowTypes, AttemptTypes
    <3>2. NewAttempt("retry", attempts[n][i].ordinal + 1, run.epoch) \in AttemptRows
      BY <2>1, RowTypes, RunTypes, AttemptTypes
    <3> QED BY <1>3, <2>1, <3>1, <3>2, ReplaceType DEF RecoverAttempt, Replaced
  <2>3. insts' \in [Nodes -> InstRows]
    BY <1>3 DEF RecoverAttempt, InstRows, Active
  <2>4. counters' \in CounterRows
    BY <1>3, CounterTypes DEF RecoverAttempt, CounterRows
  <2>5. wakeups' \subseteq WakeupRows
    BY <1>3, <2>1, RowTypes, KeyTypes, WakeupTypes, WorkerTypes DEF RecoverAttempt
  <2>6. run' \in RunRows
    BY <1>3, RunTypes DEF RecoverAttempt
  <2> QED BY <1>3, <2>2, <2>3, <2>4, <2>5, <2>6, WorkerTypes DEF RecoverAttempt
<1> QED BY <1>1, <1>2, <1>3 DEF RecoverStep

\* Claiming a wakeup, with or without leasing an attempt, keeps the types.
LEMMA ClaimStepTypes ==
  ASSUME TypeOK, NEW w \in Workers, ClaimStep(w)
  PROVE  TypeOK'
<1> USE DEF TypeOK
<1>1. ASSUME NEW x \in wakeups PROVE Claimed(w, x) \subseteq WakeupRows
  <2>1. x \in WakeupRows /\ workers[w].now + LeaseLen \in Nat
    BY WorkerTypes, LimitAssumption
  <2>2. [x EXCEPT !.status = "claimed", !.lease = workers[w].now + LeaseLen] \in WakeupRows
    BY <2>1 DEF WakeupRows
  <2> QED BY <2>2 DEF Claimed
<1>2. CASE ClaimNothing(w)
  BY <1>2, WorkerTypes DEF ClaimNothing, rows
<1>3. ASSUME NEW x \in wakeups, NEW i \in 1..MaxAttempts, ClaimAttempt(w, x, i)
      PROVE  TypeOK'
  <2> DEFINE n == x.key.node
             now == workers[w].now
             deadline == Earlier(now + Timeout[n], RunDeadline)
  <2>1. x.key \in Keys /\ n \in Nodes
    BY DEF WakeupRows, Keys
  <2>2. now \in Nat /\ deadline \in Nat /\ Earlier(now + LeaseLen, deadline) \in Nat
    <3>1. now \in Nat
      BY WorkerTypes
    <3>2. Timeout[n] \in Nat /\ RunDeadline \in Nat /\ LeaseLen \in Nat
      BY <2>1, LimitAssumption
    <3>3. now + Timeout[n] \in Nat /\ now + LeaseLen \in Nat
      <4> HIDE DEF now, n
      <4> QED BY <3>1, <3>2
    <3> HIDE DEF now, n
    <3>4. deadline \in Nat
      BY <3>2, <3>3 DEF Earlier
    <3> HIDE DEF deadline
    <3> QED BY <3>1, <3>3, <3>4 DEF Earlier
  <2>3. i \in DOMAIN attempts[n]
    BY <1>3 DEF ClaimAttempt, FirstQueued
  <2>4. attempts' \in [Nodes -> Seq(AttemptRows)]
    <3> DEFINE row == [attempts[n][i] EXCEPT
                         !.status = "leased", !.epoch = run.epoch, !.worker = w, !.timer = TRUE,
                         !.lease = Earlier(now + LeaseLen, deadline), !.deadline = deadline]
    <3> HIDE DEF deadline, now
    <3>1. attempts[n][i] \in AttemptRows
      BY <2>1, <2>3, RowTypes
    <3>2. row \in AttemptRows
      BY <2>2, <3>1, RunTypes DEF AttemptRows, Unsettled, Held
    <3>3. attempts' = [attempts EXCEPT ![n][i] = row]
      BY <1>3 DEF ClaimAttempt, deadline, now
    <3> HIDE DEF row, n
    <3> QED BY <2>1, <2>3, <3>2, <3>3, PutType
  <2>5. workers' \in [Workers -> WorkerStates]
    <3> DEFINE next == [phase |-> "mark", now |-> now, key |-> x.key,
                        seq |-> insts[n].seq, no |-> i, epoch |-> run.epoch]
    <3>1. next \in WorkerStates
      <4>1. insts[n].seq \in Nat /\ i \in Nat
        BY <2>1, RowTypes, LimitAssumption
      <4> QED BY <2>1, <2>2, <4>1, RunTypes DEF WorkerStates
    <3>2. Goto(w, next)
      BY <1>3 DEF ClaimAttempt
    <3> HIDE DEF next
    <3> QED BY <3>1, <3>2, WorkerTypes
  <2> QED BY <1>1, <1>3, <2>4, <2>5 DEF ClaimAttempt
<1>4. ASSUME NEW x \in wakeups, ClaimNoop(w, x)
      PROVE  TypeOK'
  BY <1>4, WakeupTypes, WorkerTypes DEF ClaimNoop
<1>5. ASSUME NEW x \in wakeups, ClaimDispatch(w, x)
      PROVE  TypeOK'
  <2>1. workers' \in [Workers -> WorkerStates]
    <3>1. x.key \in Keys /\ workers[w] \in WorkerStates
      BY DEF WakeupRows
    <3>2. \A phase \in {"settle", "activate"} :
            [workers[w] EXCEPT !.key = x.key, !.phase = phase] \in WorkerStates
      BY <3>1 DEF WorkerStates
    <3> QED BY <1>5, <3>2, WorkerTypes DEF ClaimDispatch
  <2> QED BY <1>1, <1>5, <2>1 DEF ClaimDispatch
<1> QED BY <1>2, <1>3, <1>4, <1>5 DEF ClaimStep

\* What a completed node emits: as many values as the order has edges.
LEMMA EmissionTypes ==
  ASSUME TypeOK, NEW n \in Nodes, NEW order \in Emissions(n), NEW now \in Nat
  PROVE  /\ Len(order) \in Nat
         /\ Filled(order) \in [Edges -> Seq(Nat)]
         /\ Alerts(order, now) \in SUBSET WakeupRows
<1>1. PICK k \in 0..Cardinality(OutEdges(n)) : order \in [1..k -> OutEdges(n)]
  BY DEF Emissions
<1>2. k \in Nat
  <2>1. Cardinality(OutEdges(n)) \in Nat
    BY GraphAssumption, FS_Subset, FS_CardinalityType DEF OutEdges
  <2> QED BY <2>1
<1>3. order \in Seq(OutEdges(n)) /\ DOMAIN order = 1..k
  BY <1>1, <1>2, SeqDef
<1>4. Len(order) \in Nat
  BY <1>3, LenProperties
<1>5. \A j \in DOMAIN order : counters.enqueue + j - 1 \in Nat
  BY <1>2, <1>3, CounterTypes
<1>6. Filled(order) \in [Edges -> Seq(Nat)]
  <2>1. SUFFICES ASSUME NEW e \in Edges, \E i \in DOMAIN order : order[i] = e
                 PROVE  Append(queues[e], counters.enqueue
                               + (CHOOSE i \in DOMAIN order : order[i] = e) - 1) \in Seq(Nat)
    BY DEF Filled, TypeOK
  <2>2. (CHOOSE i \in DOMAIN order : order[i] = e) \in DOMAIN order
    BY <2>1
  <2>3. counters.enqueue + (CHOOSE i \in DOMAIN order : order[i] = e) - 1 \in Nat
    BY <1>5, <2>2
  <2>4. queues[e] \in Seq(Nat)
    BY DEF TypeOK
  <2> QED BY <2>3, <2>4
<1>7. Alerts(order, now) \in SUBSET WakeupRows
  <2>1. SUFFICES ASSUME NEW i \in DOMAIN order
                 PROVE  [key |-> EdgeReady(Target[order[i]], counters.enqueue + i - 1),
                         status |-> "pending", at |-> now, lease |-> 0] \in WakeupRows
    BY DEF Alerts
  <2>2. Target[order[i]] \in Nodes
    BY <1>1, <1>3, GraphAssumption DEF OutEdges
  <2>3. EdgeReady(Target[order[i]], counters.enqueue + i - 1) \in Keys
    BY <1>5, <2>2, KeyTypes
  <2> QED BY <2>3 DEF WakeupRows
<1> QED BY <1>4, <1>6, <1>7

\* What an emission is: every edge of it once, and all of them unless the
\* node is a Router.
LEMMA EmissionFacts ==
  ASSUME NEW n \in Nodes, NEW order \in Emissions(n)
  PROVE  /\ Len(order) \in Nat /\ DOMAIN order = 1..Len(order)
         /\ \A i \in DOMAIN order : order[i] \in OutEdges(n)
         /\ \A i, j \in DOMAIN order : i # j => order[i] # order[j]
         /\ Len(order) <= Cardinality(OutEdges(n))
         /\ n \notin Routers => Len(order) = Cardinality(OutEdges(n))
<1>1. Cardinality(OutEdges(n)) \in Nat
  BY GraphAssumption, FS_Subset, FS_CardinalityType DEF OutEdges
<1>2. PICK k \in 0..Cardinality(OutEdges(n)) : order \in [1..k -> OutEdges(n)]
  BY DEF Emissions
<1>3. k \in Nat /\ k <= Cardinality(OutEdges(n))
  BY <1>1
<1>4. order \in Seq(OutEdges(n)) /\ DOMAIN order = 1..k
  BY <1>2, <1>3, SeqDef
<1>5. Len(order) = k
  BY <1>3, <1>4, LenProperties
<1> QED BY <1>2, <1>3, <1>4, <1>5 DEF Emissions

\* Each edge of the emission has received the value of its place in it, and
\* no other edge has received anything.
LEMMA FilledFacts ==
  ASSUME NEW n \in Nodes, NEW order \in Emissions(n)
  PROVE  /\ \A i \in DOMAIN order :
              Filled(order)[order[i]] = Append(queues[order[i]], counters.enqueue + i - 1)
         /\ \A e \in Edges : (\A i \in DOMAIN order : order[i] # e) => Filled(order)[e] = queues[e]
         /\ DOMAIN Filled(order) = Edges
<1>1. ASSUME NEW i \in DOMAIN order
      PROVE  Filled(order)[order[i]] = Append(queues[order[i]], counters.enqueue + i - 1)
  <2>1. order[i] \in Edges /\ \A j \in DOMAIN order : order[j] = order[i] => j = i
    BY EmissionFacts DEF OutEdges
  <2>2. (CHOOSE j \in DOMAIN order : order[j] = order[i]) = i
    BY <2>1
  <2> QED BY <2>1, <2>2 DEF Filled
<1> QED BY <1>1 DEF Filled

\* Starting and finalizing an attempt keeps the types.
LEMMA ExecuteStepTypes ==
  ASSUME TypeOK, NEW w \in Workers, ExecuteStep(w)
  PROVE  TypeOK'
<1> DEFINE n == Node(w)
           i == workers[w].no
<1>1. n \in Nodes /\ i \in Nat /\ workers[w].now \in Nat /\ workers[w].key \in Keys
      /\ workers[w].seq \in Nat /\ workers[w].epoch \in Nat
  BY WorkerTypes
<1>2. Owns(w, "leased") \/ Owns(w, "running") => i \in DOMAIN attempts[n]
  BY DEF Owns
<1>3. ASSUME Owns(w, "running"), NEW s \in {"waiting", "completed", "failed"}
      PROVE  Settling(w, s) \in [Nodes -> Seq(AttemptRows)]
  <2>1. Ended(attempts[n][i], s) \in AttemptRows
    BY <1>1, <1>2, <1>3, RowTypes, AttemptTypes
  <2> HIDE DEF n, i
  <2>2. [attempts EXCEPT ![n][i] = Ended(attempts[n][i], s)] \in [Nodes -> Seq(AttemptRows)]
    BY <1>1, <1>2, <1>3, <2>1, PutType DEF TypeOK
  <2> QED BY <2>2 DEF Settling, n, i
<1>4. Finalizes(w) => /\ Owns(w, "running") /\ workers' \in [Workers -> WorkerStates]
                      /\ clock' \in Nat /\ crashes' \in Nat
  BY WorkerTypes DEF Finalizes, Accepts, TypeOK
<1>5. CASE MarkRunning(w)
  <2>1. attempts' \in [Nodes -> Seq(AttemptRows)]
    <3>1. attempts[n][i] \in AttemptRows
      BY <1>1, <1>2, <1>5, RowTypes DEF MarkRunning
    <3>2. [attempts[n][i] EXCEPT !.status = "running"] \in AttemptRows
      BY <3>1 DEF AttemptRows, Unsettled, Held
    <3>3. attempts' = [attempts EXCEPT ![n][i] = [attempts[n][i] EXCEPT !.status = "running"]]
      BY <1>5 DEF MarkRunning
    <3>4. i \in DOMAIN attempts[n]
      BY <1>2, <1>5 DEF MarkRunning
    <3> HIDE DEF n, i
    <3> QED BY <1>1, <3>2, <3>3, <3>4, PutType DEF TypeOK
  <2>2. insts' \in [Nodes -> InstRows]
    BY <1>1, <1>5 DEF MarkRunning, InstRows, Active, TypeOK
  <2> QED BY <1>5, <2>1, <2>2, WorkerTypes DEF MarkRunning, TypeOK
<1>6. CASE MarkRejected(w) \/ FinalizeRejected(w)
  BY <1>6, WorkerTypes DEF MarkRejected, FinalizeRejected, rows, TypeOK
<1>7. CASE FinalizeFailed(w)
  <2>1. Settling(w, "failed") \in [Nodes -> Seq(AttemptRows)]
    BY <1>3, <1>4, <1>7 DEF FinalizeFailed
  <2>2. [insts EXCEPT ![n].status = "failed"] \in [Nodes -> InstRows]
    BY DEF InstRows, TypeOK
  <2>3. EndRun("failed", [insts EXCEPT ![n].status = "failed"], Settling(w, "failed"), counters)
    BY <1>7 DEF FinalizeFailed
  <2>4. counters \in CounterRows /\ "failed" \in Terminal
    BY DEF TypeOK, Terminal
  <2> HIDE DEF n
  <2> QED BY <1>4, <1>7, <2>1, <2>2, <2>3, <2>4, EndRunTypes DEF FinalizeFailed, TypeOK
<1>8. CASE FinalizeReconcile(w)
  <2>1. attempts' \in [Nodes -> Seq(AttemptRows)]
    <3>1. i \in DOMAIN attempts[n]
      BY <1>2, <1>4, <1>8 DEF FinalizeReconcile
    <3>2. Ended(attempts[n][i], "failed") \in AttemptRows
      BY <1>1, <3>1, RowTypes, AttemptTypes
    <3>3. NewAttempt("reconcile", 0, workers[w].epoch) \in AttemptRows
      BY <1>1, AttemptTypes
    <3>4. attempts' = Replaced(n, i, NewAttempt("reconcile", 0, workers[w].epoch))
      BY <1>8 DEF FinalizeReconcile
    <3> HIDE DEF n, i
    <3> QED BY <1>1, <3>1, <3>2, <3>3, <3>4, ReplaceType DEF Replaced, TypeOK
  <2>2. insts' \in [Nodes -> InstRows]
    BY <1>1, <1>8 DEF FinalizeReconcile, InstRows, Active, TypeOK
  <2>3. counters' \in CounterRows
    BY <1>8, CounterTypes DEF FinalizeReconcile, CounterRows
  <2>4. wakeups' \subseteq WakeupRows
    <3>1. AttemptReady(n, workers[w].seq, i + 1) \in Keys
      BY <1>1, KeyTypes
    <3> QED BY <1>1, <1>8, <3>1, WakeupTypes DEF FinalizeReconcile, TypeOK
  <2> QED BY <1>4, <1>8, <2>1, <2>2, <2>3, <2>4 DEF FinalizeReconcile, TypeOK
<1>9. ASSUME NEW order \in Emissions(n), FinalizeCompleted(w, order)
      PROVE  TypeOK'
  <2>1. attempts' \in [Nodes -> Seq(AttemptRows)]
    BY <1>3, <1>4, <1>9 DEF FinalizeCompleted
  <2>2. insts' \in [Nodes -> InstRows]
    BY <1>1, <1>9 DEF FinalizeCompleted, InstRows, TypeOK
  <2>3. queues' \in [Edges -> Seq(Nat)] /\ Len(order) \in Nat
    BY <1>1, <1>9, EmissionTypes DEF FinalizeCompleted
  <2>4. counters' \in CounterRows
    <3>1. /\ counters.enqueue + Len(order) \in Nat /\ counters.total + Len(order) \in Nat
          /\ counters.pending + Len(order) \in Int
      BY <2>3, CounterTypes
    <3> QED BY <1>9, <3>1, CounterTypes DEF FinalizeCompleted, CounterRows
  <2>5. produced' \subseteq Outputs
    BY <1>9 DEF FinalizeCompleted, TypeOK
  <2>6. wakeups' \subseteq WakeupRows
    <3> DEFINE rest == Finish(wakeups, workers[w].key) \cup Alerts(order, workers[w].now)
    <3>1. rest \in SUBSET WakeupRows
      BY <1>1, WakeupTypes, EmissionTypes DEF TypeOK
    <3>2. Recheck(n, workers[w].seq) \in Keys /\ SettleDone(n, workers[w].seq) \in Keys
      BY <1>1, KeyTypes
    <3>3. wakeups' = Enqueue(IF n \in Entry THEN rest
                             ELSE Enqueue(rest, Recheck(n, workers[w].seq), workers[w].now),
                             SettleDone(n, workers[w].seq), workers[w].now)
      BY <1>9 DEF FinalizeCompleted
    <3> HIDE DEF rest, n
    <3> QED BY <1>1, <3>1, <3>2, <3>3, WakeupTypes
  <2>7. run' \in RunRows
    BY <1>9, RunTypes DEF FinalizeCompleted
  <2> QED BY <1>4, <1>9, <2>1, <2>2, <2>3, <2>4, <2>5, <2>6, <2>7 DEF FinalizeCompleted, TypeOK
<1>10. ASSUME NEW kind \in WaitKinds[n], NEW due \in {0, workers[w].now + WaitTime},
              NEW onTimeout \in {"fail", "resume_with_timeout"},
              FinalizeWaiting(w, kind, due, onTimeout)
       PROVE  TypeOK'
  <2>1. attempts' \in [Nodes -> Seq(AttemptRows)]
    BY <1>3, <1>4, <1>10 DEF FinalizeWaiting
  <2>2. insts' \in [Nodes -> InstRows]
    BY <1>1, <1>10 DEF FinalizeWaiting, InstRows, Active, TypeOK
  <2>3. waits' \in [Nodes -> WaitRows]
    <3>1. kind \in {"response", "timer"} /\ due \in Nat
      BY <1>1, GraphAssumption, LimitAssumption
    <3>2. [kind |-> kind, due |-> due, onTimeout |-> onTimeout, no |-> i] \in WaitRows
      BY <1>1, <3>1 DEF WaitRows
    <3> QED BY <1>10, <3>2 DEF FinalizeWaiting, TypeOK
  <2>4. counters' \in CounterRows
    BY <1>10, CounterTypes DEF FinalizeWaiting, CounterRows
  <2>5. wakeups' \subseteq WakeupRows
    BY <1>1, <1>10, KeyTypes, WakeupTypes DEF FinalizeWaiting, TypeOK
  <2>6. run' \in RunRows
    BY <1>10, RunTypes DEF FinalizeWaiting
  <2> QED BY <1>4, <1>10, <2>1, <2>2, <2>3, <2>4, <2>5, <2>6 DEF FinalizeWaiting, TypeOK
<1> QED BY <1>5, <1>6, <1>7, <1>8, <1>9, <1>10 DEF ExecuteStep

\* The queues and the counters after a node took its inputs.
LEMMA ConsumeTypes ==
  ASSUME TypeOK, NEW n \in Nodes
  PROVE  /\ Taken(n) \in [Edges -> Seq(Nat)]
         /\ Consumed(n) \in CounterRows
<1>1. Heads(n) \subseteq Edges /\ \A e \in Heads(n) : queues[e] # <<>>
  BY DEF Heads, InEdges
<1>2. Taken(n) \in [Edges -> Seq(Nat)]
  <2>1. \A e \in Edges : queues[e] \in Seq(Nat)
    BY DEF TypeOK
  <2>2. \A e \in Heads(n) : Tail(queues[e]) \in Seq(Nat)
    BY <1>1, <2>1, HeadTailProperties
  <2> QED BY <2>1, <2>2 DEF Taken
<1>3. Consumed(n) \in CounterRows
  <2>1. Cardinality(Heads(n)) \in Nat
    BY <1>1, GraphAssumption, FS_Subset, FS_CardinalityType
  <2>2. counters.pending - Cardinality(Heads(n)) \in Int
    BY <2>1, CounterTypes
  <2> QED BY <2>2, CounterTypes DEF Consumed, CounterRows
<1> QED BY <1>2, <1>3

\* Activating a node keeps the types.
LEMMA ActivateStepTypes ==
  ASSUME TypeOK, NEW w \in Workers, ActivateStep(w)
  PROVE  TypeOK'
<1> DEFINE n == Node(w)
<1>1. n \in Nodes /\ workers[w].now \in Nat /\ workers[w].key \in Keys
  BY WorkerTypes
<1>2. Activating(w) => /\ workers' \in [Workers -> WorkerStates]
                       /\ clock' \in Nat /\ crashes' \in Nat /\ produced' \subseteq Outputs
  BY WorkerTypes DEF Activating, TypeOK
<1>3. CASE ActivateSkipped(w)
  BY <1>2, <1>3 DEF ActivateSkipped, TypeOK
<1>4. CASE ActivateDropped(w)
  BY <1>2, <1>4, WakeupTypes, WorkerTypes DEF ActivateDropped, TypeOK
<1>5. CASE ActivateNotReady(w)
  <2>1. wakeups' \subseteq WakeupRows
    BY <1>1, <1>5, KeyTypes, WakeupTypes DEF ActivateNotReady, TypeOK
  <2> QED BY <1>2, <1>5, <2>1 DEF ActivateNotReady, TypeOK
<1>6. CASE ActivateOverLimit(w)
  <2>1. EndRun("failed", insts, attempts, counters)
    BY <1>6 DEF ActivateOverLimit
  <2> QED BY <1>2, <1>6, <2>1, EndRunTypes DEF ActivateOverLimit, TypeOK, Terminal
<1>7. CASE ActivateReady(w)
  <2>1. NewAttempt("start", 0, run.epoch) \in AttemptRows
    BY RunTypes, AttemptTypes
  <2>2. attempts' \in [Nodes -> Seq(AttemptRows)]
    <3>1. <<NewAttempt("start", 0, run.epoch)>> \in Seq(AttemptRows)
      BY <2>1, OneType
    <3> QED BY <1>7, <3>1 DEF ActivateReady, TypeOK
  <2>3. insts[n].seq + 1 \in Nat
    BY <1>1, RowTypes
  <2>4. insts' \in [Nodes -> InstRows]
    BY <1>1, <1>7, <2>3 DEF ActivateReady, InstRows, Active, TypeOK
  <2>5. retries' \in [Nodes -> SUBSET RetryRows]
    BY <1>7 DEF ActivateReady, TypeOK
  <2>6. wakeups' \subseteq WakeupRows
    BY <1>1, <1>7, <2>3, KeyTypes, WakeupTypes DEF ActivateReady, TypeOK
  <2>7. queues' \in [Edges -> Seq(Nat)] /\ counters' \in CounterRows
    BY <1>1, <1>7, ConsumeTypes DEF ActivateReady, Consumes
  <2>8. Activating(w)
    BY <1>7 DEF ActivateReady, Consumes
  <2> QED BY <1>2, <1>7, <2>2, <2>4, <2>5, <2>6, <2>7, <2>8 DEF ActivateReady, TypeOK
<1>8. CASE ActivateInvalid(w)
  <2> DEFINE I == [insts EXCEPT ![n] = [status |-> "failed", seq |-> insts[n].seq + 1]]
             A == [attempts EXCEPT ![n] = <<Ended(NewAttempt("start", 0, run.epoch), "failed")>>]
  <2>1. I \in [Nodes -> InstRows]
    <3>1. [status |-> "failed", seq |-> insts[n].seq + 1] \in InstRows
      BY <1>1, RowTypes DEF InstRows
    <3> QED BY <3>1 DEF TypeOK
  <2>2. A \in [Nodes -> Seq(AttemptRows)]
    <3>1. Ended(NewAttempt("start", 0, run.epoch), "failed") \in AttemptRows
      BY RunTypes, AttemptTypes
    <3>2. <<Ended(NewAttempt("start", 0, run.epoch), "failed")>> \in Seq(AttemptRows)
      BY <3>1, OneType
    <3> QED BY <3>2 DEF TypeOK
  <2>3. EndRun("failed", I, A, Consumed(n))
    BY <1>8 DEF ActivateInvalid
  <2>4. queues' \in [Edges -> Seq(Nat)] /\ Consumed(n) \in CounterRows
    BY <1>1, <1>8, ConsumeTypes DEF ActivateInvalid, Consumes
  <2>5. Activating(w)
    BY <1>8 DEF ActivateInvalid, Consumes
  <2> HIDE DEF I, A, n
  <2> QED BY <1>2, <2>1, <2>2, <2>3, <2>4, <2>5, EndRunTypes DEF TypeOK, Terminal
<1> QED BY <1>3, <1>4, <1>5, <1>6, <1>7, <1>8 DEF ActivateStep

\* Settling the run keeps the types.
LEMMA SettleStepTypes ==
  ASSUME TypeOK, NEW w \in Workers, SettleStep(w)
  PROVE  TypeOK'
<1>1. Settles(w)
  BY DEF SettleStep, SettleLate, SettleWaiting, SettleBusy, SettleMissing, SettleCompleted
<1>2. /\ workers' \in [Workers -> WorkerStates] /\ queues' \in [Edges -> Seq(Nat)]
      /\ clock' \in Nat /\ crashes' \in Nat /\ produced' \subseteq Outputs
  BY <1>1, WorkerTypes DEF Settles, TypeOK
<1>3. Others(w) \subseteq WakeupRows
  BY WakeupTypes DEF Others, TypeOK
<1>4. CASE SettleLate(w) \/ SettleMissing(w)
  <2>1. EndRun("failed", insts, attempts, counters)
    BY <1>4 DEF SettleLate, SettleMissing
  <2> QED BY <1>2, <2>1, EndRunTypes DEF TypeOK, Terminal
<1>5. CASE SettleWaiting(w) \/ SettleBusy(w)
  BY <1>2, <1>3, <1>5 DEF SettleWaiting, SettleBusy, TypeOK, RunRows, RunStatus
<1>6. CASE SettleCompleted(w)
  <2>1. attempts' \in [Nodes -> Seq(AttemptRows)]
    <3> DEFINE row(n, i) == [attempts[n][i] EXCEPT !.timer = FALSE]
    <3>1. \A a \in AttemptRows : [a EXCEPT !.timer = FALSE] \in AttemptRows
      BY DEF AttemptRows
    <3>2. \A n \in Nodes : \A i \in DOMAIN attempts[n] : row(n, i) \in AttemptRows
      BY <3>1, RowTypes
    <3>3. attempts' = [n \in Nodes |-> [i \in DOMAIN attempts[n] |-> row(n, i)]]
      BY <1>6 DEF SettleCompleted
    <3> HIDE DEF row
    <3>4. ASSUME NEW n \in Nodes
          PROVE  [i \in DOMAIN attempts[n] |-> row(n, i)] \in Seq(AttemptRows)
      <4>1. [i \in DOMAIN attempts[n] |-> row(n, i)] \in [1..Len(attempts[n]) -> AttemptRows]
        BY <3>2, RowTypes
      <4>2. Len(attempts[n]) \in Nat
        BY RowTypes
      <4> QED BY <4>1, <4>2, FunIsSeq
    <3> QED BY <3>3, <3>4
  <2>2. retries' \in [Nodes -> SUBSET RetryRows]
    <3>1. ASSUME NEW r \in RetryRows
          PROVE  [r EXCEPT !.status = IF @ = "fired" THEN @ ELSE "cancelled"] \in RetryRows
      BY DEF RetryRows
    <3> QED BY <1>6, <3>1 DEF SettleCompleted, TypeOK
  <2>3. run' \in RunRows
    BY <1>6 DEF SettleCompleted, TypeOK, RunRows, RunStatus, Terminal
  <2> QED BY <1>2, <1>3, <1>6, <2>1, <2>2, <2>3 DEF SettleCompleted, TypeOK
<1> QED BY <1>4, <1>5, <1>6 DEF SettleStep

\* Controls, responses, crashes and the passing of time keep the types.
LEMMA ControlTypes ==
  ASSUME TypeOK, OneOwner,
         Interrupt \/ Resume \/ Cancel \/ \E n \in Nodes : SubmitResponse(n)
  PROVE  TypeOK'
<1>1. ASSUME NEW s \in RunStatus, NEW drain \in Nat \cup {None}, Controls(s, drain)
      PROVE  run' \in RunRows
  BY <1>1, RunTypes DEF Controls, RunRows
<1>2. CASE Interrupt
  <2>1. run' \in RunRows
    BY <1>1, <1>2, RunTypes DEF Interrupt, RunStatus, Halting
  <2> QED BY <1>2, <2>1 DEF Interrupt, Controls, TypeOK
<1>3. CASE Resume
  <2>1. run' \in RunRows
    BY <1>1, <1>3 DEF Resume, RunStatus
  <2>2. retries' \in [Nodes -> SUBSET RetryRows]
    <3>1. \A r \in RetryRows : [r EXCEPT !.status = "pending", !.due = clock] \in RetryRows
      BY DEF RetryRows, TypeOK
    <3> QED BY <1>3, <3>1 DEF Resume, TypeOK
  <2>3. wakeups' \subseteq WakeupRows
    <3>1. \A n \in Nodes : Restored(n, run.epoch + 1) \in Keys
      BY RunTypes, KeyTypes
    <3>2. SettleResumed(run.epoch + 1) \in Keys
      BY RunTypes, KeyTypes, GraphAssumption
    <3>3. \A key \in Keys : [key |-> key, status |-> "pending", at |-> clock, lease |-> 0]
                             \in WakeupRows
      BY DEF WakeupRows, TypeOK
    <3>4. \A n \in QueuedNodes : n \in Nodes
      BY DEF QueuedNodes
    <3> QED BY <1>3, <3>1, <3>2, <3>3, <3>4 DEF Resume, TypeOK
  <2> QED BY <1>3, <2>1, <2>2, <2>3 DEF Resume, Controls, TypeOK
<1>4. CASE Cancel
  <2>1. EndRun("cancelled", insts, attempts, counters)
    BY <1>4 DEF Cancel
  <2> QED BY <1>4, <2>1, EndRunTypes DEF Cancel, TypeOK, Terminal
<1>5. ASSUME NEW n \in Nodes, SubmitResponse(n)
      PROVE  TypeOK'
  <2>1. waits[n].no \in DOMAIN attempts[n] /\ ResumeAttempt(n)
    BY <1>5 DEF SubmitResponse, OneOwner, Owned, NoWait
  <2>2. wakeups' \subseteq WakeupRows
    <3>1. WaitResume(n, insts[n].seq, Len(attempts[n]) + 1) \in Keys
      BY RowTypes, KeyTypes
    <3> QED BY <1>5, <3>1, WakeupTypes DEF SubmitResponse, TypeOK
  <2> QED BY <1>5, <2>1, <2>2, ResumeAttemptTypes DEF SubmitResponse, TypeOK
<1> QED BY <1>2, <1>3, <1>4, <1>5

-------------------------------------------------------------------------------
(***************************************************************************)
(* The rows of one node: how each kind of change keeps them owned.         *)
(***************************************************************************)
\* Nothing of these attempts is left to run, and no deadline is armed.
Quiet(A) == \A i \in DOMAIN A : A[i].status \notin {"queued"} \cup Held /\ ~A[i].timer

\* A node that is neither ready nor running is quiet, and only a waiting one
\* has a wait or a retry to come.
LEMMA OwnedIsQuiet ==
  ASSUME NEW st, NEW A \in Seq(AttemptRows), NEW R, NEW wait, Owned(st, A, R, wait)
  PROVE  /\ st \notin {"ready", "running"} => Quiet(A)
         /\ st # "waiting" => wait = NoWait /\ Pledges(R) = {}
<1>1. ASSUME st \notin {"ready", "running"} PROVE Live(A) = {}
  BY <1>1 DEF Owned, Live
<1>2. ASSUME st \notin {"ready", "running"} PROVE Quiet(A)
  BY <1>1, <1>2 DEF Owned, Live, Quiet
<1> QED BY <1>2 DEF Owned

\* The live attempt of a node is its last, and the node is ready or running.
LEMMA OwnedLive ==
  ASSUME NEW st, NEW A \in Seq(AttemptRows), NEW R, NEW wait, Owned(st, A, R, wait),
         NEW i \in DOMAIN A, A[i].status \in {"queued"} \cup Held
  PROVE  /\ i = Len(A)
         /\ st = IF A[i].status = "running" THEN "running" ELSE "ready"
         /\ wait = NoWait /\ Pledges(R) = {}
<1>1. i \in Live(A)
  BY DEF Live
<1>2. i = Len(A) /\ st = IF A[i].status = "running" THEN "running" ELSE "ready"
  BY <1>1 DEF Owned
<1> QED BY <1>2 DEF Owned

\* Once its live attempt is settled, a node is quiet.
LEMMA SettledIsQuiet ==
  ASSUME NEW st, NEW A \in Seq(AttemptRows), NEW R, NEW wait, Owned(st, A, R, wait),
         NEW i \in DOMAIN A, A[i].status \in {"queued"} \cup Held,
         NEW x, x.status \notin {"queued"} \cup Held, ~x.timer
  PROVE  Quiet([A EXCEPT ![i] = x])
<1>1. i \in Live(A) /\ Live(A) \subseteq {Len(A)}
  BY DEF Owned, Live
<1>2. \A j \in DOMAIN A : j # i => A[j].status \notin {"queued"} \cup Held
  BY <1>1 DEF Live
<1>3. \A j \in DOMAIN A : j # i => ~A[j].timer
  BY <1>2 DEF Owned
<1> QED BY <1>2, <1>3 DEF Quiet

\* A quiet node without wait and retry is owned by nobody.
LEMMA QuietIsOwned ==
  ASSUME NEW st, st \notin Active, NEW A, Quiet(A), NEW R, Pledges(R) = {}
  PROVE  Owned(st, A, R, NoWait)
<1>1. Live(A) = {}
  BY DEF Live, Quiet
<1> QED BY <1>1 DEF Owned, Quiet, Active, NoWait, Held

\* A quiet node that waits for something.
LEMMA WaitingIsOwned ==
  ASSUME NEW A, Quiet(A), NEW R, NEW wait,
         \/ /\ wait.kind # "none" /\ wait.no \in DOMAIN A /\ A[wait.no].status = "waiting"
            /\ Pledges(R) = {}
         \/ wait = NoWait /\ \E r \in R : Pledges(R) = {r}
  PROVE  Owned("waiting", A, R, wait)
<1>1. Live(A) = {}
  BY DEF Live, Quiet
<1> QED BY <1>1 DEF Owned, Quiet, NoWait, Held

\* A quiet node with one more attempt is ready.
LEMMA QueuedIsOwned ==
  ASSUME NEW A \in Seq(AttemptRows), Quiet(A), NEW R, Pledges(R) = {},
         NEW x \in AttemptRows, x.status = "queued", ~x.timer
  PROVE  Owned("ready", Append(A, x), R, NoWait)
<1> DEFINE B == Append(A, x)
<1>1. DOMAIN B = 1..(Len(A) + 1) /\ Len(B) = Len(A) + 1 /\ B[Len(A) + 1] = x
      /\ DOMAIN A = 1..Len(A) /\ Len(A) \in Nat /\ \A i \in DOMAIN A : B[i] = A[i]
  OBVIOUS
<1> HIDE DEF B
<1>2. Live(B) = {Len(B)}
  BY <1>1 DEF Live, Quiet
<1>3. \A i \in DOMAIN B : B[i].timer <=> B[i].status \in Held
  BY <1>1 DEF Quiet, Held
<1>4. Owned("ready", B, R, NoWait)
  BY <1>1, <1>2, <1>3 DEF Owned, NoWait
<1> QED BY <1>4 DEF B

\* A live attempt that goes on to the next stage of its life.
LEMMA AdvancedIsOwned ==
  ASSUME NEW st, NEW A \in Seq(AttemptRows), NEW R, NEW wait, Owned(st, A, R, wait),
         NEW i \in DOMAIN A, A[i].status \in {"queued"} \cup Held,
         NEW x \in AttemptRows, x.status \in Held, x.timer
  PROVE  Owned(IF x.status = "running" THEN "running" ELSE "ready", [A EXCEPT ![i] = x], R, wait)
<1> DEFINE B == [A EXCEPT ![i] = x]
<1>1. i = Len(A) /\ wait = NoWait /\ Pledges(R) = {}
  BY OwnedLive
<1>2. B \in Seq(AttemptRows) /\ Len(B) = Len(A) /\ DOMAIN B = DOMAIN A /\ B[i] = x
      /\ \A j \in DOMAIN A : j # i => B[j] = A[j]
  <2>1. DOMAIN A = 1..Len(A)
    BY LenProperties
  <2> QED BY <2>1, ExceptSeq
<1> HIDE DEF B
<1>3. Live(B) = {Len(B)}
  BY <1>1, <1>2 DEF Live, Owned
<1>4. \A j \in DOMAIN B : B[j].timer <=> B[j].status \in Held
  BY <1>1, <1>2 DEF Owned
<1>5. Owned(IF x.status = "running" THEN "running" ELSE "ready", B, R, wait)
  BY <1>1, <1>2, <1>3, <1>4 DEF Owned, NoWait, Held
<1> QED BY <1>5 DEF B

-------------------------------------------------------------------------------
(***************************************************************************)
(* The run: what a step leaves to show when it changes one node, or none.  *)
(***************************************************************************)
Kept == OneOwner /\ HeldIsFenced /\ EndedIsClosed

\* An attempt held in a run that is not running or draining does not exist.
LEMMA HeldRuns ==
  ASSUME Inv, NEW n \in Nodes, NEW i \in DOMAIN attempts[n], attempts[n][i].status \in Held
  PROVE  run.status \in {"running", "interrupting"}
BY DEF Inv, HeldIsFenced

\* A step that leaves every node as it is, and the run in a state that holds
\* what the attempts held before.
LEMMA NoNodeChanges ==
  ASSUME Inv, UNCHANGED <<insts, attempts, retries, waits>>,
         run' = run \/ run' = Restarted \/ run' = Drained(attempts)
  PROVE  Kept'
<1>1. OneOwner'
  BY DEF Inv, OneOwner
<1>2. HeldIsFenced'
  BY DEF Inv, HeldIsFenced, Restarted, Drained, IsHeld, TypeOK, RunRows
<1>3. EndedIsClosed'
  BY DEF Inv, EndedIsClosed, Restarted, Drained, HasStatus, Terminal, TypeOK, RunRows
<1> QED BY <1>1, <1>2, <1>3 DEF Kept

\* A step that changes the rows of one node of a run that has not ended.
LEMMA OneNodeChanges ==
  ASSUME Inv, NEW n \in Nodes,
         \A m \in Nodes \ {n} : /\ insts'[m] = insts[m] /\ attempts'[m] = attempts[m]
                               /\ retries'[m] = retries[m] /\ waits'[m] = waits[m],
         Owned(insts'[n].status, attempts'[n], retries'[n], waits'[n]),
         run.status \notin Terminal,
         \/ /\ run' \in {run, Restarted, Drained(attempts')}
            /\ \A i \in DOMAIN attempts'[n] : attempts'[n][i].status \notin Held
         \/ /\ run' = run
            /\ \A i \in DOMAIN attempts'[n] : attempts'[n][i].status \in Held =>
                 \/ run.status = "running" /\ attempts'[n][i].epoch = run.epoch
                 \/ run.status = "interrupting" /\ attempts'[n][i].epoch = run.drain
  PROVE  Kept'
<1>1. OneOwner'
  BY DEF Inv, OneOwner
<1>2. HeldIsFenced'
  <2>1. SUFFICES ASSUME NEW m \in Nodes, NEW i \in DOMAIN attempts'[m],
                        attempts'[m][i].status \in Held
                 PROVE  \/ run'.status = "running" /\ attempts'[m][i].epoch = run'.epoch
                        \/ run'.status = "interrupting" /\ attempts'[m][i].epoch = run'.drain
    BY DEF HeldIsFenced
  <2>2. CASE m = n
    BY <2>1, <2>2
  <2>3. CASE m # n
    <3>1. \/ run.status = "running" /\ attempts[m][i].epoch = run.epoch
          \/ run.status = "interrupting" /\ attempts[m][i].epoch = run.drain
      BY <2>1, <2>3 DEF Inv, HeldIsFenced
    <3>2. IsHeld(attempts')
      BY <2>1 DEF IsHeld
    <3>3. run' = run
      BY <3>1, <3>2 DEF Restarted, Drained
    <3> QED BY <2>3, <3>1, <3>3
  <2> QED BY <2>2, <2>3
<1>3. EndedIsClosed'
  <2>1. run'.status \notin Terminal
    BY DEF Restarted, Drained, Terminal, Inv, TypeOK, RunRows
  <2> QED BY <2>1 DEF EndedIsClosed
<1> QED BY <1>1, <1>2, <1>3 DEF Kept

\* A step that ends the run.
LEMMA EndRunKept ==
  ASSUME Inv,
         NEW status \in Terminal, NEW I \in [Nodes -> InstRows],
         NEW A \in [Nodes -> Seq(AttemptRows)], NEW C \in CounterRows,
         \A n \in Nodes : \A i \in DOMAIN A[n] : A[n][i].timer => A[n][i].status \in Unsettled,
         EndRun(status, I, A, C)
  PROVE  Kept'
<1>1. ASSUME NEW n \in Nodes
      PROVE  /\ insts'[n].status \notin Active
             /\ Quiet(attempts'[n])
             /\ Pledges(retries'[n]) = {}
             /\ waits'[n] = NoWait
  <2>1. insts'[n].status \notin Active
    BY DEF EndRun, Closed, Active, InstRows
  <2>2. Quiet(attempts'[n])
    <3>1. \A a \in AttemptRows : Ended(a, "cancelled").status = "cancelled" /\ ~Ended(a, "cancelled").timer
      BY DEF Ended, AttemptRows
    <3>2. \A i \in DOMAIN A[n] : A[n][i] \in AttemptRows
      BY LenProperties, ElementOfSeq
    <3>3. attempts'[n] = [i \in DOMAIN A[n] |-> IF A[n][i].status \in Unsettled
                                                  THEN Ended(A[n][i], "cancelled") ELSE A[n][i]]
      BY DEF EndRun
    <3> QED BY <3>1, <3>2, <3>3 DEF Quiet, Unsettled, Held
  <2>3. Pledges(retries'[n]) = {}
    <3>1. \A r \in RetryRows :
             [r EXCEPT !.status = IF @ = "fired" THEN @ ELSE "cancelled"].status \in {"fired", "cancelled"}
      BY DEF RetryRows
    <3> QED BY <3>1 DEF EndRun, Pledges, Inv, TypeOK
  <2>4. waits'[n] = NoWait
    BY DEF EndRun
  <2> QED BY <2>1, <2>2, <2>3, <2>4
<1>2. OneOwner'
  BY <1>1, QuietIsOwned DEF OneOwner
<1>3. HeldIsFenced'
  BY <1>1 DEF HeldIsFenced, Quiet
<1>4. EndedIsClosed'
  BY <1>1 DEF EndedIsClosed, HasStatus
<1> QED BY <1>2, <1>3, <1>4 DEF Kept

\* A node with something open belongs to a run that has not ended.
LEMMA OpenRuns ==
  ASSUME Inv, NEW n \in Nodes, insts[n].status \in Active
  PROVE  run.status \notin Terminal
BY DEF Inv, EndedIsClosed, HasStatus

\* Deadlines are armed for unsettled attempts only, also after one has ended.
LEMMA ArmedIsUnsettled ==
  ASSUME Inv
  PROVE  /\ \A m \in Nodes : \A j \in DOMAIN attempts[m] :
               attempts[m][j].timer => attempts[m][j].status \in Unsettled
         /\ \A n \in Nodes : \A i \in DOMAIN attempts[n], s \in {"failed", "timed_out"} :
               LET A == [attempts EXCEPT ![n][i] = Ended(attempts[n][i], s)]
               IN  \A m \in Nodes : \A j \in DOMAIN A[m] : A[m][j].timer => A[m][j].status \in Unsettled
<1>1. \A m \in Nodes : \A j \in DOMAIN attempts[m] :
         attempts[m][j].timer => attempts[m][j].status \in Unsettled
  BY DEF Inv, OneOwner, Owned, Unsettled
<1>2. ASSUME NEW n \in Nodes, NEW i \in DOMAIN attempts[n], NEW s \in {"failed", "timed_out"},
             NEW m \in Nodes, NEW j \in DOMAIN attempts[m]
      PROVE  LET A == [attempts EXCEPT ![n][i] = Ended(attempts[n][i], s)]
             IN  A[m][j].timer => A[m][j].status \in Unsettled
  <2>1. ~Ended(attempts[n][i], s).timer
    BY RowTypes DEF Inv, Ended, AttemptRows
  <2>2. attempts \in [Nodes -> Seq(AttemptRows)]
    BY DEF Inv, TypeOK
  <2> QED BY <1>1, <2>1, <2>2
<1>3. ASSUME NEW n \in Nodes, NEW i \in DOMAIN attempts[n], NEW x, NEW m \in Nodes
      PROVE  DOMAIN [attempts EXCEPT ![n][i] = x][m] = DOMAIN attempts[m]
  BY DEF Inv, TypeOK
<1> QED BY <1>1, <1>2, <1>3

\* A held attempt that ends leaves its node quiet.
LEMMA HeldEnds ==
  ASSUME Inv, NEW n \in Nodes, NEW i \in DOMAIN attempts[n], attempts[n][i].status \in Held,
         NEW s \in {"waiting", "completed", "failed", "timed_out"}
  PROVE  LET A == [attempts[n] EXCEPT ![i] = Ended(attempts[n][i], s)]
         IN  /\ Quiet(A) /\ A \in Seq(AttemptRows)
             /\ DOMAIN A = DOMAIN attempts[n] /\ A[i].status = s
             /\ [attempts EXCEPT ![n][i] = Ended(attempts[n][i], s)] = [attempts EXCEPT ![n] = A]
             /\ insts[n].status \in Active /\ run.status \notin Terminal
             /\ waits[n] = NoWait /\ Pledges(retries[n]) = {}
<1> DEFINE x == Ended(attempts[n][i], s)
<1>1. attempts[n][i] \in AttemptRows /\ attempts[n] \in Seq(AttemptRows)
      /\ attempts \in [Nodes -> Seq(AttemptRows)] /\ DOMAIN attempts[n] = 1..Len(attempts[n])
  BY RowTypes DEF Inv, TypeOK
<1>2. x \in AttemptRows /\ x.status = s /\ ~x.timer
  <2>1. x \in AttemptRows
    BY <1>1, AttemptTypes
  <2>2. x.status = s /\ ~x.timer
    BY <1>1 DEF Ended, AttemptRows
  <2> QED BY <2>1, <2>2
<1>3. Owned(insts[n].status, attempts[n], retries[n], waits[n])
  BY DEF Inv, OneOwner
<1> HIDE DEF x
<1>4. Quiet([attempts[n] EXCEPT ![i] = x])
  <2>1. s \notin {"queued"} \cup Held /\ attempts[n][i].status \in {"queued"} \cup Held
    BY DEF Held
  <2> QED BY <1>1, <1>2, <1>3, <2>1, SettledIsQuiet
<1>5. waits[n] = NoWait /\ Pledges(retries[n]) = {} /\ insts[n].status \in {"ready", "running"}
  <2>1. attempts[n][i].status \in {"queued"} \cup Held
    OBVIOUS
  <2>2. attempts[n] \in Seq(AttemptRows)
    BY <1>1
  <2>3. insts[n].status = IF attempts[n][i].status = "running" THEN "running" ELSE "ready"
    BY <1>3, <2>1, <2>2, OwnedLive
  <2>4. waits[n] = NoWait /\ Pledges(retries[n]) = {}
    BY <1>3, <2>3 DEF Owned
  <2> QED BY <2>3, <2>4
<1>6. insts[n].status \in Active /\ run.status \notin Terminal
  BY <1>5, OpenRuns DEF Active
<1>7. [attempts[n] EXCEPT ![i] = x] \in Seq(AttemptRows)
      /\ DOMAIN [attempts[n] EXCEPT ![i] = x] = DOMAIN attempts[n]
      /\ [attempts[n] EXCEPT ![i] = x][i] = x
  BY <1>1, <1>2, ExceptSeq
<1>8. [attempts EXCEPT ![n][i] = x] = [attempts EXCEPT ![n] = [attempts[n] EXCEPT ![i] = x]]
  BY <1>1
<1>9. x.status = s
  BY <1>2
<1> QED BY <1>4, <1>5, <1>6, <1>7, <1>8, <1>9 DEF x

\* Attempts that are queued or quiet hold nothing.
LEMMA NothingHeld ==
  ASSUME NEW A \in Seq(AttemptRows), Quiet(A), NEW x \in AttemptRows, x.status = "queued"
  PROVE  /\ \A i \in DOMAIN A : A[i].status \notin Held
         /\ \A i \in DOMAIN Append(A, x) : Append(A, x)[i].status \notin Held
BY DEF Quiet, Held

\* A new attempt is queued, without a deadline.
LEMMA NewIsQueued ==
  ASSUME Inv, NEW kind \in {"start", "retry", "reconcile", "resume"}, NEW ordinal \in Nat,
         NEW epoch \in Nat
  PROVE  LET x == NewAttempt(kind, ordinal, epoch)
         IN  x \in AttemptRows /\ x.status = "queued" /\ ~x.timer
BY AttemptTypes DEF NewAttempt

\* A held attempt that fails and is followed by another one leaves its node
\* ready with a queued attempt.
LEMMA ReplacedKept ==
  ASSUME Inv, NEW n \in Nodes, NEW i \in DOMAIN attempts[n], attempts[n][i].status \in Held,
         NEW kind \in {"retry", "reconcile"}, NEW ordinal \in Nat, NEW epoch \in Nat,
         attempts' = Replaced(n, i, NewAttempt(kind, ordinal, epoch)),
         insts' = [insts EXCEPT ![n].status = "ready"],
         UNCHANGED <<retries, waits>>,
         run' \in {run, Drained(attempts')}
  PROVE  Kept'
<1> DEFINE A == [attempts[n] EXCEPT ![i] = Ended(attempts[n][i], "failed")]
           x == NewAttempt(kind, ordinal, epoch)
<1>1. Quiet(A) /\ A \in Seq(AttemptRows) /\ run.status \notin Terminal
      /\ waits[n] = NoWait /\ Pledges(retries[n]) = {}
  BY HeldEnds
<1>2. x \in AttemptRows /\ x.status = "queued" /\ ~x.timer
  BY NewIsQueued
<1>3. attempts' = [attempts EXCEPT ![n] = Append(A, x)]
  BY DEF Replaced
<1> HIDE DEF A, x
<1>4. attempts'[n] = Append(A, x) /\ insts'[n].status = "ready"
      /\ \A m \in Nodes \ {n} : attempts'[m] = attempts[m] /\ insts'[m] = insts[m]
  BY <1>3 DEF Inv, TypeOK, InstRows
<1>5. Owned("ready", Append(A, x), retries[n], NoWait)
  BY <1>1, <1>2, QueuedIsOwned
<1>6. \A j \in DOMAIN attempts'[n] : attempts'[n][j].status \notin Held
  BY <1>1, <1>2, <1>4, NothingHeld
<1> QED BY <1>1, <1>4, <1>5, <1>6, OneNodeChanges

\* A node whose wait is over is ready with a queued attempt.
LEMMA ResumeAttemptKept ==
  ASSUME Inv, NEW n \in Nodes, waits[n] # NoWait, ResumeAttempt(n), UNCHANGED retries
  PROVE  Kept'
<1> DEFINE x == NewAttempt("resume", attempts[n][waits[n].no].ordinal, run.epoch)
<1>1. Owned(insts[n].status, attempts[n], retries[n], waits[n]) /\ attempts[n] \in Seq(AttemptRows)
  BY RowTypes DEF Inv, OneOwner
<1>2. insts[n].status = "waiting" /\ waits[n].no \in DOMAIN attempts[n] /\ Pledges(retries[n]) = {}
  BY <1>1 DEF Owned
<1>3. Quiet(attempts[n]) /\ run.status \notin Terminal
  BY <1>1, <1>2, OwnedIsQuiet, OpenRuns DEF Active
<1>4. x \in AttemptRows /\ x.status = "queued" /\ ~x.timer
  BY <1>2, NewIsQueued, RowTypes, RunTypes DEF Inv
<1>5. attempts' = [attempts EXCEPT ![n] = Append(attempts[n], x)]
      /\ insts' = [insts EXCEPT ![n].status = "ready"] /\ waits' = [waits EXCEPT ![n] = NoWait]
      /\ run' = Restarted
  BY DEF ResumeAttempt
<1> HIDE DEF x
<1>6. attempts'[n] = Append(attempts[n], x) /\ insts'[n].status = "ready" /\ waits'[n] = NoWait
      /\ \A m \in Nodes \ {n} : /\ attempts'[m] = attempts[m] /\ insts'[m] = insts[m]
                                /\ waits'[m] = waits[m]
  BY <1>5 DEF Inv, TypeOK, InstRows
<1>7. Owned("ready", Append(attempts[n], x), retries[n], NoWait)
  BY <1>1, <1>2, <1>3, <1>4, QueuedIsOwned
<1>8. \A j \in DOMAIN attempts'[n] : attempts'[n][j].status \notin Held
  BY <1>1, <1>3, <1>4, <1>6, NothingHeld
<1> QED BY <1>3, <1>5, <1>6, <1>7, <1>8, OneNodeChanges

-------------------------------------------------------------------------------
(***************************************************************************)
(* Ownership: one lemma for each part of the next-state relation.          *)
(***************************************************************************)
LEMMA FireAndRetryKept ==
  ASSUME Inv, NEW w \in Workers, NEW n \in Nodes, NEW i \in 1..MaxAttempts, FireAndRetry(w, n, i)
  PROVE  Kept'
<1> DEFINE A == [attempts[n] EXCEPT ![i] = Ended(attempts[n][i], "timed_out")]
           r == [ordinal |-> NextOrdinal(n, i), no |-> i + 1,
                 due |-> clock + Backoff, status |-> "pending"]
<1>1. i \in DOMAIN attempts[n] /\ attempts[n][i].status \in Held
  BY DEF FireAndRetry, DeadlineOf
<1>2. /\ Quiet(A) /\ A \in Seq(AttemptRows)
      /\ attempts' = [attempts EXCEPT ![n] = A]
      /\ run.status \notin Terminal /\ waits[n] = NoWait /\ Pledges(retries[n]) = {}
  BY <1>1, HeldEnds DEF FireAndRetry, TimedOut
<1>3. /\ insts' = [insts EXCEPT ![n].status = "waiting"]
      /\ retries' = [retries EXCEPT ![n] = @ \cup {r}]
      /\ waits' = waits
      /\ run' = IF run.status = "running" /\ CanIdle(insts', wakeups')
                  THEN [run EXCEPT !.status = "waiting"] ELSE Drained(attempts')
  BY DEF FireAndRetry
<1> HIDE DEF A
<1>4. Pledges(retries[n] \cup {r}) = {r}
  BY <1>2 DEF Pledges
<1> HIDE DEF r
<1>5. /\ attempts'[n] = A /\ insts'[n].status = "waiting" /\ retries'[n] = retries[n] \cup {r}
      /\ \A m \in Nodes \ {n} : /\ attempts'[m] = attempts[m] /\ insts'[m] = insts[m]
                                /\ retries'[m] = retries[m]
  BY <1>2, <1>3 DEF Inv, TypeOK, InstRows
<1>6. Owned("waiting", A, retries'[n], NoWait)
  BY <1>2, <1>4, <1>5, WaitingIsOwned
<1>7. \A j \in DOMAIN A : A[j].status \notin Held
  BY <1>2 DEF Quiet
<1>8. CASE run' = Drained(attempts')
  BY <1>2, <1>3, <1>5, <1>6, <1>7, <1>8, OneNodeChanges
<1>9. CASE run.status = "running" /\ CanIdle(insts', wakeups')
  <2>1. OneOwner'
    BY <1>2, <1>3, <1>5, <1>6 DEF Inv, OneOwner
  <2>2. attempts' \in [Nodes -> Seq(AttemptRows)]
    BY <1>2 DEF Inv, TypeOK
  <2>3. \A m \in Nodes : Quiet(attempts'[m])
    BY <1>9, <2>1, <2>2, OwnedIsQuiet DEF OneOwner, CanIdle, HasStatus
  <2>4. HeldIsFenced'
    BY <2>3 DEF HeldIsFenced, Quiet
  <2>5. EndedIsClosed'
    BY <1>3, <1>9 DEF EndedIsClosed, Terminal, Inv, TypeOK, RunRows
  <2> QED BY <2>1, <2>4, <2>5 DEF Kept
<1> QED BY <1>3, <1>8, <1>9

\* A fired retry becomes the one queued attempt of a node that waited for it.
LEMMA FireRetryKept ==
  ASSUME Inv, NEW w \in Workers, NEW n \in Nodes, NEW r \in retries[n], FireRetry(w, n, r)
  PROVE  Kept'
<1> DEFINE x == NewAttempt("retry", r.ordinal, run.epoch)
           R == (retries[n] \ {r}) \cup {[r EXCEPT !.status = "fired"]}
<1>1. r \in RetryRows /\ r.ordinal \in Nat /\ r.status = "pending" /\ insts[n].status = "waiting"
  BY DEF FireRetry, Inv, TypeOK, RetryRows
<1>2. Owned("waiting", attempts[n], retries[n], waits[n]) /\ attempts[n] \in Seq(AttemptRows)
  BY <1>1, RowTypes DEF Inv, OneOwner
<1>3. r \in Pledges(retries[n])
  BY <1>1 DEF Pledges
<1>4. Pledges(retries[n]) = {r} /\ waits[n] = NoWait
  BY <1>2, <1>3 DEF Owned
<1>5. Pledges(R) = {}
  BY <1>1, <1>4 DEF Pledges, RetryRows
<1>6. Quiet(attempts[n]) /\ run.status \notin Terminal
  BY <1>1, <1>2, OwnedIsQuiet, OpenRuns DEF Active
<1>7. x \in AttemptRows /\ x.status = "queued" /\ ~x.timer
  BY <1>1, NewIsQueued, RunTypes DEF Inv
<1>8. /\ attempts' = [attempts EXCEPT ![n] = Append(attempts[n], x)]
      /\ insts' = [insts EXCEPT ![n].status = "ready"]
      /\ retries' = [retries EXCEPT ![n] = R] /\ waits' = waits /\ run' = Restarted
  BY DEF FireRetry
<1> HIDE DEF x, R
<1>9. /\ attempts'[n] = Append(attempts[n], x) /\ insts'[n].status = "ready" /\ retries'[n] = R
      /\ \A m \in Nodes \ {n} : /\ attempts'[m] = attempts[m] /\ insts'[m] = insts[m]
                                /\ retries'[m] = retries[m]
  BY <1>8 DEF Inv, TypeOK, InstRows
<1>10. Owned("ready", Append(attempts[n], x), R, NoWait)
  BY <1>2, <1>5, <1>6, <1>7, QueuedIsOwned
<1>11. \A j \in DOMAIN attempts'[n] : attempts'[n][j].status \notin Held
  BY <1>2, <1>6, <1>7, <1>9, NothingHeld
<1> QED BY <1>4, <1>6, <1>8, <1>9, <1>10, <1>11, OneNodeChanges

\* Parking a retry leaves it the one pledge of its node.
LEMMA ParkRetryKept ==
  ASSUME Inv, NEW w \in Workers, NEW n \in Nodes, NEW r \in retries[n], ParkRetry(w, n, r)
  PROVE  Kept'
<1> DEFINE p == [r EXCEPT !.status = "ready"]
           R == (retries[n] \ {r}) \cup {p}
<1>1. r \in RetryRows /\ r.status = "pending" /\ run.status \notin Terminal
  BY DEF ParkRetry, Inv, TypeOK, Halting, Terminal
<1>2. Owned(insts[n].status, attempts[n], retries[n], waits[n]) /\ attempts[n] \in Seq(AttemptRows)
  BY RowTypes DEF Inv, OneOwner
<1>3. r \in Pledges(retries[n])
  BY <1>1 DEF Pledges
<1>4. Pledges(retries[n]) = {r} /\ waits[n] = NoWait /\ insts[n].status = "waiting"
  BY <1>2, <1>3 DEF Owned
<1>5. Pledges(R) = {p}
  BY <1>1, <1>4 DEF Pledges, RetryRows
<1>6. /\ retries' = [retries EXCEPT ![n] = R]
      /\ attempts' = attempts /\ insts' = insts /\ waits' = waits /\ run' = run
  BY DEF ParkRetry
<1>7. Quiet(attempts[n])
  BY <1>2, <1>4, OwnedIsQuiet
<1>8. p \in R
  OBVIOUS
<1> HIDE DEF p, R
<1>9. Owned("waiting", attempts[n], R, NoWait)
  BY <1>5, <1>7, <1>8, WaitingIsOwned
<1>10. retries'[n] = R /\ \A m \in Nodes \ {n} : retries'[m] = retries[m]
  BY <1>6 DEF Inv, TypeOK
<1>11. \A j \in DOMAIN attempts'[n] : attempts'[n][j].status \notin Held
  BY <1>6, <1>7 DEF Quiet
<1> QED BY <1>1, <1>4, <1>6, <1>9, <1>10, <1>11, OneNodeChanges

\* No timer leaves an activation with two owners or none.
LEMMA TimerStepKept ==
  ASSUME Inv, NEW w \in Workers, TimerStep(w)
  PROVE  Kept'
<1>1. CASE NoTimerDue(w)
  BY <1>1, NoNodeChanges DEF NoTimerDue, rows
<1>2. CASE FireRunDeadline(w)
  BY <1>2, EndRunKept, ArmedIsUnsettled DEF FireRunDeadline, Terminal, Inv, TypeOK
<1>3. ASSUME NEW n \in Nodes, NEW i \in 1..MaxAttempts, FireAndRetry(w, n, i)
      PROVE  Kept'
  BY <1>3, FireAndRetryKept
<1>4. ASSUME NEW n \in Nodes, NEW i \in 1..MaxAttempts, FireAndFail(w, n, i)
      PROVE  Kept'
  <2> DEFINE A == [attempts EXCEPT ![n][i] = Ended(attempts[n][i], "timed_out")]
  <2>1. i \in DOMAIN attempts[n] /\ EndRun("failed", [insts EXCEPT ![n].status = "failed"], A, counters)
    BY <1>4 DEF FireAndFail, DeadlineOf, TimedOut
  <2>2. A \in [Nodes -> Seq(AttemptRows)]
    BY <2>1, RowTypes, AttemptTypes, PutType DEF Inv, TypeOK
  <2>3. \A m \in Nodes : \A j \in DOMAIN A[m] : A[m][j].timer => A[m][j].status \in Unsettled
    BY <2>1, ArmedIsUnsettled
  <2>4. [insts EXCEPT ![n].status = "failed"] \in [Nodes -> InstRows] /\ counters \in CounterRows
    BY DEF Inv, TypeOK, InstRows
  <2> HIDE DEF A
  <2> QED BY <2>1, <2>2, <2>3, <2>4, EndRunKept DEF Terminal
<1>5. ASSUME NEW n \in Nodes, NEW r \in retries[n], ParkRetry(w, n, r) \/ FireRetry(w, n, r)
      PROVE  Kept'
  BY <1>5, ParkRetryKept, FireRetryKept
<1>6. ASSUME NEW n \in Nodes, WaitFails(w, n)
      PROVE  Kept'
  <2> DEFINE i == waits[n].no
             A == [attempts EXCEPT ![n][i] = Ended(attempts[n][i], "timed_out")]
  <2>1. i \in DOMAIN attempts[n]
    BY <1>6 DEF WaitFails, Inv, OneOwner, Owned, NoWait
  <2>2. EndRun("failed", [insts EXCEPT ![n].status = "failed"], A, counters)
    BY <1>6 DEF WaitFails
  <2> HIDE DEF i
  <2>3. A \in [Nodes -> Seq(AttemptRows)]
    BY <2>1, RowTypes, AttemptTypes, PutType DEF Inv, TypeOK
  <2>4. \A m \in Nodes : \A j \in DOMAIN A[m] : A[m][j].timer => A[m][j].status \in Unsettled
    BY <2>1, ArmedIsUnsettled
  <2>5. [insts EXCEPT ![n].status = "failed"] \in [Nodes -> InstRows] /\ counters \in CounterRows
    BY DEF Inv, TypeOK, InstRows
  <2> HIDE DEF A
  <2> QED BY <2>2, <2>3, <2>4, <2>5, EndRunKept DEF Terminal
<1>7. ASSUME NEW n \in Nodes, WaitTimesOut(w, n)
      PROVE  Kept'
  BY <1>7, ResumeAttemptKept DEF WaitTimesOut, NoWait
<1> QED BY <1>1, <1>2, <1>3, <1>4, <1>5, <1>6, <1>7 DEF TimerStep

\* A recovered lease passes the activation to its successor.
LEMMA RecoverStepKept ==
  ASSUME Inv, NEW w \in Workers, RecoverStep(w)
  PROVE  Kept'
<1>1. CASE RecoverNothing(w)
  BY <1>1, NoNodeChanges DEF RecoverNothing
<1>2. ASSUME NEW n \in Nodes, NEW i \in 1..MaxAttempts, RecoverExhausted(w, n, i)
      PROVE  Kept'
  BY <1>2, EndRunKept, ArmedIsUnsettled DEF RecoverExhausted, Terminal, Inv, TypeOK
<1>3. ASSUME NEW n \in Nodes, NEW i \in 1..MaxAttempts, RecoverAttempt(w, n, i)
      PROVE  Kept'
  <2>1. i \in DOMAIN attempts[n] /\ attempts[n][i].status \in Held
    BY <1>3 DEF RecoverAttempt, FirstExpired, Expired
  <2>2. attempts[n][i].ordinal + 1 \in Nat /\ run.epoch \in Nat
    BY <2>1, RowTypes, RunTypes DEF Inv
  <2> QED BY <1>3, <2>1, <2>2, ReplacedKept DEF RecoverAttempt
<1> QED BY <1>1, <1>2, <1>3 DEF RecoverStep

\* A claim leases the queued attempt under the epoch the run has.
LEMMA ClaimStepKept ==
  ASSUME Inv, NEW w \in Workers, ClaimStep(w)
  PROVE  Kept'
<1>1. CASE ClaimNothing(w)
  BY <1>1, NoNodeChanges DEF ClaimNothing, rows
<1>2. ASSUME NEW x \in wakeups, ClaimNoop(w, x) \/ ClaimDispatch(w, x)
      PROVE  Kept'
  BY <1>2, NoNodeChanges DEF ClaimNoop, ClaimDispatch
<1>3. ASSUME NEW x \in wakeups, NEW i \in 1..MaxAttempts, ClaimAttempt(w, x, i)
      PROVE  Kept'
  <2> DEFINE n == x.key.node
             deadline == Earlier(workers[w].now + Timeout[n], RunDeadline)
             a == [attempts[n][i] EXCEPT
                     !.status = "leased", !.epoch = run.epoch, !.worker = w, !.timer = TRUE,
                     !.lease = Earlier(workers[w].now + LeaseLen, deadline), !.deadline = deadline]
  <2>1. n \in Nodes
    BY DEF Inv, TypeOK, WakeupRows, Keys
  <2>2. i \in DOMAIN attempts[n] /\ attempts[n][i].status = "queued" /\ insts[n].status = "ready"
    BY <1>3 DEF ClaimAttempt, FirstQueued
  <2>3. attempts[n][i] \in AttemptRows /\ attempts[n] \in Seq(AttemptRows)
    BY <2>1, <2>2, RowTypes DEF Inv
  <2>4. a.status = "leased" /\ a.timer /\ a.epoch = run.epoch
    BY <2>3 DEF AttemptRows
  <2>5. a \in AttemptRows
    <3>1. workers[w].now \in Nat /\ deadline \in Nat
      <4>1. workers[w].now \in Nat
        BY WorkerTypes DEF Inv
      <4>2. Timeout[n] \in Nat /\ RunDeadline \in Nat
        BY <2>1, LimitAssumption
      <4> HIDE DEF n
      <4>3. workers[w].now + Timeout[n] \in Nat
        BY <4>1, <4>2
      <4> QED BY <4>1, <4>2, <4>3 DEF Earlier
    <3>2. Earlier(workers[w].now + LeaseLen, deadline) \in Nat
      <4> HIDE DEF deadline
      <4> QED BY <3>1, LimitAssumption DEF Earlier
    <3> HIDE DEF deadline
    <3> QED BY <2>3, <3>1, <3>2, RunTypes DEF AttemptRows, Unsettled, Held, Inv
  <2>6. /\ attempts' = [attempts EXCEPT ![n][i] = a]
        /\ run' = run /\ insts' = insts /\ retries' = retries /\ waits' = waits
        /\ run.status = "running"
    BY <1>3 DEF ClaimAttempt, Claim, Claimable
  <2>7. Owned(insts[n].status, attempts[n], retries[n], waits[n])
    BY <2>1 DEF Inv, OneOwner
  <2> HIDE DEF a, n
  <2> DEFINE B == [attempts[n] EXCEPT ![i] = a]
  <2>8. attempts'[n] = B /\ \A m \in Nodes \ {n} : attempts'[m] = attempts[m]
    BY <2>1, <2>6 DEF Inv, TypeOK
  <2>9. Owned("ready", B, retries[n], waits[n])
    <3>1. "queued" \in {"queued"} \cup Held /\ a.status \in Held
      BY <2>4 DEF Held
    <3> QED BY <2>2, <2>3, <2>4, <2>5, <2>7, <3>1, AdvancedIsOwned
  <2>10. \A j \in DOMAIN B : B[j].status \in Held => B[j].epoch = run.epoch
    <3>1. \A j \in DOMAIN B : j # i => B[j].status \notin Held
      <4>1. \A j \in DOMAIN attempts[n] : attempts[n][j].status \in Held => j \in Live(attempts[n])
        BY DEF Live
      <4>2. i \in Live(attempts[n]) /\ Live(attempts[n]) \subseteq {Len(attempts[n])}
        BY <2>2, <2>7 DEF Live, Owned
      <4> QED BY <4>1, <4>2
    <3> QED BY <2>2, <2>4, <3>1
  <2> HIDE DEF B
  <2>11. run.status \notin Terminal
    BY <2>6 DEF Terminal
  <2> QED BY <2>1, <2>2, <2>6, <2>8, <2>9, <2>10, <2>11, OneNodeChanges
<1> QED BY <1>1, <1>2, <1>3 DEF ClaimStep

\* Starting an attempt moves it and its instance together.
LEMMA MarkRunningKept ==
  ASSUME Inv, NEW w \in Workers, MarkRunning(w)
  PROVE  Kept'
<1> DEFINE n == Node(w)
           i == workers[w].no
           a == [attempts[n][i] EXCEPT !.status = "running"]
<1>1. n \in Nodes
  BY WorkerTypes DEF Inv
<1>2. i \in DOMAIN attempts[n] /\ attempts[n][i].status = "leased"
  BY DEF MarkRunning, Owns
<1>3. /\ attempts' = [attempts EXCEPT ![n][i] = a]
      /\ insts' = [insts EXCEPT ![n].status = "running"]
      /\ run' = run /\ retries' = retries /\ waits' = waits
  BY DEF MarkRunning
<1> HIDE DEF n, i
<1>4. attempts[n][i] \in AttemptRows /\ attempts[n] \in Seq(AttemptRows)
  BY <1>1, <1>2, RowTypes DEF Inv
<1>5. Owned(insts[n].status, attempts[n], retries[n], waits[n])
  BY <1>1 DEF Inv, OneOwner
<1>6. attempts[n][i].timer
  BY <1>2, <1>5 DEF Owned, Held
<1>7. a \in AttemptRows /\ a.status = "running" /\ a.timer /\ a.epoch = attempts[n][i].epoch
  BY <1>4, <1>6 DEF AttemptRows, Unsettled, Held
<1> HIDE DEF a
<1> DEFINE B == [attempts[n] EXCEPT ![i] = a]
<1>8. /\ attempts'[n] = B /\ insts'[n].status = "running"
      /\ \A m \in Nodes \ {n} : attempts'[m] = attempts[m] /\ insts'[m] = insts[m]
  BY <1>1, <1>3 DEF Inv, TypeOK, InstRows
<1>9. Owned("running", B, retries[n], waits[n])
  <2>1. "leased" \in {"queued"} \cup Held /\ "running" \in Held
    BY DEF Held
  <2> QED BY <1>2, <1>4, <1>5, <1>7, <2>1, AdvancedIsOwned
<1>10. \A j \in DOMAIN B : B[j].status \in Held =>
         j \in DOMAIN attempts[n] /\ attempts[n][j].status \in Held /\ B[j].epoch = attempts[n][j].epoch
  BY <1>2, <1>7 DEF Held
<1> HIDE DEF B
<1>11. run.status \notin Terminal
  BY <1>1, <1>2, HeldRuns DEF Held, Terminal
<1>12. \A j \in DOMAIN attempts'[n] : attempts'[n][j].status \in Held =>
         \/ run.status = "running" /\ attempts'[n][j].epoch = run.epoch
         \/ run.status = "interrupting" /\ attempts'[n][j].epoch = run.drain
  BY <1>1, <1>8, <1>10 DEF Inv, HeldIsFenced
<1> QED BY <1>1, <1>3, <1>8, <1>9, <1>11, <1>12, OneNodeChanges

\* The attempt a worker may finalize is held by a run that has not ended.
LEMMA FinalizesHeld ==
  ASSUME Inv, NEW w \in Workers, Finalizes(w)
  PROVE  /\ Node(w) \in Nodes
         /\ workers[w].no \in DOMAIN attempts[Node(w)]
         /\ attempts[Node(w)][workers[w].no].status \in Held
BY WorkerTypes DEF Inv, Finalizes, Accepts, Owns, Held

\* A completed attempt leaves nothing behind that owns the activation.
LEMMA FinalizeCompletedKept ==
  ASSUME Inv, NEW w \in Workers, NEW order, FinalizeCompleted(w, order)
  PROVE  Kept'
<1> DEFINE n == Node(w)
           i == workers[w].no
           A == [attempts[n] EXCEPT ![i] = Ended(attempts[n][i], "completed")]
<1>1. n \in Nodes /\ i \in DOMAIN attempts[n] /\ attempts[n][i].status \in Held
  BY FinalizesHeld DEF FinalizeCompleted
<1>2. /\ attempts' = [attempts EXCEPT ![n][i] = Ended(attempts[n][i], "completed")]
      /\ insts' = [insts EXCEPT ![n].status = "completed"]
      /\ run' = Drained(attempts') /\ retries' = retries /\ waits' = waits
  BY DEF FinalizeCompleted, Settling
<1> HIDE DEF n, i
<1>3. /\ Quiet(A) /\ attempts' = [attempts EXCEPT ![n] = A]
      /\ run.status \notin Terminal /\ waits[n] = NoWait /\ Pledges(retries[n]) = {}
  BY <1>1, <1>2, HeldEnds
<1> HIDE DEF A
<1>4. /\ attempts'[n] = A /\ insts'[n].status = "completed"
      /\ \A m \in Nodes \ {n} : attempts'[m] = attempts[m] /\ insts'[m] = insts[m]
  BY <1>1, <1>2, <1>3 DEF Inv, TypeOK, InstRows
<1>5. Owned("completed", A, retries[n], NoWait)
  BY <1>3, QuietIsOwned DEF Active
<1>6. \A j \in DOMAIN attempts'[n] : attempts'[n][j].status \notin Held
  BY <1>3, <1>4 DEF Quiet
<1> QED BY <1>1, <1>2, <1>3, <1>4, <1>5, <1>6, OneNodeChanges

\* An attempt that opens a wait hands the activation to that wait.
LEMMA FinalizeWaitingKept ==
  ASSUME Inv, NEW w \in Workers, NEW kind \in WaitKinds[Node(w)], NEW due, NEW onTimeout,
         FinalizeWaiting(w, kind, due, onTimeout)
  PROVE  Kept'
<1> DEFINE n == Node(w)
           i == workers[w].no
           A == [attempts[n] EXCEPT ![i] = Ended(attempts[n][i], "waiting")]
           wait == [kind |-> kind, due |-> due, onTimeout |-> onTimeout, no |-> i]
<1>1. n \in Nodes /\ i \in DOMAIN attempts[n] /\ attempts[n][i].status \in Held
  BY FinalizesHeld DEF FinalizeWaiting
<1>2. kind # "none"
  BY <1>1, GraphAssumption
<1>3. wait.kind # "none" /\ wait.no = i
  BY <1>2
<1>4. /\ attempts' = [attempts EXCEPT ![n][i] = Ended(attempts[n][i], "waiting")]
      /\ insts' = [insts EXCEPT ![n].status = "waiting"]
      /\ waits' = [waits EXCEPT ![n] = wait]
      /\ run' = Drained(attempts') /\ retries' = retries
  BY DEF FinalizeWaiting, Settling
<1> HIDE DEF n, i, wait
<1>5. /\ Quiet(A) /\ attempts' = [attempts EXCEPT ![n] = A]
      /\ run.status \notin Terminal /\ Pledges(retries[n]) = {}
      /\ i \in DOMAIN A /\ A[i].status = "waiting"
  BY <1>1, <1>4, HeldEnds
<1> HIDE DEF A
<1>6. /\ attempts'[n] = A /\ insts'[n].status = "waiting" /\ waits'[n] = wait
      /\ \A m \in Nodes \ {n} : /\ attempts'[m] = attempts[m] /\ insts'[m] = insts[m]
                                /\ waits'[m] = waits[m]
  BY <1>1, <1>4, <1>5 DEF Inv, TypeOK, InstRows
<1>7. Owned("waiting", A, retries[n], wait)
  BY <1>3, <1>5, WaitingIsOwned
<1>8. \A j \in DOMAIN attempts'[n] : attempts'[n][j].status \notin Held
  BY <1>5, <1>6 DEF Quiet
<1> QED BY <1>1, <1>4, <1>5, <1>6, <1>7, <1>8, OneNodeChanges

\* Neither starting nor finalizing an attempt breaks the invariant.
LEMMA ExecuteStepKept ==
  ASSUME Inv, NEW w \in Workers, ExecuteStep(w)
  PROVE  Kept'
<1>1. CASE MarkRunning(w)
  BY <1>1, MarkRunningKept
<1>2. CASE MarkRejected(w) \/ FinalizeRejected(w)
  BY <1>2, NoNodeChanges DEF MarkRejected, FinalizeRejected, rows
<1>3. CASE FinalizeFailed(w)
  <2> DEFINE n == Node(w)
             i == workers[w].no
             A == [attempts EXCEPT ![n][i] = Ended(attempts[n][i], "failed")]
  <2>1. n \in Nodes /\ i \in DOMAIN attempts[n]
    BY <1>3, FinalizesHeld DEF FinalizeFailed
  <2>2. EndRun("failed", [insts EXCEPT ![n].status = "failed"], A, counters)
    BY <1>3 DEF FinalizeFailed, Settling
  <2> HIDE DEF n, i
  <2>3. A \in [Nodes -> Seq(AttemptRows)]
    BY <2>1, RowTypes, AttemptTypes, PutType DEF Inv, TypeOK
  <2>4. \A m \in Nodes : \A j \in DOMAIN A[m] : A[m][j].timer => A[m][j].status \in Unsettled
    BY <2>1, ArmedIsUnsettled
  <2>5. [insts EXCEPT ![n].status = "failed"] \in [Nodes -> InstRows] /\ counters \in CounterRows
    BY DEF Inv, TypeOK, InstRows
  <2> HIDE DEF A
  <2> QED BY <2>2, <2>3, <2>4, <2>5, EndRunKept DEF Terminal
<1>4. CASE FinalizeReconcile(w)
  <2>1. /\ Node(w) \in Nodes /\ workers[w].no \in DOMAIN attempts[Node(w)]
        /\ attempts[Node(w)][workers[w].no].status \in Held /\ workers[w].epoch \in Nat
    BY <1>4, FinalizesHeld, WorkerTypes DEF FinalizeReconcile, Inv
  <2> QED BY <1>4, <2>1, ReplacedKept DEF FinalizeReconcile
<1>5. ASSUME NEW order \in Emissions(Node(w)), FinalizeCompleted(w, order)
      PROVE  Kept'
  BY <1>5, FinalizeCompletedKept
<1>6. ASSUME NEW kind \in WaitKinds[Node(w)], NEW due \in {0, workers[w].now + WaitTime},
             NEW onTimeout \in {"fail", "resume_with_timeout"},
             FinalizeWaiting(w, kind, due, onTimeout)
      PROVE  Kept'
  BY <1>6, FinalizeWaitingKept
<1> QED BY <1>1, <1>2, <1>3, <1>4, <1>5, <1>6 DEF ExecuteStep

\* A new activation starts with one queued attempt.
LEMMA ActivateReadyKept ==
  ASSUME Inv, NEW w \in Workers, ActivateReady(w)
  PROVE  Kept'
<1> DEFINE n == Node(w)
           x == NewAttempt("start", 0, run.epoch)
<1>1. n \in Nodes
  BY WorkerTypes DEF Inv
<1>2. run.status = "running" /\ insts[n].status \notin Active
  BY DEF ActivateReady, Consumes, Activatable
<1>3. x \in AttemptRows /\ x.status = "queued" /\ ~x.timer
  BY NewIsQueued, RunTypes DEF Inv
<1>4. /\ attempts' = [attempts EXCEPT ![n] = <<x>>]
      /\ insts' = [insts EXCEPT ![n] = [status |-> "ready", seq |-> insts[n].seq + 1]]
      /\ retries' = [retries EXCEPT ![n] = {}]
      /\ run' = run /\ waits' = waits
  BY DEF ActivateReady
<1> HIDE DEF n, x
<1>5. /\ attempts'[n] = <<x>> /\ insts'[n].status = "ready" /\ retries'[n] = {}
      /\ \A m \in Nodes \ {n} : /\ attempts'[m] = attempts[m] /\ insts'[m] = insts[m]
                                /\ retries'[m] = retries[m]
  BY <1>1, <1>4 DEF Inv, TypeOK
<1>6. waits[n] = NoWait
  BY <1>1, <1>2, OwnedIsQuiet, RowTypes DEF Inv, OneOwner, Active
<1>7. Owned("ready", <<x>>, {}, NoWait)
  <2>1. Quiet(<<>>) /\ <<>> \in Seq(AttemptRows) /\ Pledges({}) = {} /\ Append(<<>>, x) = <<x>>
    BY DEF Quiet, Pledges
  <2> QED BY <1>3, <2>1, QueuedIsOwned
<1>8. \A j \in DOMAIN attempts'[n] : attempts'[n][j].status \notin Held
  BY <1>3, <1>5 DEF Held
<1>9. run.status \notin Terminal
  BY <1>2 DEF Terminal
<1> QED BY <1>1, <1>4, <1>5, <1>6, <1>7, <1>8, <1>9, OneNodeChanges

\* No outcome of an activation breaks the invariant.
LEMMA ActivateStepKept ==
  ASSUME Inv, NEW w \in Workers, ActivateStep(w)
  PROVE  Kept'
<1>1. CASE ActivateSkipped(w) \/ ActivateDropped(w) \/ ActivateNotReady(w)
  BY <1>1, NoNodeChanges DEF ActivateSkipped, ActivateDropped, ActivateNotReady
<1>2. CASE ActivateOverLimit(w)
  BY <1>2, EndRunKept, ArmedIsUnsettled DEF ActivateOverLimit, Terminal, Inv, TypeOK
<1>3. CASE ActivateReady(w)
  BY <1>3, ActivateReadyKept
<1>4. CASE ActivateInvalid(w)
  <2> DEFINE n == Node(w)
             a == Ended(NewAttempt("start", 0, run.epoch), "failed")
             I == [insts EXCEPT ![n] = [status |-> "failed", seq |-> insts[n].seq + 1]]
             A == [attempts EXCEPT ![n] = <<a>>]
  <2>1. n \in Nodes
    BY WorkerTypes DEF Inv
  <2>2. a \in AttemptRows /\ ~a.timer
    BY AttemptTypes, RunTypes DEF Inv, Ended, NewAttempt
  <2>3. EndRun("failed", I, A, Consumed(n))
    BY <1>4 DEF ActivateInvalid
  <2> HIDE DEF n, a
  <2>4. I \in [Nodes -> InstRows]
    <3>1. [status |-> "failed", seq |-> insts[n].seq + 1] \in InstRows
      BY <2>1, RowTypes DEF Inv, InstRows
    <3> QED BY <3>1 DEF Inv, TypeOK
  <2>5. A \in [Nodes -> Seq(AttemptRows)]
    <3>1. <<a>> \in Seq(AttemptRows)
      BY <2>2, OneType
    <3> QED BY <3>1 DEF Inv, TypeOK
  <2>6. \A m \in Nodes : \A j \in DOMAIN A[m] : A[m][j].timer => A[m][j].status \in Unsettled
    <3>1. \A m \in Nodes \ {n} : A[m] = attempts[m]
      BY DEF Inv, TypeOK
    <3>2. A[n] = <<a>>
      BY <2>1 DEF Inv, TypeOK
    <3>3. \A j \in DOMAIN A[n] : ~A[n][j].timer
      BY <2>2, <3>2
    <3> QED BY <3>1, <3>3, ArmedIsUnsettled
  <2>7. Consumed(n) \in CounterRows
    BY <2>1, ConsumeTypes DEF Inv
  <2> HIDE DEF A, I
  <2> QED BY <2>3, <2>4, <2>5, <2>6, <2>7, EndRunKept DEF Terminal
<1> QED BY <1>1, <1>2, <1>3, <1>4 DEF ActivateStep

\* Settlement changes no owner, and completes only a run with no node active.
LEMMA SettleStepKept ==
  ASSUME Inv, NEW w \in Workers, SettleStep(w)
  PROVE  Kept'
<1>1. CASE SettleLate(w) \/ SettleMissing(w)
  BY <1>1, EndRunKept, ArmedIsUnsettled DEF SettleLate, SettleMissing, Terminal, Inv, TypeOK
<1>2. CASE SettleBusy(w)
  BY <1>2, NoNodeChanges DEF SettleBusy, Settles
<1>3. CASE SettleWaiting(w)
  <2>1. OneOwner'
    BY <1>3 DEF SettleWaiting, Inv, OneOwner
  <2>2. \A n \in Nodes : Quiet(attempts[n])
    BY <1>3, OwnedIsQuiet, RowTypes DEF SettleWaiting, MustWait, HasStatus, Inv, OneOwner
  <2>3. HeldIsFenced'
    BY <1>3, <2>2 DEF SettleWaiting, HeldIsFenced, Quiet
  <2>4. EndedIsClosed'
    BY <1>3 DEF SettleWaiting, EndedIsClosed, Terminal, Inv, TypeOK, RunRows
  <2> QED BY <2>1, <2>3, <2>4 DEF Kept
<1>4. CASE SettleCompleted(w)
  <2>1. \A n \in Nodes : insts[n].status \notin Active
    BY <1>4 DEF SettleCompleted, Finished, Busy, HasStatus
  <2>2. insts' = insts /\ waits' = waits /\ run'.status = "completed"
    BY <1>4 DEF SettleCompleted, Inv, TypeOK, RunRows
  <2>3. ASSUME NEW n \in Nodes
        PROVE  Quiet(attempts'[n]) /\ Pledges(retries'[n]) = {} /\ waits'[n] = NoWait
    <3>1. Quiet(attempts[n]) /\ waits[n] = NoWait
      <4>1. Owned(insts[n].status, attempts[n], retries[n], waits[n]) /\ attempts[n] \in Seq(AttemptRows)
        BY RowTypes DEF Inv, OneOwner
      <4>2. insts[n].status \notin {"ready", "running", "waiting"}
        BY <2>1 DEF Active
      <4>3. Quiet(attempts[n])
        BY <4>1, <4>2, OwnedIsQuiet
      <4>4. waits[n] = NoWait
        BY <4>1, <4>2 DEF Owned
      <4> QED BY <4>3, <4>4
    <3>2. Quiet(attempts'[n])
      <4>1. \A a \in AttemptRows : /\ [a EXCEPT !.timer = FALSE].status = a.status
                                   /\ ~[a EXCEPT !.timer = FALSE].timer
        BY DEF AttemptRows
      <4>2. attempts'[n] = [i \in DOMAIN attempts[n] |-> [attempts[n][i] EXCEPT !.timer = FALSE]]
        BY <1>4 DEF SettleCompleted
      <4>3. \A i \in DOMAIN attempts[n] : attempts[n][i] \in AttemptRows
        BY RowTypes DEF Inv
      <4> QED BY <3>1, <4>1, <4>2, <4>3 DEF Quiet
    <3>3. Pledges(retries'[n]) = {}
      <4>1. \A r \in RetryRows :
              [r EXCEPT !.status = IF @ = "fired" THEN @ ELSE "cancelled"].status \in {"fired", "cancelled"}
        BY DEF RetryRows
      <4> QED BY <1>4, <4>1 DEF SettleCompleted, Pledges, Inv, TypeOK
    <3> QED BY <2>2, <3>1, <3>2, <3>3
  <2>4. OneOwner'
    BY <2>1, <2>2, <2>3, QuietIsOwned DEF OneOwner
  <2>5. HeldIsFenced'
    BY <2>3 DEF HeldIsFenced, Quiet
  <2>6. EndedIsClosed'
    BY <2>1, <2>2 DEF EndedIsClosed, HasStatus
  <2> QED BY <2>4, <2>5, <2>6 DEF Kept
<1> QED BY <1>1, <1>2, <1>3, <1>4 DEF SettleStep

\* Controls, responses, crashes and the passing of time keep the invariant.
LEMMA ControlKept ==
  ASSUME Inv, Interrupt \/ Resume \/ Cancel \/ \E n \in Nodes : SubmitResponse(n)
  PROVE  Kept'
<1>1. CASE Interrupt
  <2>1. OneOwner'
    BY <1>1 DEF Interrupt, Controls, Inv, OneOwner
  <2>2. HeldIsFenced'
    BY <1>1 DEF Interrupt, Controls, Inv, HeldIsFenced, IsHeld
  <2>3. EndedIsClosed'
    BY <1>1 DEF Interrupt, Controls, EndedIsClosed, Terminal
  <2> QED BY <2>1, <2>2, <2>3 DEF Kept
<1>2. CASE Resume
  <2> DEFINE due(r) == IF r.status = "ready" THEN [r EXCEPT !.status = "pending", !.due = clock]
                                             ELSE r
  <2>1. /\ insts' = insts /\ attempts' = attempts /\ waits' = waits
        /\ retries' = [n \in Nodes |-> {due(r) : r \in retries[n]}]
        /\ run.status = "interrupted" /\ run'.status = "running"
    BY <1>2 DEF Resume, Controls
  <2>2. OneOwner'
    <3>1. SUFFICES ASSUME NEW n \in Nodes
                   PROVE  Owned(insts[n].status, attempts[n], {due(r) : r \in retries[n]}, waits[n])
      BY <2>1 DEF OneOwner
    <3>2. \A r \in retries[n] : /\ due(r).status \in {"pending", "ready"} <=>
                                    r.status \in {"pending", "ready"}
      BY DEF Inv, TypeOK, RetryRows
    <3>3. Owned(insts[n].status, attempts[n], retries[n], waits[n])
      BY DEF Inv, OneOwner
    <3> HIDE DEF due
    <3>4. Pledges({due(r) : r \in retries[n]}) = {due(r) : r \in Pledges(retries[n])}
      BY <3>2 DEF Pledges
    <3> DEFINE R == {due(r) : r \in retries[n]}
    <3>5. Pledges(R) = {} <=> Pledges(retries[n]) = {}
      BY <3>4
    <3>6. ASSUME NEW r \in retries[n], Pledges(retries[n]) = {r}
          PROVE  due(r) \in R /\ Pledges(R) = {due(r)}
      BY <3>4, <3>6
    <3> HIDE DEF R
    <3>7. Owned(insts[n].status, attempts[n], R, waits[n])
      BY <3>3, <3>5, <3>6 DEF Owned
    <3> QED BY <3>7 DEF R
  <2>3. HeldIsFenced'
    BY <2>1 DEF Inv, HeldIsFenced
  <2>4. EndedIsClosed'
    BY <2>1 DEF EndedIsClosed, Terminal
  <2> QED BY <2>2, <2>3, <2>4 DEF Kept
<1>3. CASE Cancel
  BY <1>3, EndRunKept, ArmedIsUnsettled DEF Cancel, Terminal, Inv, TypeOK
<1>4. ASSUME NEW n \in Nodes, SubmitResponse(n)
      PROVE  Kept'
  BY <1>4, ResumeAttemptKept DEF SubmitResponse, NoWait
<1> QED BY <1>1, <1>2, <1>3, <1>4

-------------------------------------------------------------------------------
(***************************************************************************)
(* The invariant holds initially and through every step.                   *)
(***************************************************************************)
LEMMA InitInv == Init => Inv
<1> SUFFICES ASSUME Init PROVE Inv
  OBVIOUS
<1> DEFINE x == NewAttempt("start", 0, 0)
<1>1. x \in AttemptRows /\ x.status = "queued" /\ ~x.timer
  BY AttemptTypes DEF NewAttempt
<1>2. TypeOK
  <2>1. Cardinality(Entry) \in Nat
    BY GraphAssumption, FS_Subset, FS_CardinalityType
  <2>2. run \in RunRows /\ insts \in [Nodes -> InstRows] /\ retries \in [Nodes -> SUBSET RetryRows]
    BY DEF Init, RunRows, RunStatus, InstRows, Active
  <2>3. attempts \in [Nodes -> Seq(AttemptRows)]
    <3>1. <<x>> \in Seq(AttemptRows) /\ <<>> \in Seq(AttemptRows)
      BY <1>1, OneType, EmptySeq
    <3>2. attempts = [n \in Nodes |-> IF n \in Entry THEN <<x>> ELSE <<>>]
      BY DEF Init
    <3> HIDE DEF x
    <3> QED BY <3>1, <3>2
  <2>4. waits \in [Nodes -> WaitRows] /\ queues \in [Edges -> Seq(Nat)]
    BY DEF Init, WaitRows, NoWait
  <2>5. counters \in CounterRows
    BY <2>1 DEF Init, CounterRows
  <2>6. wakeups \subseteq WakeupRows
    BY GraphAssumption, KeyTypes DEF Init, WakeupRows
  <2>7. workers \in [Workers -> WorkerStates]
    <3>1. NoKey \in Keys
      BY GraphAssumption, KeyTypes
    <3> QED BY <3>1 DEF Init, WorkerStates, Idle
  <2>8. clock \in Nat /\ crashes \in Nat /\ produced \subseteq Outputs
    BY DEF Init
  <2> QED BY <2>2, <2>3, <2>4, <2>5, <2>6, <2>7, <2>8 DEF TypeOK
<1>3. OneOwner
  <2>1. SUFFICES ASSUME NEW n \in Nodes
                 PROVE  Owned(insts[n].status, attempts[n], retries[n], waits[n])
    BY DEF OneOwner
  <2>2. Quiet(<<>>) /\ <<>> \in Seq(AttemptRows) /\ Pledges({}) = {} /\ Append(<<>>, x) = <<x>>
    BY DEF Quiet, Pledges
  <2>3. Owned("ready", <<x>>, {}, NoWait)
    BY <1>1, <2>2, QueuedIsOwned
  <2>4. Owned("none", <<>>, {}, NoWait)
    BY <2>2, QuietIsOwned DEF Active
  <2>5. /\ attempts[n] = IF n \in Entry THEN <<x>> ELSE <<>>
        /\ insts[n].status = IF n \in Entry THEN "ready" ELSE "none"
        /\ retries[n] = {} /\ waits[n] = NoWait
    BY DEF Init
  <2> HIDE DEF x
  <2> QED BY <2>3, <2>4, <2>5
<1>4. HeldIsFenced /\ EndedIsClosed
  <2>1. \A n \in Nodes : \A i \in DOMAIN attempts[n] : attempts[n][i].status = "queued"
    BY <1>1 DEF Init
  <2> QED BY <2>1 DEF Init, HeldIsFenced, EndedIsClosed, Terminal, Held
<1> QED BY <1>2, <1>3, <1>4 DEF Inv

\* Every step keeps the invariant.
LEMMA StepInv == Inv /\ [Next]_vars => Inv'
<1> SUFFICES ASSUME Inv, [Next]_vars PROVE Inv'
  OBVIOUS
<1>1. ASSUME NEW w \in Workers, TimerStep(w) PROVE Inv'
  BY <1>1, TimerStepTypes, TimerStepKept DEF Inv, Kept
<1>2. ASSUME NEW w \in Workers, RecoverStep(w) PROVE Inv'
  BY <1>2, RecoverStepTypes, RecoverStepKept DEF Inv, Kept
<1>3. ASSUME NEW w \in Workers, ClaimStep(w) PROVE Inv'
  BY <1>3, ClaimStepTypes, ClaimStepKept DEF Inv, Kept
<1>4. ASSUME NEW w \in Workers, ExecuteStep(w) PROVE Inv'
  BY <1>4, ExecuteStepTypes, ExecuteStepKept DEF Inv, Kept
<1>5. ASSUME NEW w \in Workers, ActivateStep(w) PROVE Inv'
  BY <1>5, ActivateStepTypes, ActivateStepKept DEF Inv, Kept
<1>6. ASSUME NEW w \in Workers, SettleStep(w) PROVE Inv'
  BY <1>6, SettleStepTypes, SettleStepKept DEF Inv, Kept
<1>7. CASE Interrupt \/ Resume \/ Cancel \/ \E n \in Nodes : SubmitResponse(n)
  BY <1>7, ControlTypes, ControlKept DEF Inv, Kept
<1>8. ASSUME NEW w \in Workers, Crash(w) PROVE Inv'
  <2>1. TypeOK'
    BY <1>8, WorkerTypes DEF Crash, rows, Inv, TypeOK
  <2>2. Kept'
    BY <1>8, NoNodeChanges DEF Crash, rows
  <2> QED BY <2>1, <2>2 DEF Inv, Kept
<1>9. CASE Tick
  <2>1. TypeOK'
    BY <1>9 DEF Tick, rows, Inv, TypeOK
  <2>2. Kept'
    BY <1>9, NoNodeChanges DEF Tick, rows
  <2> QED BY <2>1, <2>2 DEF Inv, Kept
<1>10. CASE UNCHANGED vars
  <2>1. TypeOK'
    BY <1>10 DEF vars, rows, Inv, TypeOK
  <2>2. Kept'
    BY <1>10, NoNodeChanges DEF vars, rows
  <2> QED BY <2>1, <2>2 DEF Inv, Kept
<1> QED
  BY <1>1, <1>2, <1>3, <1>4, <1>5, <1>6, <1>7, <1>8, <1>9, <1>10 DEF Next, WorkerStep

\* The invariant holds in every state of every run of a graph, for every
\* graph, every limit and any number of workers.
THEOREM Invariance == Spec => []Inv
BY InitInv, StepInv, PTL DEF Spec

-------------------------------------------------------------------------------
(***************************************************************************)
(* What follows from it.                                                   *)
(***************************************************************************)
\* Every transaction leaves rows of their types (the tables of runtime/).
THEOREM TypeCorrect == Spec => []TypeOK
<1>1. Inv => TypeOK
  BY DEF Inv
<1> QED BY <1>1, Invariance, PTL

\* Through retries, recoveries, reconciles, waits and crashes, an activation
\* has exactly one owner, and one thing at most that will make it ready.
THEOREM Ownership == Spec => []OneOwner
<1>1. Inv => OneOwner
  BY DEF Inv
<1> QED BY <1>1, Invariance, PTL

\* No attempt is held under an epoch that a control has withdrawn, so
\* validate_fence accepts nothing a control wanted stopped.
THEOREM Fencing == Spec => []HeldIsFenced
<1>1. Inv => HeldIsFenced
  BY DEF Inv
<1> QED BY <1>1, Invariance, PTL

\* fail_run, apply_cancel and settle_run leave nothing open behind.
THEOREM Closing == Spec => []EndedIsClosed
<1>1. Inv => EndedIsClosed
  BY DEF Inv
<1> QED BY <1>1, Invariance, PTL

\* A node whose wait is open is waiting, so its run has not ended.
LEMMA WaitRuns ==
  ASSUME Inv, NEW n \in Nodes, waits[n] # NoWait
  PROVE  run.status \notin Terminal
<1>1. insts[n].status = "waiting"
  BY DEF Inv, OneOwner, Owned
<1> QED BY <1>1, OpenRuns DEF Active

\* No step changes an ended run: late workers, timers, responses and
\* recoveries find nothing to act on.
Stays == UNCHANGED <<run, insts, attempts, retries, waits, queues, counters, produced>>

\* Step by step.
LEMMA EndedStays ==
  ASSUME Inv, [Next]_vars, run.status \in Terminal
  PROVE  Stays
<1> USE DEF Stays
<1>1. ASSUME NEW w \in Workers, TimerStep(w) PROVE Stays
  <2>1. CASE NoTimerDue(w)
    BY <2>1 DEF NoTimerDue, rows
  <2>2. ASSUME NEW n \in Nodes, NEW i \in 1..MaxAttempts, FireAndRetry(w, n, i) \/ FireAndFail(w, n, i)
        PROVE  FALSE
    <3>1. i \in DOMAIN attempts[n] /\ attempts[n][i].status \in Held
      BY <2>2 DEF FireAndRetry, FireAndFail, DeadlineOf
    <3> QED BY <3>1, HeldRuns DEF Terminal
  <2>3. ASSUME NEW n \in Nodes, WaitFails(w, n) \/ WaitTimesOut(w, n)
        PROVE  FALSE
    BY <2>3, WaitRuns DEF WaitFails, WaitTimesOut, NoWait
  <2> QED
    BY <1>1, <2>1, <2>2, <2>3
       DEF TimerStep, FireRunDeadline, RunDues, ParkRetry, FireRetry, Terminal, Halting
<1>2. ASSUME NEW w \in Workers, RecoverStep(w) PROVE Stays
  BY <1>2 DEF RecoverStep, RecoverNothing, RecoverExhausted, RecoverAttempt, FirstExpired,
              Expired, Terminal
<1>3. ASSUME NEW w \in Workers, ClaimStep(w) PROVE Stays
  BY <1>3 DEF ClaimStep, ClaimNothing, ClaimAttempt, ClaimNoop, ClaimDispatch, Claim, Claimable,
              rows, Terminal
<1>4. ASSUME NEW w \in Workers, ExecuteStep(w) PROVE Stays
  <2>1. ~MarkRunning(w)
    BY WorkerTypes, HeldRuns DEF MarkRunning, Owns, Held, Terminal, Inv
  <2>2. ~Finalizes(w)
    BY DEF Finalizes, Accepts, Terminal
  <2> QED
    BY <1>4, <2>1, <2>2
       DEF ExecuteStep, MarkRejected, FinalizeRejected, FinalizeFailed, FinalizeReconcile,
           FinalizeCompleted, FinalizeWaiting, rows
<1>5. ASSUME NEW w \in Workers, ActivateStep(w) PROVE Stays
  BY <1>5 DEF ActivateStep, ActivateSkipped, ActivateDropped, ActivateNotReady, ActivateOverLimit,
              ActivateReady, ActivateInvalid, Consumes, Activatable, Activating, Terminal
<1>6. ASSUME NEW w \in Workers, SettleStep(w) PROVE Stays
  BY <1>6 DEF SettleStep, SettleLate, SettleWaiting, SettleBusy, SettleMissing, SettleCompleted,
              Finished, OnTime, Settles, Terminal
<1>7. CASE Interrupt \/ Resume \/ Cancel \/ \E n \in Nodes : SubmitResponse(n)
  <2>1. \A n \in Nodes : ~SubmitResponse(n)
    BY WaitRuns DEF SubmitResponse, NoWait
  <2> QED BY <1>7, <2>1 DEF Interrupt, Resume, Cancel, Terminal
<1>8. CASE Tick \/ UNCHANGED vars \/ \E w \in Workers : Crash(w)
  BY <1>8 DEF Tick, Crash, vars, rows
<1> QED BY <1>1, <1>2, <1>3, <1>4, <1>5, <1>6, <1>7, <1>8 DEF Next, WorkerStep

\* An ended run is final: after completed, failed or cancelled nothing of the
\* run changes any more, whoever still acts on it.
THEOREM EndedRunIsFinal == Spec => TerminalIsFinal
<1>1. Inv /\ [Next]_vars => [run.status \in Terminal => Stays]_vars
  BY EndedStays
<1> QED BY <1>1, Invariance, PTL DEF Spec, TerminalIsFinal, Stays

\* What a step of a halted run may do to the nodes.
StartsNothing ==
    \A n \in Nodes :
      /\ insts'[n].seq = insts[n].seq
      /\ \A i \in DOMAIN attempts[n] :
           attempts'[n][i].status = "leased" => attempts[n][i].status = "leased"

\* Ending the run starts nothing.
LEMMA EndRunStartsNothing ==
  ASSUME Inv, NEW status, NEW I \in [Nodes -> InstRows], NEW C,
         \A n \in Nodes : I[n].seq = insts[n].seq,
         NEW A \in [Nodes -> Seq(AttemptRows)],
         \A n \in Nodes : DOMAIN A[n] = DOMAIN attempts[n],
         EndRun(status, I, A, C)
  PROVE  StartsNothing
<1>1. ASSUME NEW n \in Nodes PROVE insts'[n].seq = insts[n].seq
  BY DEF EndRun, Closed, InstRows
<1>2. ASSUME NEW n \in Nodes, NEW i \in DOMAIN attempts[n] PROVE attempts'[n][i].status # "leased"
  <2>1. attempts'[n][i] = IF A[n][i].status \in Unsettled THEN Ended(A[n][i], "cancelled") ELSE A[n][i]
    BY DEF EndRun
  <2>2. A[n][i] \in AttemptRows
    BY LenProperties, ElementOfSeq
  <2>3. Ended(A[n][i], "cancelled").status = "cancelled"
    BY <2>2 DEF Ended, AttemptRows
  <2> QED BY <2>1, <2>3 DEF Unsettled, Held
<1> QED BY <1>1, <1>2 DEF StartsNothing

\* Leaving a node quiet, or with a new attempt after quiet ones, starts nothing.
LEMMA QuietStartsNothing ==
  ASSUME Inv, NEW n \in Nodes, NEW A \in Seq(AttemptRows), Quiet(A),
         DOMAIN A = DOMAIN attempts[n], NEW st, NEW x \in AttemptRows,
         insts' = [insts EXCEPT ![n].status = st],
         \/ attempts' = [attempts EXCEPT ![n] = A]
         \/ attempts' = [attempts EXCEPT ![n] = Append(A, x)]
  PROVE  StartsNothing
<1>1. insts \in [Nodes -> InstRows] /\ attempts \in [Nodes -> Seq(AttemptRows)]
  BY DEF Inv, TypeOK
<1>2. \A m \in Nodes : insts'[m].seq = insts[m].seq
  BY <1>1 DEF InstRows
<1>3. \A m \in Nodes \ {n} : attempts'[m] = attempts[m]
  BY <1>1
<1>4. \A i \in DOMAIN A : Append(A, x)[i] = A[i]
  OBVIOUS
<1>5. \A i \in DOMAIN attempts[n] : attempts'[n][i] = A[i]
  BY <1>1, <1>4
<1>6. \A i \in DOMAIN attempts[n] : attempts'[n][i].status # "leased"
  BY <1>5 DEF Quiet, Held
<1> QED BY <1>2, <1>3, <1>6 DEF StartsNothing

\* A held attempt that ends starts nothing, whether or not another follows.
LEMMA EndedStartsNothing ==
  ASSUME Inv, NEW n \in Nodes, NEW i \in DOMAIN attempts[n], attempts[n][i].status \in Held,
         NEW s \in {"waiting", "completed", "failed", "timed_out"},
         NEW st, NEW x \in AttemptRows,
         insts' = [insts EXCEPT ![n].status = st],
         \/ attempts' = [attempts EXCEPT ![n][i] = Ended(attempts[n][i], s)]
         \/ s = "failed" /\ attempts' = Replaced(n, i, x)
  PROVE  StartsNothing
<1> DEFINE A == [attempts[n] EXCEPT ![i] = Ended(attempts[n][i], s)]
<1>1. /\ Quiet(A) /\ A \in Seq(AttemptRows) /\ DOMAIN A = DOMAIN attempts[n]
      /\ [attempts EXCEPT ![n][i] = Ended(attempts[n][i], s)] = [attempts EXCEPT ![n] = A]
  BY HeldEnds
<1>2. s = "failed" => Replaced(n, i, x) = [attempts EXCEPT ![n] = Append(A, x)]
  BY DEF Replaced
<1> HIDE DEF A
<1> QED BY <1>1, <1>2, QuietStartsNothing

\* A node whose wait is over has nothing leased.
LEMMA ResumeStartsNothing ==
  ASSUME Inv, NEW n \in Nodes, waits[n] # NoWait, ResumeAttempt(n)
  PROVE  StartsNothing
<1> DEFINE x == NewAttempt("resume", attempts[n][waits[n].no].ordinal, run.epoch)
<1>1. Owned(insts[n].status, attempts[n], retries[n], waits[n]) /\ attempts[n] \in Seq(AttemptRows)
  BY RowTypes DEF Inv, OneOwner
<1>2. insts[n].status = "waiting" /\ waits[n].no \in DOMAIN attempts[n]
  BY <1>1 DEF Owned
<1>3. Quiet(attempts[n])
  BY <1>1, <1>2, OwnedIsQuiet
<1>4. x \in AttemptRows
  BY <1>2, NewIsQueued, RowTypes, RunTypes DEF Inv
<1>5. attempts' = [attempts EXCEPT ![n] = Append(attempts[n], x)]
      /\ insts' = [insts EXCEPT ![n].status = "ready"]
  BY DEF ResumeAttempt
<1> HIDE DEF x
<1> QED BY <1>1, <1>3, <1>4, <1>5, QuietStartsNothing

\* Between an interrupt and the resume no attempt starts and no input is taken.
THEOREM HaltedRunStartsNothing == Spec => HaltedStartsNothing
<1>1. ASSUME Inv, [Next]_vars, run.status \in Halting PROVE StartsNothing
  <2> USE <1>1
  <2>1. ASSUME UNCHANGED <<insts, attempts>> PROVE StartsNothing
    BY <2>1 DEF StartsNothing
  <2>2. insts \in [Nodes -> InstRows] /\ attempts \in [Nodes -> Seq(AttemptRows)]
    BY DEF Inv, TypeOK
  <2>3. NewAttempt("start", 0, 0) \in AttemptRows
    BY NewIsQueued
  <2>4. ASSUME NEW C, NEW status, EndRun(status, insts, attempts, C) PROVE StartsNothing
    BY <2>2, <2>4, EndRunStartsNothing
  <2>5. ASSUME NEW n \in Nodes, NEW i \in DOMAIN attempts[n], NEW s \in {"failed", "timed_out"},
               NEW C, NEW status,
               EndRun(status, [insts EXCEPT ![n].status = "failed"],
                      [attempts EXCEPT ![n][i] = Ended(attempts[n][i], s)], C)
        PROVE  StartsNothing
    <3> DEFINE A == [attempts EXCEPT ![n][i] = Ended(attempts[n][i], s)]
               I == [insts EXCEPT ![n].status = "failed"]
    <3>1. A \in [Nodes -> Seq(AttemptRows)]
      BY <2>2, RowTypes, AttemptTypes, PutType DEF Inv
    <3>2. \A m \in Nodes : DOMAIN A[m] = DOMAIN attempts[m]
      BY <2>2
    <3>3. I \in [Nodes -> InstRows] /\ \A m \in Nodes : I[m].seq = insts[m].seq
      BY <2>2 DEF InstRows
    <3>4. EndRun(status, I, A, C)
      BY <2>5
    <3> HIDE DEF A, I
    <3> QED BY <3>1, <3>2, <3>3, <3>4, EndRunStartsNothing
  <2>6. ASSUME NEW w \in Workers, TimerStep(w) PROVE StartsNothing
    <3>1. CASE NoTimerDue(w)
      BY <2>1, <3>1 DEF NoTimerDue, rows
    <3>2. CASE FireRunDeadline(w)
      BY <2>4, <3>2 DEF FireRunDeadline
    <3>3. ASSUME NEW n \in Nodes, NEW i \in 1..MaxAttempts, FireAndRetry(w, n, i)
          PROVE  StartsNothing
      BY <2>3, <3>3, EndedStartsNothing DEF FireAndRetry, DeadlineOf, TimedOut
    <3>4. ASSUME NEW n \in Nodes, NEW i \in 1..MaxAttempts, FireAndFail(w, n, i)
          PROVE  StartsNothing
      BY <2>5, <3>4 DEF FireAndFail, DeadlineOf, TimedOut
    <3>5. ASSUME NEW n \in Nodes, NEW r \in retries[n], ParkRetry(w, n, r) \/ FireRetry(w, n, r)
          PROVE  StartsNothing
      BY <2>1, <3>5 DEF ParkRetry, FireRetry, Halting
    <3>6. ASSUME NEW n \in Nodes, WaitFails(w, n) PROVE StartsNothing
      <4>1. waits[n].no \in DOMAIN attempts[n]
        BY <3>6 DEF WaitFails, NoWait, Inv, OneOwner, Owned
      <4> QED BY <2>5, <3>6, <4>1 DEF WaitFails
    <3>7. ASSUME NEW n \in Nodes, WaitTimesOut(w, n) PROVE StartsNothing
      BY <3>7, ResumeStartsNothing DEF WaitTimesOut, NoWait
    <3> QED BY <2>6, <3>1, <3>2, <3>3, <3>4, <3>5, <3>6, <3>7 DEF TimerStep
  <2>7. ASSUME NEW w \in Workers, RecoverStep(w) PROVE StartsNothing
    <3>1. CASE RecoverNothing(w)
      BY <2>1, <3>1 DEF RecoverNothing
    <3>2. ASSUME NEW n \in Nodes, NEW i \in 1..MaxAttempts, RecoverExhausted(w, n, i)
          PROVE  StartsNothing
      BY <2>4, <3>2 DEF RecoverExhausted
    <3>3. ASSUME NEW n \in Nodes, NEW i \in 1..MaxAttempts, RecoverAttempt(w, n, i)
          PROVE  StartsNothing
      <4>1. i \in DOMAIN attempts[n] /\ attempts[n][i].status \in Held
        BY <3>3 DEF RecoverAttempt, FirstExpired, Expired
      <4>2. NewAttempt("retry", attempts[n][i].ordinal + 1, run.epoch) \in AttemptRows
        <5>1. attempts[n][i].ordinal \in Nat /\ run.epoch \in Nat
          BY <4>1, RowTypes, RunTypes DEF Inv, AttemptRows
        <5>2. attempts[n][i].ordinal + 1 \in Nat
          BY <5>1
        <5> QED BY <5>1, <5>2, NewIsQueued
      <4> QED BY <3>3, <4>1, <4>2, EndedStartsNothing DEF RecoverAttempt
    <3> QED BY <2>7, <3>1, <3>2, <3>3 DEF RecoverStep
  <2>8. ASSUME NEW w \in Workers, ClaimStep(w) PROVE StartsNothing
    BY <2>1, <2>8 DEF ClaimStep, ClaimNothing, ClaimAttempt, ClaimNoop, ClaimDispatch, Claim,
                      Claimable, rows, Halting
  <2>9. ASSUME NEW w \in Workers, ExecuteStep(w) PROVE StartsNothing
    <3>1. Finalizes(w) => /\ Node(w) \in Nodes /\ workers[w].no \in DOMAIN attempts[Node(w)]
                          /\ attempts[Node(w)][workers[w].no].status \in Held
      BY FinalizesHeld
    <3>2. CASE MarkRunning(w)
      <4>1. /\ insts' = [insts EXCEPT ![Node(w)].status = "running"]
            /\ attempts' = [attempts EXCEPT ![Node(w)][workers[w].no].status = "running"]
        BY <3>2 DEF MarkRunning
      <4>2. \A n \in Nodes : insts'[n].seq = insts[n].seq
        BY <2>2, <4>1 DEF InstRows
      <4>3. ASSUME NEW n \in Nodes, NEW i \in DOMAIN attempts[n],
                   ~(n = Node(w) /\ i = workers[w].no)
            PROVE  attempts'[n][i] = attempts[n][i]
        BY <2>2, <4>1, <4>3
      <4>4. workers[w].no \in DOMAIN attempts[Node(w)] /\ Node(w) \in Nodes
            /\ attempts[Node(w)][workers[w].no].status = "leased"
        BY <3>2, WorkerTypes DEF MarkRunning, Owns, Inv
      <4> QED BY <4>2, <4>3, <4>4 DEF StartsNothing
    <3>3. CASE MarkRejected(w) \/ FinalizeRejected(w)
      BY <2>1, <3>3 DEF MarkRejected, FinalizeRejected, rows
    <3>4. CASE FinalizeFailed(w)
      BY <2>5, <3>1, <3>4 DEF FinalizeFailed, Settling
    <3>5. CASE FinalizeReconcile(w)
      <4>1. NewAttempt("reconcile", 0, workers[w].epoch) \in AttemptRows
        BY NewIsQueued, WorkerTypes DEF Inv
      <4> QED BY <3>1, <3>5, <4>1, EndedStartsNothing DEF FinalizeReconcile
    <3>6. ASSUME NEW order, FinalizeCompleted(w, order) PROVE StartsNothing
      BY <2>3, <3>1, <3>6, EndedStartsNothing DEF FinalizeCompleted, Settling
    <3>7. ASSUME NEW kind, NEW due, NEW onTimeout, FinalizeWaiting(w, kind, due, onTimeout)
          PROVE  StartsNothing
      BY <2>3, <3>1, <3>7, EndedStartsNothing DEF FinalizeWaiting, Settling
    <3> QED BY <2>9, <3>2, <3>3, <3>4, <3>5, <3>6, <3>7 DEF ExecuteStep
  <2>10. ASSUME NEW w \in Workers, ActivateStep(w) PROVE StartsNothing
    BY <2>1, <2>10 DEF ActivateStep, ActivateSkipped, ActivateDropped, ActivateNotReady,
         ActivateOverLimit, ActivateReady, ActivateInvalid, Consumes, Activatable, Halting
  <2>11. ASSUME NEW w \in Workers, SettleStep(w) PROVE StartsNothing
    BY <2>1, <2>11 DEF SettleStep, SettleLate, SettleWaiting, SettleBusy, SettleMissing,
         SettleCompleted, Finished, OnTime, Halting
  <2>12. CASE Interrupt \/ Resume \/ Cancel
    BY <2>1, <2>4, <2>12 DEF Interrupt, Resume, Cancel, Controls
  <2>13. ASSUME NEW n \in Nodes, SubmitResponse(n) PROVE StartsNothing
    BY <2>13, ResumeStartsNothing DEF SubmitResponse, NoWait
  <2>14. CASE Tick \/ UNCHANGED vars \/ \E w \in Workers : Crash(w)
    BY <2>1, <2>14 DEF Tick, Crash, vars, rows
  <2> QED
    BY <2>6, <2>7, <2>8, <2>9, <2>10, <2>11, <2>12, <2>13, <2>14 DEF Next, WorkerStep
<1>2. Inv /\ [Next]_vars => [run.status \in Halting => StartsNothing]_vars
  BY <1>1
<1>3. HaltedStartsNothing <=> [][run.status \in Halting => StartsNothing]_vars
  BY PTL DEF HaltedStartsNothing, StartsNothing
<1> QED BY <1>2, <1>3, Invariance, PTL DEF Spec

-------------------------------------------------------------------------------
(***************************************************************************)
(* Counting rows.                                                          *)
(***************************************************************************)
\* the rows the counters summarise
PendingRows(q) == UNION {{e} \X DOMAIN q[e] : e \in Edges}
OpenRows(W)    == {n \in Nodes : W[n].kind # "none"}

\* A place of a queue is an edge and a position.
LEMMA PendingMember ==
  ASSUME NEW q, NEW p
  PROVE  p \in PendingRows(q) <=> \E e \in Edges : \E i \in DOMAIN q[e] : p = <<e, i>>
BY DEF PendingRows

\* Queues hold finitely many values.
LEMMA PendingFinite ==
  ASSUME NEW q \in [Edges -> Seq(Nat)]
  PROVE  IsFiniteSet(PendingRows(q)) /\ Cardinality(PendingRows(q)) \in Nat
<1> DEFINE Rows == {{e} \X DOMAIN q[e] : e \in Edges}
           f == [e \in Edges |-> {e} \X DOMAIN q[e]]
<1>1. ASSUME NEW e \in Edges PROVE IsFiniteSet({e} \X DOMAIN q[e])
  <2>1. DOMAIN q[e] = 1..Len(q[e]) /\ Len(q[e]) \in Nat
    BY LenProperties
  <2>2. IsFiniteSet(DOMAIN q[e])
    BY <2>1, FS_Interval
  <2>3. IsFiniteSet({e})
    BY FS_Singleton
  <2> QED BY <2>2, <2>3, FS_Product
<1>2. f \in Surjection(Edges, Rows)
  BY DEF Surjection
<1>3. IsFiniteSet(Rows)
  <2> HIDE DEF f, Rows
  <2> QED BY <1>2, GraphAssumption, FS_Surjection
<1>4. IsFiniteSet(UNION Rows)
  BY <1>1, <1>3, FS_UNION
<1> QED BY <1>4, FS_CardinalityType DEF PendingRows

\* A completed node adds as many values as its emission has edges.
LEMMA FilledCount ==
  ASSUME Inv, NEW n \in Nodes, NEW order \in Emissions(n)
  PROVE  Cardinality(PendingRows(Filled(order))) = Cardinality(PendingRows(queues)) + Len(order)
<1> DEFINE place(i) == <<order[i], Len(queues[order[i]]) + 1>>
           Added == {place(i) : i \in DOMAIN order}
           f == [i \in 1..Len(order) |-> place(i)]
<1>1. /\ Len(order) \in Nat /\ DOMAIN order = 1..Len(order)
      /\ \A i \in DOMAIN order : order[i] \in Edges
      /\ \A i, j \in DOMAIN order : i # j => order[i] # order[j]
  BY EmissionFacts DEF OutEdges
<1>2. queues \in [Edges -> Seq(Nat)]
  BY DEF Inv, TypeOK
<1>3. \A e \in Edges : DOMAIN queues[e] = 1..Len(queues[e]) /\ Len(queues[e]) \in Nat
  BY <1>2, LenProperties
<1>4. IsFiniteSet(Added) /\ Cardinality(Added) = Len(order)
  <2>1. f \in Bijection(1..Len(order), Added)
    BY <1>1 DEF Bijection, Injection, Surjection, IsInjective
  <2>2. ExistsBijection(1..Len(order), Added)
    BY <2>1 DEF ExistsBijection
  <2>3. IsFiniteSet(1..Len(order)) /\ Cardinality(1..Len(order)) = Len(order)
    BY <1>1, FS_Interval
  <2> HIDE DEF Added
  <2> QED BY <2>2, <2>3, FS_Bijection
<1>5. Added \cap PendingRows(queues) = {}
  <2>1. ASSUME NEW i \in DOMAIN order, NEW e \in Edges, NEW j \in DOMAIN queues[e]
        PROVE  place(i) # <<e, j>>
    BY <1>1, <1>3
  <2> QED BY <2>1, PendingMember
<1>6. ASSUME NEW e \in Edges
      PROVE  /\ (\A h \in DOMAIN order : order[h] # e)
                   => DOMAIN Filled(order)[e] = DOMAIN queues[e]
             /\ (\E h \in DOMAIN order : order[h] = e)
                   => DOMAIN Filled(order)[e] = DOMAIN queues[e] \cup {Len(queues[e]) + 1}
  <2>1. CASE \A i \in DOMAIN order : order[i] # e
    BY <2>1, FilledFacts
  <2>2. ASSUME NEW i \in DOMAIN order, order[i] = e
        PROVE  DOMAIN Filled(order)[e] = DOMAIN queues[e] \cup {Len(queues[e]) + 1}
    <3>1. Filled(order)[e] = Append(queues[e], counters.enqueue + i - 1)
      BY <2>2, FilledFacts
    <3>2. counters.enqueue + i - 1 \in Nat
      BY <1>1, CounterTypes DEF Inv
    <3>3. DOMAIN Filled(order)[e] = 1..(Len(queues[e]) + 1)
      BY <1>2, <3>1, <3>2, AppendProperties
    <3> QED BY <1>3, <3>3
  <2> QED BY <2>1, <2>2
<1>7. PendingRows(Filled(order)) = PendingRows(queues) \cup Added
  <2>1. ASSUME NEW p
        PROVE  p \in PendingRows(Filled(order)) <=> p \in PendingRows(queues) \cup Added
    <3>1. p \in Added <=> \E e \in Edges : /\ \E i \in DOMAIN order : order[i] = e
                                           /\ p = <<e, Len(queues[e]) + 1>>
      BY <1>1
    <3>2. p \in PendingRows(queues) <=> \E e \in Edges : \E i \in DOMAIN queues[e] : p = <<e, i>>
      BY PendingMember
    <3>3. p \in PendingRows(Filled(order)) <=>
            \E e \in Edges : \E i \in DOMAIN Filled(order)[e] : p = <<e, i>>
      BY PendingMember
    <3> HIDE DEF Added
    <3>4. ASSUME p \in PendingRows(Filled(order)) PROVE p \in PendingRows(queues) \/ p \in Added
      <4>1. PICK e \in Edges : \E i \in DOMAIN Filled(order)[e] : p = <<e, i>>
        BY <3>3, <3>4
      <4>2. PICK i \in DOMAIN Filled(order)[e] : p = <<e, i>>
        BY <4>1
      <4>3. CASE i \in DOMAIN queues[e]
        BY <3>2, <4>2, <4>3
      <4>4. CASE i \notin DOMAIN queues[e]
        <5>1. \E h \in DOMAIN order : order[h] = e
          BY <1>6, <4>2, <4>4
        <5>2. i = Len(queues[e]) + 1
          BY <1>6, <4>2, <4>4, <5>1
        <5> QED BY <3>1, <4>2, <5>1, <5>2
      <4> QED BY <4>3, <4>4
    <3>5. \A e \in Edges : DOMAIN queues[e] \subseteq DOMAIN Filled(order)[e]
      BY <1>6
    <3>6. p \in PendingRows(queues) => p \in PendingRows(Filled(order))
      BY <3>2, <3>3, <3>5
    <3>7. \A e \in Edges : (\E i \in DOMAIN order : order[i] = e) => Len(queues[e]) + 1 \in DOMAIN Filled(order)[e]
      BY <1>6
    <3>8. p \in Added => p \in PendingRows(Filled(order))
      BY <3>1, <3>3, <3>7
    <3> QED BY <3>4, <3>6, <3>8
  <2> HIDE DEF Added
  <2> QED BY <2>1
<1> HIDE DEF Added
<1>8. IsFiniteSet(PendingRows(queues)) /\ Cardinality(PendingRows(queues)) \in Nat
  BY <1>2, PendingFinite
<1>9. PendingRows(queues) \cap Added = {}
  BY <1>5
<1>10. Cardinality(PendingRows(queues) \cup Added) =
          Cardinality(PendingRows(queues)) + Cardinality(Added)
            - Cardinality(PendingRows(queues) \cap Added)
  BY <1>4, <1>8, FS_Union
<1>11. Cardinality(PendingRows(queues) \cap Added) = 0
  BY <1>9, FS_EmptySet
<1> QED BY <1>1, <1>4, <1>7, <1>8, <1>10, <1>11

\* An activation takes one value from each edge it takes from.
LEMMA TakenCount ==
  ASSUME Inv, NEW n \in Nodes
  PROVE  Cardinality(PendingRows(Taken(n))) = Cardinality(PendingRows(queues)) - Cardinality(Heads(n))
<1> DEFINE Gone == {<<e, Len(queues[e])>> : e \in Heads(n)}
           f == [e \in Heads(n) |-> <<e, Len(queues[e])>>]
<1>1. queues \in [Edges -> Seq(Nat)] /\ Taken(n) \in [Edges -> Seq(Nat)]
  BY ConsumeTypes DEF Inv, TypeOK
<1>2. \A e \in Edges : DOMAIN queues[e] = 1..Len(queues[e]) /\ Len(queues[e]) \in Nat
  BY <1>1, LenProperties
<1>3. \A e \in Heads(n) : e \in Edges /\ Len(queues[e]) # 0
  <2>1. \A e \in Heads(n) : e \in Edges /\ queues[e] # <<>>
    BY DEF Heads, InEdges
  <2> QED BY <1>1, <2>1, EmptySeq
<1>4. IsFiniteSet(Gone) /\ Cardinality(Gone) = Cardinality(Heads(n))
  <2>1. f \in Bijection(Heads(n), Gone)
    BY DEF Bijection, Injection, Surjection, IsInjective
  <2>2. ExistsBijection(Heads(n), Gone)
    BY <2>1 DEF ExistsBijection
  <2>3. IsFiniteSet(Heads(n))
    BY <1>3, GraphAssumption, FS_Subset
  <2> HIDE DEF Gone
  <2> QED BY <2>2, <2>3, FS_Bijection
<1>5. ASSUME NEW e \in Edges
      PROVE  DOMAIN Taken(n)[e] = IF e \in Heads(n) THEN DOMAIN queues[e] \ {Len(queues[e])}
                                                    ELSE DOMAIN queues[e]
  <2>1. CASE e \in Heads(n)
    <3>1. queues[e] # <<>> /\ queues[e] \in Seq(Nat) /\ Taken(n)[e] = Tail(queues[e])
      BY <1>1, <2>1 DEF Taken, Heads, InEdges
    <3>2. Len(Taken(n)[e]) = Len(queues[e]) - 1 /\ Taken(n)[e] \in Seq(Nat)
      BY <3>1, HeadTailProperties
    <3>3. DOMAIN Taken(n)[e] = 1..(Len(queues[e]) - 1)
      BY <3>2, LenProperties
    <3> QED BY <1>2, <2>1, <3>3
  <2>2. CASE e \notin Heads(n)
    BY <2>2 DEF Taken
  <2> QED BY <2>1, <2>2
<1>6. PendingRows(Taken(n)) = PendingRows(queues) \ Gone
  <2>1. ASSUME NEW p
        PROVE  p \in PendingRows(Taken(n)) <=> p \in PendingRows(queues) /\ p \notin Gone
    <3>1. p \in Gone <=> \E e \in Heads(n) : p = <<e, Len(queues[e])>>
      OBVIOUS
    <3>2. p \in PendingRows(queues) <=> \E e \in Edges : \E i \in DOMAIN queues[e] : p = <<e, i>>
      BY PendingMember
    <3>3. p \in PendingRows(Taken(n)) <=>
            \E e \in Edges : \E i \in DOMAIN Taken(n)[e] : p = <<e, i>>
      BY PendingMember
    <3> HIDE DEF Gone
    <3>4. ASSUME p \in PendingRows(Taken(n)) PROVE p \in PendingRows(queues) /\ p \notin Gone
      <4>1. PICK e \in Edges : \E i \in DOMAIN Taken(n)[e] : p = <<e, i>>
        BY <3>3, <3>4
      <4>2. PICK i \in DOMAIN Taken(n)[e] : p = <<e, i>>
        BY <4>1
      <4>3. i \in DOMAIN queues[e] /\ (e \in Heads(n) => i # Len(queues[e]))
        BY <1>5, <4>2
      <4>4. \A d \in Heads(n) : p = <<d, Len(queues[d])>> => d = e /\ i = Len(queues[e])
        BY <4>2
      <4> QED BY <3>1, <3>2, <4>2, <4>3, <4>4
    <3>5. p \in PendingRows(queues) /\ p \notin Gone => p \in PendingRows(Taken(n))
      BY <1>3, <1>5, <3>1, <3>2, <3>3
    <3> QED BY <3>4, <3>5
  <2> HIDE DEF Gone
  <2> QED BY <2>1
<1>7. Gone \subseteq PendingRows(queues)
  <2>1. ASSUME NEW e \in Heads(n) PROVE <<e, Len(queues[e])>> \in PendingRows(queues)
    BY <1>2, <1>3, PendingMember
  <2> QED BY <2>1
<1> HIDE DEF Gone
<1>8. PendingRows(queues) \cap Gone = Gone
  BY <1>7
<1>9. IsFiniteSet(PendingRows(queues))
  BY <1>1, PendingFinite
<1>10. Cardinality(PendingRows(queues) \ Gone) =
         Cardinality(PendingRows(queues)) - Cardinality(PendingRows(queues) \cap Gone)
  BY <1>9, FS_Difference
<1> QED BY <1>4, <1>6, <1>8, <1>10

\* Opening a wait of a node that had none, and ending it.
LEMMA OpenCount ==
  ASSUME NEW W \in [Nodes -> WaitRows], NEW n \in Nodes, NEW x \in WaitRows
  PROVE  LET V == [W EXCEPT ![n] = x] IN
         /\ W[n].kind = "none" /\ x.kind # "none"
              => Cardinality(OpenRows(V)) = Cardinality(OpenRows(W)) + 1
         /\ W[n].kind # "none" /\ x.kind = "none"
              => Cardinality(OpenRows(V)) = Cardinality(OpenRows(W)) - 1
<1> DEFINE V == [W EXCEPT ![n] = x]
<1>1. IsFiniteSet(OpenRows(W))
  BY GraphAssumption, FS_Subset DEF OpenRows
<1>2. ASSUME W[n].kind = "none", x.kind # "none"
      PROVE  OpenRows(V) = OpenRows(W) \cup {n} /\ n \notin OpenRows(W)
  BY <1>2 DEF OpenRows
<1>3. ASSUME W[n].kind # "none", x.kind = "none"
      PROVE  OpenRows(V) = OpenRows(W) \ {n} /\ n \in OpenRows(W)
  BY <1>3 DEF OpenRows
<1> HIDE DEF V
<1>4. W[n].kind = "none" /\ x.kind # "none" => Cardinality(OpenRows(V)) = Cardinality(OpenRows(W)) + 1
  BY <1>1, <1>2, FS_AddElement
<1>5. W[n].kind # "none" /\ x.kind = "none" => Cardinality(OpenRows(V)) = Cardinality(OpenRows(W)) - 1
  BY <1>1, <1>3, FS_RemoveElement
<1> QED BY <1>4, <1>5 DEF V

-------------------------------------------------------------------------------
(***************************************************************************)
(* What the kinds of steps leave to show.                                  *)
(***************************************************************************)
\* A step that moves no value and opens or ends no wait.
LEMMA NothingCounted ==
  ASSUME CountersMatchProjection, UNCHANGED <<queues, waits>>,
         counters'.pending = counters.pending, counters'.openWaits = counters.openWaits
  PROVE  CountersMatchProjection'
BY DEF CountersMatchProjection

\* A step that leaves a waiting run as it is, and does not make it wait.
LEMMA StaysQuiescent ==
  ASSUME WaitingIsQuiescent,
         run'.status = "waiting" =>
           run.status = "waiting" /\ wakeups' = {} /\ UNCHANGED <<insts, retries, waits>>
  PROVE  WaitingIsQuiescent'
BY DEF WaitingIsQuiescent, HasStatus, Pledges

\* The common end of both.
LEMMA NothingProjected ==
  ASSUME ProjectionIsSound, UNCHANGED <<queues, waits>>,
         counters'.pending = counters.pending, counters'.openWaits = counters.openWaits,
         run'.status = "waiting" =>
           run.status = "waiting" /\ wakeups' = {} /\ UNCHANGED <<insts, retries>>
  PROVE  ProjectionIsSound'
<1>1. CountersMatchProjection /\ WaitingIsQuiescent
  BY DEF ProjectionIsSound
<1>2. CountersMatchProjection'
  BY <1>1, NothingCounted
<1>3. WaitingIsQuiescent'
  BY <1>1, StaysQuiescent
<1> QED BY <1>2, <1>3 DEF ProjectionIsSound

\* A waiting run has no wakeup, and no attempt that is queued or held.
LEMMA WaitingIsIdle ==
  ASSUME Inv, ProjectionIsSound, run.status = "waiting"
  PROVE  /\ wakeups = {}
         /\ \A n \in Nodes : \A i \in DOMAIN attempts[n] : attempts[n][i].status \notin Held
<1>1. wakeups = {}
  BY DEF ProjectionIsSound, WaitingIsQuiescent
<1>2. ASSUME NEW n \in Nodes, NEW i \in DOMAIN attempts[n], attempts[n][i].status \in Held
      PROVE  FALSE
  BY <1>2, HeldRuns
<1> QED BY <1>1, <1>2

\* A restarted run does not wait, and a drained one does if it did.
LEMMA NextStatus ==
  ASSUME Inv
  PROVE  /\ Restarted.status # "waiting"
         /\ \A A : Drained(A).status = "waiting" => run.status = "waiting"
BY DEF Inv, TypeOK, RunRows, Restarted, Drained

\* The end of a run: nothing is open any more, and the values left in the
\* queues stay counted.
LEMMA EndProjected ==
  ASSUME NEW status \in Terminal, NEW I, NEW A, NEW C \in CounterRows,
         EndRun(status, I, A, C), C.pending = Cardinality(PendingRows(queues'))
  PROVE  ProjectionIsSound'
<1>1. counters'.pending = Cardinality(PendingRows(queues')) /\ counters'.openWaits = 0
  BY DEF EndRun, CounterRows
<1>2. {n \in Nodes : waits'[n].kind # "none"} = {}
  BY DEF EndRun, NoWait
<1>3. CountersMatchProjection'
  BY <1>1, <1>2, FS_EmptySet DEF CountersMatchProjection, PendingRows
<1>4. run'.status # "waiting"
  BY DEF EndRun, Terminal
<1> QED BY <1>3, <1>4 DEF ProjectionIsSound, WaitingIsQuiescent

\* The end of the run by a step that leaves the counters and the queues alone.
LEMMA EndsProjected ==
  ASSUME Inv, ProjectionIsSound, NEW status \in Terminal, NEW I, NEW A,
         EndRun(status, I, A, counters), queues' = queues
  PROVE  ProjectionIsSound'
<1>1. counters \in CounterRows
  BY DEF Inv, TypeOK
<1>2. counters.pending = Cardinality(PendingRows(queues'))
  BY DEF ProjectionIsSound, CountersMatchProjection, PendingRows
<1> QED BY <1>1, <1>2, EndProjected

\* An answered wait is one open wait less.
LEMMA ResumeProjected ==
  ASSUME Inv, ProjectionIsSound, NEW n \in Nodes, waits[n] # NoWait, ResumeAttempt(n),
         queues' = queues
  PROVE  ProjectionIsSound'
<1>1. waits \in [Nodes -> WaitRows] /\ NoWait \in WaitRows /\ counters \in CounterRows
  BY DEF Inv, TypeOK, NoWait, WaitRows
<1>2. waits[n].kind # "none" /\ NoWait.kind = "none"
  BY DEF Inv, OneOwner, Owned, NoWait
<1>3. Cardinality(OpenRows(waits')) = Cardinality(OpenRows(waits)) - 1
  BY <1>1, <1>2, OpenCount DEF ResumeAttempt
<1>4. counters'.pending = counters.pending /\ counters'.openWaits = counters.openWaits - 1
  BY <1>1 DEF ResumeAttempt, Answered, CounterRows
<1>5. CountersMatchProjection'
  BY <1>3, <1>4 DEF ProjectionIsSound, CountersMatchProjection, OpenRows
<1>6. run'.status # "waiting"
  BY NextStatus DEF ResumeAttempt
<1> QED BY <1>5, <1>6 DEF ProjectionIsSound, WaitingIsQuiescent

-------------------------------------------------------------------------------
(***************************************************************************)
(* The steps of a worker.                                                  *)
(***************************************************************************)
\* An attempt timed out and will be retried: the run may wait for the retry.
LEMMA FireAndRetryProjected ==
  ASSUME Inv, ProjectionIsSound, NEW w \in Workers, NEW n \in Nodes, NEW i \in 1..MaxAttempts,
         FireAndRetry(w, n, i)
  PROVE  ProjectionIsSound'
<1>1. i \in DOMAIN attempts[n] /\ attempts[n][i].status \in Held
  BY DEF FireAndRetry, DeadlineOf
<1>2. CountersMatchProjection'
  BY NothingCounted DEF FireAndRetry, ProjectionIsSound
<1>3. ASSUME run'.status = "waiting"
      PROVE  /\ wakeups' = {} /\ ~HasStatus(insts', {"ready", "running"})
             /\ \E m \in Nodes : Pledges(retries'[m]) # {}
  <2>1. run.status # "waiting"
    BY <1>1, HeldRuns
  <2>2. CanIdle(insts', wakeups')
    BY <1>3, <2>1, NextStatus DEF FireAndRetry
  <2>3. \E r \in retries'[n] : r.status = "pending"
    <3> DEFINE r == [ordinal |-> NextOrdinal(n, i), no |-> i + 1,
                     due |-> clock + Backoff, status |-> "pending"]
    <3>1. r.status = "pending"
      OBVIOUS
    <3>2. retries' = [retries EXCEPT ![n] = @ \cup {r}]
      BY DEF FireAndRetry
    <3>3. r \in retries'[n]
      <4> HIDE DEF r
      <4> QED BY <3>2 DEF Inv, TypeOK
    <3> HIDE DEF r
    <3> QED BY <3>1, <3>3
  <2> QED BY <2>2, <2>3 DEF CanIdle, Pledges
<1>4. WaitingIsQuiescent'
  BY <1>3 DEF WaitingIsQuiescent
<1> QED BY <1>2, <1>4 DEF ProjectionIsSound

\* The timers (fire_due, timers.rs).
LEMMA TimerStepProjected ==
  ASSUME Inv, ProjectionIsSound, NEW w \in Workers, TimerStep(w)
  PROVE  ProjectionIsSound'
<1>1. CASE NoTimerDue(w)
  BY <1>1, NothingProjected DEF NoTimerDue, rows, ProjectionIsSound, WaitingIsQuiescent
<1>2. CASE FireRunDeadline(w)
  BY <1>2, EndsProjected DEF FireRunDeadline, Terminal
<1>3. ASSUME NEW n \in Nodes, NEW i \in 1..MaxAttempts, FireAndFail(w, n, i)
      PROVE  ProjectionIsSound'
  BY <1>3, EndsProjected DEF FireAndFail, Terminal
<1>4. ASSUME NEW n \in Nodes, NEW r \in retries[n], ParkRetry(w, n, r)
      PROVE  ProjectionIsSound'
  BY <1>4, NothingProjected DEF ParkRetry, Halting
<1>5. ASSUME NEW n \in Nodes, NEW r \in retries[n], FireRetry(w, n, r)
      PROVE  ProjectionIsSound'
  <2>1. counters'.pending = counters.pending /\ counters'.openWaits = counters.openWaits
    BY <1>5 DEF FireRetry, Inv, TypeOK, CounterRows
  <2>2. run'.status # "waiting"
    BY <1>5, NextStatus DEF FireRetry
  <2> QED BY <1>5, <2>1, <2>2, NothingProjected DEF FireRetry
<1>6. ASSUME NEW n \in Nodes, WaitFails(w, n)
      PROVE  ProjectionIsSound'
  BY <1>6, EndsProjected DEF WaitFails, Terminal
<1>7. ASSUME NEW n \in Nodes, WaitTimesOut(w, n)
      PROVE  ProjectionIsSound'
  BY <1>7, ResumeProjected DEF WaitTimesOut, NoWait
<1> QED BY <1>1, <1>2, <1>3, <1>4, <1>5, <1>6, <1>7, FireAndRetryProjected DEF TimerStep

\* Lease recovery (recovery.rs).
LEMMA RecoverStepProjected ==
  ASSUME Inv, ProjectionIsSound, NEW w \in Workers, RecoverStep(w)
  PROVE  ProjectionIsSound'
<1>1. CASE RecoverNothing(w)
  <2>1. run.status = "waiting" => wakeups' = {}
    BY <1>1, WaitingIsIdle DEF RecoverNothing, Unclaim
  <2> QED BY <1>1, <2>1, NothingProjected DEF RecoverNothing
<1>2. ASSUME NEW n \in Nodes, NEW i \in 1..MaxAttempts, RecoverExhausted(w, n, i)
      PROVE  ProjectionIsSound'
  BY <1>2, EndsProjected DEF RecoverExhausted, Terminal
<1>3. ASSUME NEW n \in Nodes, NEW i \in 1..MaxAttempts, RecoverAttempt(w, n, i)
      PROVE  ProjectionIsSound'
  <2>1. counters'.pending = counters.pending /\ counters'.openWaits = counters.openWaits
    BY <1>3 DEF RecoverAttempt, Inv, TypeOK, CounterRows
  <2>2. run'.status # "waiting"
    BY <1>3, NextStatus DEF RecoverAttempt, FirstExpired, Expired
  <2> QED BY <1>3, <2>1, <2>2, NothingProjected DEF RecoverAttempt
<1> QED BY <1>1, <1>2, <1>3 DEF RecoverStep

\* Claiming touches no counter, and a waiting run has nothing to claim.
LEMMA ClaimStepProjected ==
  ASSUME Inv, ProjectionIsSound, NEW w \in Workers, ClaimStep(w)
  PROVE  ProjectionIsSound'
<1>1. /\ UNCHANGED <<run, insts, retries, waits, queues, counters>>
      /\ wakeups' = wakeups \/ wakeups # {}
  BY DEF ClaimStep, ClaimNothing, ClaimAttempt, ClaimNoop, ClaimDispatch, rows
<1>2. run.status = "waiting" => wakeups = {}
  BY WaitingIsIdle
<1> QED BY <1>1, <1>2, NothingProjected

\* A completed attempt: its values are counted as they enter the queues.
LEMMA FinalizeCompletedProjected ==
  ASSUME Inv, ProjectionIsSound, NEW w \in Workers, NEW order \in Emissions(Node(w)),
         FinalizeCompleted(w, order)
  PROVE  ProjectionIsSound'
<1>1. Node(w) \in Nodes /\ run.status # "waiting"
  BY FinalizesHeld, HeldRuns DEF FinalizeCompleted
<1>2. Cardinality(PendingRows(queues')) = Cardinality(PendingRows(queues)) + Len(order)
  BY <1>1, FilledCount DEF FinalizeCompleted
<1>3. counters'.pending = counters.pending + Len(order) /\ counters'.openWaits = counters.openWaits
  BY DEF FinalizeCompleted, Inv, TypeOK, CounterRows
<1>4. CountersMatchProjection'
  <2>1. waits' = waits
    BY DEF FinalizeCompleted
  <2> QED BY <1>2, <1>3, <2>1 DEF ProjectionIsSound, CountersMatchProjection, PendingRows
<1>5. run'.status # "waiting"
  BY <1>1, NextStatus DEF FinalizeCompleted
<1> QED BY <1>4, <1>5 DEF ProjectionIsSound, WaitingIsQuiescent

\* A wait is opened by a node that had none.
LEMMA FinalizeWaitingProjected ==
  ASSUME Inv, ProjectionIsSound, NEW w \in Workers, NEW kind \in WaitKinds[Node(w)],
         NEW due \in {0, workers[w].now + WaitTime},
         NEW onTimeout \in {"fail", "resume_with_timeout"},
         FinalizeWaiting(w, kind, due, onTimeout)
  PROVE  ProjectionIsSound'
<1> DEFINE n == Node(w)
           x == [kind |-> kind, due |-> due, onTimeout |-> onTimeout, no |-> workers[w].no]
<1>1. n \in Nodes /\ run.status # "waiting" /\ waits[n] = NoWait
  <2>1. n \in Nodes /\ workers[w].no \in DOMAIN attempts[n]
        /\ attempts[n][workers[w].no].status \in Held
    BY FinalizesHeld DEF FinalizeWaiting
  <2> QED BY <2>1, HeldRuns, HeldEnds
<1>2. x \in WaitRows /\ x.kind # "none"
  <2>1. kind \in {"response", "timer"}
    BY <1>1, GraphAssumption
  <2>2. due \in Nat /\ workers[w].no \in Nat
    BY WorkerTypes, LimitAssumption DEF Inv
  <2> QED BY <2>1, <2>2 DEF WaitRows
<1>3. waits \in [Nodes -> WaitRows] /\ waits' = [waits EXCEPT ![n] = x]
  BY DEF FinalizeWaiting, Inv, TypeOK
<1>4. waits[n].kind = "none"
  BY <1>1 DEF NoWait
<1> HIDE DEF x, n
<1>5. Cardinality(OpenRows(waits')) = Cardinality(OpenRows(waits)) + 1
  BY <1>1, <1>2, <1>3, <1>4, OpenCount
<1>6. counters'.pending = counters.pending /\ counters'.openWaits = counters.openWaits + 1
  BY DEF FinalizeWaiting, Inv, TypeOK, CounterRows
<1>7. CountersMatchProjection'
  <2>1. queues' = queues
    BY DEF FinalizeWaiting
  <2> QED BY <1>5, <1>6, <2>1 DEF ProjectionIsSound, CountersMatchProjection, OpenRows
<1>8. run'.status # "waiting"
  BY <1>1, NextStatus DEF FinalizeWaiting
<1> QED BY <1>7, <1>8 DEF ProjectionIsSound, WaitingIsQuiescent

\* The steps of an attempt (attempt_state.rs, finalize.rs).
LEMMA ExecuteStepProjected ==
  ASSUME Inv, ProjectionIsSound, NEW w \in Workers, ExecuteStep(w)
  PROVE  ProjectionIsSound'
<1>1. Finalizes(w) => run.status # "waiting"
  BY FinalizesHeld, HeldRuns
<1>2. CASE MarkRunning(w)
  <2>1. run.status # "waiting"
    BY <1>2, WorkerTypes, HeldRuns DEF MarkRunning, Owns, Inv, Held
  <2> QED BY <1>2, <2>1, NothingProjected DEF MarkRunning
<1>3. CASE MarkRejected(w) \/ FinalizeRejected(w)
  BY <1>3, NothingProjected DEF MarkRejected, FinalizeRejected, rows, ProjectionIsSound, WaitingIsQuiescent
<1>4. CASE FinalizeFailed(w)
  BY <1>4, EndsProjected DEF FinalizeFailed, Terminal
<1>5. CASE FinalizeReconcile(w)
  <2>1. counters'.pending = counters.pending /\ counters'.openWaits = counters.openWaits
    BY <1>5 DEF FinalizeReconcile, Inv, TypeOK, CounterRows
  <2> QED BY <1>1, <1>5, <2>1, NothingProjected DEF FinalizeReconcile
<1> QED BY <1>2, <1>3, <1>4, <1>5, FinalizeCompletedProjected, FinalizeWaitingProjected DEF ExecuteStep

\* An activation counts the values it takes (activate.rs).
LEMMA ActivateStepProjected ==
  ASSUME Inv, ProjectionIsSound, NEW w \in Workers, ActivateStep(w)
  PROVE  ProjectionIsSound'
<1>1. CASE ActivateSkipped(w)
  BY <1>1, NothingProjected DEF ActivateSkipped, ProjectionIsSound, WaitingIsQuiescent
<1>2. CASE ActivateDropped(w) \/ ActivateNotReady(w)
  <2>1. run.status # "waiting"
    BY <1>2, WaitingIsIdle DEF ActivateDropped, ActivateNotReady, Activatable, HoldsKey
  <2> QED BY <1>2, <2>1, NothingProjected DEF ActivateDropped, ActivateNotReady
<1>3. CASE ActivateOverLimit(w)
  BY <1>3, EndsProjected DEF ActivateOverLimit, Terminal
<1>4. ASSUME Consumes(w)
      PROVE  /\ Consumed(Node(w)) \in CounterRows /\ run.status = "running"
             /\ Consumed(Node(w)).pending = Cardinality(PendingRows(queues'))
             /\ Consumed(Node(w)).openWaits = counters.openWaits
  <2>1. Node(w) \in Nodes
    BY WorkerTypes DEF Inv
  <2>2. /\ Consumed(Node(w)).pending = counters.pending - Cardinality(Heads(Node(w)))
        /\ Consumed(Node(w)).openWaits = counters.openWaits
    BY DEF Consumed, Inv, TypeOK, CounterRows
  <2>3. counters.pending = Cardinality(PendingRows(queues))
    BY DEF ProjectionIsSound, CountersMatchProjection, PendingRows
  <2>4. queues' = Taken(Node(w)) /\ run.status = "running"
    BY <1>4 DEF Consumes, Activatable
  <2> QED BY <2>1, <2>2, <2>3, <2>4, TakenCount, ConsumeTypes DEF Inv
<1>5. CASE ActivateReady(w)
  <2>1. Consumes(w) /\ counters' = Consumed(Node(w)) /\ run' = run /\ waits' = waits
    BY <1>5 DEF ActivateReady
  <2>2. CountersMatchProjection'
    BY <1>4, <2>1 DEF ProjectionIsSound, CountersMatchProjection, PendingRows
  <2> QED BY <1>4, <2>1, <2>2 DEF ProjectionIsSound, WaitingIsQuiescent
<1>6. CASE ActivateInvalid(w)
  <2>1. Consumes(w)
    BY <1>6 DEF ActivateInvalid
  <2> QED BY <1>4, <1>6, <2>1, EndProjected DEF ActivateInvalid, Terminal
<1> QED BY <1>1, <1>2, <1>3, <1>5, <1>6 DEF ActivateStep

\* Settling (settle.rs): the run waits only when nothing else is left.
LEMMA SettleStepProjected ==
  ASSUME Inv, ProjectionIsSound, NEW w \in Workers, SettleStep(w)
  PROVE  ProjectionIsSound'
<1>1. CASE SettleLate(w) \/ SettleMissing(w)
  BY <1>1, EndsProjected DEF SettleLate, SettleMissing, Settles, Terminal
<1>2. CASE SettleWaiting(w)
  <2>1. CountersMatchProjection'
    BY <1>2, NothingCounted DEF SettleWaiting, Settles, ProjectionIsSound
  <2>2. /\ wakeups' = {} /\ insts' = insts /\ waits' = waits
        /\ ~HasStatus(insts, {"ready", "running"}) /\ \E n \in Nodes : waits[n].kind # "none"
    BY <1>2 DEF SettleWaiting, MustWait
  <2>3. WaitingIsQuiescent'
    BY <2>2 DEF WaitingIsQuiescent, HasStatus
  <2> QED BY <2>1, <2>3 DEF ProjectionIsSound
<1>3. CASE SettleBusy(w)
  <2>1. run.status = "waiting" => wakeups' = {}
    BY <1>3, WaitingIsIdle DEF SettleBusy, Others, Finish
  <2> QED BY <1>3, <2>1, NothingProjected DEF SettleBusy, Settles
<1>4. CASE SettleCompleted(w)
  <2>1. run'.status = "completed"
    BY <1>4 DEF SettleCompleted, Inv, TypeOK, RunRows
  <2> QED BY <1>4, <2>1, NothingProjected DEF SettleCompleted, Settles
<1> QED BY <1>1, <1>2, <1>3, <1>4 DEF SettleStep

-------------------------------------------------------------------------------
(***************************************************************************)
(* The projection of a run is sound in every state.                        *)
(***************************************************************************)
\* Every step of the run.
LEMMA StepProjected == Inv /\ ProjectionIsSound /\ [Next]_vars => ProjectionIsSound'
<1> SUFFICES ASSUME Inv, ProjectionIsSound, [Next]_vars PROVE ProjectionIsSound'
  OBVIOUS
<1>1. ASSUME NEW w \in Workers, WorkerStep(w) PROVE ProjectionIsSound'
  BY <1>1, TimerStepProjected, RecoverStepProjected, ClaimStepProjected, ExecuteStepProjected,
     ActivateStepProjected, SettleStepProjected DEF WorkerStep
<1>2. CASE Interrupt
  BY <1>2, NothingProjected DEF Interrupt, Controls
<1>3. CASE Resume
  BY <1>3, NothingProjected DEF Resume, Controls
<1>4. CASE Cancel
  BY <1>4, EndsProjected DEF Cancel, Terminal
<1>5. ASSUME NEW n \in Nodes, SubmitResponse(n) PROVE ProjectionIsSound'
  BY <1>5, ResumeProjected DEF SubmitResponse, NoWait
<1>6. CASE Tick \/ UNCHANGED vars \/ \E w \in Workers : Crash(w)
  BY <1>6, NothingProjected DEF Tick, Crash, vars, rows, ProjectionIsSound, WaitingIsQuiescent
<1> QED BY <1>1, <1>2, <1>3, <1>4, <1>5, <1>6 DEF Next

\* The run starts with empty queues and no wait.
LEMMA InitProjected == Init => ProjectionIsSound
<1> SUFFICES ASSUME Init PROVE ProjectionIsSound
  OBVIOUS
<1>1. UNION {{e} \X DOMAIN queues[e] : e \in Edges} = {}
  <2>1. \A e \in Edges : DOMAIN queues[e] = {}
    BY DEF Init
  <2> QED BY <2>1
<1>2. {n \in Nodes : waits[n].kind # "none"} = {}
  BY DEF Init, NoWait
<1>3. counters.pending = 0 /\ counters.openWaits = 0 /\ run.status = "running"
  BY DEF Init
<1> QED BY <1>1, <1>2, <1>3, FS_EmptySet DEF ProjectionIsSound, CountersMatchProjection, WaitingIsQuiescent

\* The counters a checkpoint is validated by (validate_projection,
\* checkpoint.rs) are those of the rows, whatever failed in between, and a run
\* that calls itself waiting has nothing left to run and something to wait
\* for.
THEOREM Projection == Spec => []ProjectionIsSound
<1> QED BY StepProjected, InitProjected, Invariance, PTL DEF Spec

\* The first half by itself.
THEOREM CountersMatch == Spec => []CountersMatchProjection
<1>1. ProjectionIsSound => CountersMatchProjection
  BY DEF ProjectionIsSound
<1> QED BY <1>1, Projection, PTL

-------------------------------------------------------------------------------
(***************************************************************************)
(* GraphRun implements Dataflow: the initial states are initial states of  *)
(* the network, and every transaction is a step of the network or none.    *)
(* The transactions that end the run close the network, an activation is   *)
(* a firing, a completed attempt is a completion; timers, leases, claims,  *)
(* retries, waits, crashes and the passing of time are not seen at all.    *)
(***************************************************************************)
\* Dataflow counts sets as GraphRun does.
LEMMA SameCount == ASSUME NEW S PROVE Net!Cardinality(S) = Cardinality(S)
BY DEF Net!Cardinality, Cardinality, Net!IsFiniteSet, IsFiniteSet

\* What the author of the graph sees of the status of the run.
Mode(status) == IF status \in Terminal THEN "closed"
                ELSE IF status \in Halting THEN "halted" ELSE "open"

-------------------------------------------------------------------------------
(***************************************************************************)
(* The kinds of steps.                                                     *)
(***************************************************************************)
\* A step that neither begins nor ends an activation and moves no value is
\* not seen.
LEMMA Unseen ==
  ASSUME Mode(run'.status) = Mode(run.status),
         \A n \in Nodes : /\ insts'[n].status \in Active <=> insts[n].status \in Active
                          /\ insts'[n].seq = insts[n].seq,
         queues' = queues, counters'.enqueue = counters.enqueue
  PROVE  UNCHANGED Net!vars
BY DEF Net!vars, Mode

\* Restarting and draining the run are not seen.
LEMMA SameMode ==
  ASSUME Inv
  PROVE  /\ Mode(Restarted.status) = Mode(run.status)
         /\ \A A : Mode(Drained(A).status) = Mode(run.status)
BY DEF Inv, TypeOK, RunRows, Mode, Restarted, Drained, Halting, Terminal

\* A node that stays active, whatever it does, is not seen.
LEMMA ActiveUnseen ==
  ASSUME Inv, NEW n \in Nodes, insts[n].status \in Active, NEW st \in Active,
         insts' = [insts EXCEPT ![n].status = st],
         Mode(run'.status) = Mode(run.status),
         queues' = queues, counters'.enqueue = counters.enqueue
  PROVE  UNCHANGED Net!vars
<1>1. insts \in [Nodes -> InstRows]
  BY DEF Inv, TypeOK
<1>2. \A m \in Nodes : /\ insts'[m].status \in Active <=> insts[m].status \in Active
                       /\ insts'[m].seq = insts[m].seq
  BY <1>1 DEF InstRows
<1> QED BY <1>2, Unseen

\* The end of a run that had not ended closes the network.
LEMMA EndRunCloses ==
  ASSUME Inv, run.status \notin Terminal, NEW status \in Terminal,
         NEW I \in [Nodes -> InstRows], \A n \in Nodes : I[n].seq = insts[n].seq,
         NEW A, NEW C \in CounterRows, C.enqueue = counters.enqueue,
         EndRun(status, I, A, C), queues' = queues
  PROVE  Net!Close
<1>1. run'.status \in Terminal
  BY DEF EndRun
<1>2. \A n \in Nodes : insts'[n].status \notin Active /\ insts'[n].seq = insts[n].seq
  BY DEF EndRun, Closed, InstRows, Active
<1>3. counters'.enqueue = counters.enqueue
  BY DEF EndRun, CounterRows
<1> QED BY <1>1, <1>2, <1>3 DEF Net!Close

-------------------------------------------------------------------------------
(***************************************************************************)
(* The completion of a node.                                               *)
(***************************************************************************)
\* The numbers of the values of one emission.
LEMMA Numbering ==
  ASSUME NEW a \in Nat, NEW k \in Nat
  PROVE  /\ \A c \in Nat : k <= c => a + k \in a..(a + c)
         /\ \A i \in 1..k : a + i - 1 \in a..(a + k - 1)
         /\ \A s \in a..(a + k - 1) : s - a + 1 \in 1..k /\ s = a + (s - a + 1) - 1
OBVIOUS

\* The end of a completed attempt is a completion of the network.
LEMMA CompletionSeen ==
  ASSUME Inv, NEW w \in Workers, NEW order \in Emissions(Node(w)), FinalizeCompleted(w, order)
  PROVE  Net!Complete(Node(w))
<1> DEFINE n == Node(w)
           k == Len(order)
<1>1. n \in Nodes /\ insts[n].status \in Active /\ run.status \notin Terminal
  <2>1. n \in Nodes /\ workers[w].no \in DOMAIN attempts[n]
        /\ attempts[n][workers[w].no].status \in Held
    BY FinalizesHeld DEF FinalizeCompleted
  <2> QED BY <2>1, HeldEnds
<1>2. /\ insts' = [insts EXCEPT ![n].status = "completed"]
      /\ queues' = Filled(order)
      /\ counters' = [counters EXCEPT !.enqueue = @ + k, !.total = @ + k, !.pending = @ + k]
      /\ run' = Drained(attempts')
  BY DEF FinalizeCompleted
<1>3. /\ k \in Nat /\ DOMAIN order = 1..k /\ k <= Cardinality(OutEdges(n))
      /\ n \notin Routers => k = Cardinality(OutEdges(n))
  BY <1>1, EmissionFacts
<1>4. OutEdges(n) = Net!Out(n)
  BY DEF OutEdges, Net!Out
<1> HIDE DEF n, k
<1>5. counters.enqueue \in Nat /\ counters'.enqueue = counters.enqueue + k
  BY <1>2, <1>3, CounterTypes DEF Inv, CounterRows
<1>6. Cardinality(OutEdges(n)) \in Nat
  BY GraphAssumption, FS_Subset, FS_CardinalityType DEF OutEdges
<1>7. Mode(run'.status) = Mode(run.status)
  BY <1>2, SameMode
<1>8. /\ insts'[n].status \notin Active
      /\ \A m \in Nodes \ {n} : insts'[m] = insts[m]
      /\ \A m \in Nodes : insts'[m].seq = insts[m].seq
  BY <1>1, <1>2 DEF Inv, TypeOK, InstRows, Active
<1>9. {m \in Nodes : insts'[m].status \in Active} = {m \in Nodes : insts[m].status \in Active} \ {n}
  BY <1>8
<1>10. counters.enqueue + k \in counters.enqueue .. counters.enqueue + Cardinality(OutEdges(n))
  BY <1>3, <1>5, <1>6, Numbering
<1>11. \A e \in Edges :
         \/ queues'[e] = queues[e]
         \/ /\ e \in OutEdges(n)
            /\ \E seq \in counters.enqueue..(counters.enqueue + k - 1) :
                  queues'[e] = Append(queues[e], seq)
  <2>1. SUFFICES ASSUME NEW e \in Edges, NEW i \in DOMAIN order, order[i] = e
                 PROVE  /\ e \in OutEdges(n)
                        /\ \E seq \in counters.enqueue..(counters.enqueue + k - 1) :
                              queues'[e] = Append(queues[e], seq)
    BY <1>1, <1>2, FilledFacts DEF n
  <2>2. e \in OutEdges(n) /\ queues'[e] = Append(queues[e], counters.enqueue + i - 1)
    BY <1>1, <1>2, <2>1, FilledFacts, EmissionFacts DEF n
  <2>3. counters.enqueue + i - 1 \in counters.enqueue..(counters.enqueue + k - 1)
    BY <1>3, <1>5, <2>1, Numbering
  <2> QED BY <2>2, <2>3
<1>12. \A seq \in counters.enqueue..(counters.enqueue + k - 1) :
         \E e \in OutEdges(n) : queues'[e] = Append(queues[e], seq)
  <2>1. SUFFICES ASSUME NEW seq \in counters.enqueue..(counters.enqueue + k - 1)
                 PROVE  \E e \in OutEdges(n) : queues'[e] = Append(queues[e], seq)
    OBVIOUS
  <2> DEFINE i == seq - counters.enqueue + 1
  <2>2. i \in DOMAIN order /\ seq = counters.enqueue + i - 1
    BY <1>3, <1>5, Numbering
  <2> HIDE DEF i
  <2>3. order[i] \in OutEdges(n)
    BY <1>1, <2>2, EmissionFacts DEF n
  <2>4. queues'[order[i]] = Append(queues[order[i]], seq)
    BY <1>1, <1>2, <2>2, FilledFacts DEF n
  <2> QED BY <2>3, <2>4
<1>13. DOMAIN queues' = Edges
  BY <1>1, <1>2, FilledFacts DEF n
<1>14. Net!Complete(n)
  <2>1. n \in {m \in Nodes : insts[m].status \in Active} /\ Mode(run.status) # "closed"
    BY <1>1 DEF Mode
  <2>2. \A m \in Nodes : insts'[m].seq = insts[m].seq
    BY <1>8
  <2>3. [m \in Nodes |-> insts'[m].seq] = [m \in Nodes |-> insts[m].seq]
    BY <2>2
  <2>4. n \notin Routers => counters'.enqueue = counters.enqueue + Cardinality(Net!Out(n))
    BY <1>3, <1>4, <1>5
  <2>5. counters'.enqueue \in counters.enqueue .. (counters.enqueue + Cardinality(Net!Out(n)))
    BY <1>4, <1>5, <1>10
  <2> DEFINE last == counters'.enqueue - 1
  <2>8. last = counters.enqueue + k - 1
    BY <1>3, <1>5
  <2> HIDE DEF last
  <2>6. \A e \in Edges :
         \/ queues'[e] = queues[e]
         \/ /\ e \in Net!Out(n)
            /\ \E seq \in counters.enqueue..last :
                  queues'[e] = Append(queues[e], seq)
    BY <1>4, <1>11, <2>8
  <2>7. \A seq \in counters.enqueue..last :
         \E e \in Net!Out(n) : queues'[e] = Append(queues[e], seq)
    BY <1>4, <1>12, <2>8
  <2>9. /\ Mode(run.status) # "closed" /\ n \in {m \in Nodes : insts[m].status \in Active}
        /\ {m \in Nodes : insts'[m].status \in Active}
             = {m \in Nodes : insts[m].status \in Active} \ {n}
        /\ Mode(run'.status) = Mode(run.status)
    BY <1>7, <1>9, <2>1
  <2>10. counters'.enqueue - 1 = last
    BY DEF last
  <2> QED
    BY <1>13, <2>3, <2>4, <2>5, <2>6, <2>7, <2>9, <2>10, SameCount DEF Net!Complete, Mode
<1> QED BY <1>14 DEF n

-------------------------------------------------------------------------------
(***************************************************************************)
(* The numbers of the values.  A Merge node takes the oldest head: that    *)
(* there is one needs the numbers of all queued values to differ.          *)
(***************************************************************************)
\* Every queued value has a number of its own, issued before (enqueue_seq).
ValuesAreNumbered ==
    \A d, e \in Edges : \A i \in DOMAIN queues[d], j \in DOMAIN queues[e] :
      /\ queues[d][i] < counters.enqueue
      /\ queues[d][i] = queues[e][j] => d = e /\ i = j

\* Appending one element.
LEMMA Appended ==
  ASSUME NEW q \in Seq(Nat), NEW x \in Nat
  PROVE  /\ DOMAIN Append(q, x) = 1..(Len(q) + 1) /\ Append(q, x)[Len(q) + 1] = x
         /\ \A i \in DOMAIN Append(q, x) : /\ i \in DOMAIN q => Append(q, x)[i] = q[i]
                                           /\ i \notin DOMAIN q => i = Len(q) + 1
OBVIOUS

\* Taking the first element.
LEMMA Beheaded ==
  ASSUME NEW q \in Seq(Nat), q # <<>>
  PROVE  /\ DOMAIN Tail(q) = 1..(Len(q) - 1) /\ Len(q) \in Nat \ {0}
         /\ \A i \in DOMAIN Tail(q) : i + 1 \in DOMAIN q /\ Tail(q)[i] = q[i + 1]
         /\ Head(q) = q[1] /\ 1 \in DOMAIN q
OBVIOUS

\* The numbers of an emission are new, and differ from each other.
LEMMA FilledNumbered ==
  ASSUME Inv, ValuesAreNumbered, NEW n \in Nodes, NEW order \in Emissions(n),
         queues' = Filled(order), counters'.enqueue = counters.enqueue + Len(order)
  PROVE  ValuesAreNumbered'
<1> DEFINE k == Len(order)
           next == counters.enqueue
<1>1. k \in Nat /\ DOMAIN order = 1..k /\ next \in Nat
  BY EmissionFacts, CounterTypes DEF Inv
<1>2. \A e \in Edges : queues[e] \in Seq(Nat) /\ DOMAIN queues[e] = 1..Len(queues[e])
                       /\ Len(queues[e]) \in Nat /\ \A i \in DOMAIN queues[e] : queues[e][i] \in Nat
  BY DEF Inv, TypeOK
<1>3. ASSUME NEW e \in Edges, NEW i \in DOMAIN queues'[e]
      PROVE  \/ i \in DOMAIN queues[e] /\ queues'[e][i] = queues[e][i] /\ queues'[e][i] < next
             \/ \E h \in 1..k : /\ order[h] = e /\ i = Len(queues[e]) + 1
                                /\ queues'[e][i] = next + h - 1
  <2>1. CASE \A h \in DOMAIN order : order[h] # e
    BY <1>3, <2>1, FilledFacts DEF ValuesAreNumbered
  <2>2. ASSUME NEW h \in DOMAIN order, order[h] = e
        PROVE  \/ i \in DOMAIN queues[e] /\ queues'[e][i] = queues[e][i] /\ queues'[e][i] < next
               \/ h \in 1..k /\ i = Len(queues[e]) + 1 /\ queues'[e][i] = next + h - 1
    <3>1. queues'[e] = Append(queues[e], next + h - 1) /\ next + h - 1 \in Nat
      BY <1>1, <2>2, FilledFacts
    <3> QED BY <1>1, <1>2, <1>3, <3>1, Appended DEF ValuesAreNumbered
  <2> QED BY <1>1, <2>1, <2>2
<1>4. SUFFICES ASSUME NEW d \in Edges, NEW e \in Edges,
                      NEW i \in DOMAIN queues'[d], NEW j \in DOMAIN queues'[e]
               PROVE  /\ queues'[d][i] < next + k
                      /\ queues'[d][i] = queues'[e][j] => d = e /\ i = j
  BY DEF ValuesAreNumbered
<1>5. queues'[d][i] < next + k
  <2>1. CASE queues'[d][i] < next /\ queues'[d][i] = queues[d][i] /\ i \in DOMAIN queues[d]
    BY <1>1, <1>2, <2>1
  <2>2. CASE \E h \in 1..k : queues'[d][i] = next + h - 1
    BY <1>1, <2>2
  <2> QED BY <1>3, <2>1, <2>2
<1>6. ASSUME queues'[d][i] = queues'[e][j] PROVE d = e /\ i = j
  <2>1. \A h \in 1..k : ~(next + h - 1 < next)
    BY <1>1
  <2>2. \A g, h \in 1..k : next + g - 1 = next + h - 1 => g = h
    BY <1>1
  <2>3. CASE i \in DOMAIN queues[d] /\ queues'[d][i] = queues[d][i] /\ queues'[d][i] < next
    <3>1. ~\E h \in 1..k : queues'[e][j] = next + h - 1
      BY <1>6, <2>1, <2>3
    <3>2. j \in DOMAIN queues[e] /\ queues'[e][j] = queues[e][j]
      BY <1>3, <3>1
    <3>3. queues[d][i] = queues[e][j]
      BY <1>6, <2>3, <3>2
    <3> QED BY <2>3, <3>2, <3>3 DEF ValuesAreNumbered
  <2>4. ASSUME NEW g \in 1..k, order[g] = d, i = Len(queues[d]) + 1, queues'[d][i] = next + g - 1
        PROVE  d = e /\ i = j
    <3>1. PICK h \in 1..k : order[h] = e /\ j = Len(queues[e]) + 1 /\ queues'[e][j] = next + h - 1
      BY <1>3, <1>6, <2>1, <2>4
    <3>2. g = h
      BY <1>6, <2>2, <2>4, <3>1
    <3> QED BY <2>4, <3>1, <3>2
  <2> QED BY <1>3, <2>3, <2>4
<1> QED BY <1>5, <1>6

\* What is left in the queues keeps its numbers.
LEMMA TakenNumbered ==
  ASSUME Inv, ValuesAreNumbered, NEW n \in Nodes,
         queues' = Taken(n), counters'.enqueue = counters.enqueue
  PROVE  ValuesAreNumbered'
<1>1. \A e \in Edges : queues[e] \in Seq(Nat)
  BY DEF Inv, TypeOK
<1>2. \A e \in Heads(n) : e \in Edges /\ queues[e] # <<>>
  BY DEF Heads, InEdges
<1>3. ASSUME NEW e \in Edges
      PROVE  \/ queues'[e] = queues[e]
             \/ \A i \in DOMAIN queues'[e] : i + 1 \in DOMAIN queues[e] /\ i \in Nat
                                             /\ queues'[e][i] = queues[e][i + 1]
  <2>1. CASE e \in Heads(n)
    BY <1>1, <1>2, <2>1, Beheaded DEF Taken
  <2>2. CASE e \notin Heads(n)
    BY <2>2 DEF Taken
  <2> QED BY <2>1, <2>2
<1>4. SUFFICES ASSUME NEW d \in Edges, NEW e \in Edges,
                      NEW i \in DOMAIN queues'[d], NEW j \in DOMAIN queues'[e]
               PROVE  /\ queues'[d][i] < counters.enqueue
                      /\ queues'[d][i] = queues'[e][j] => d = e /\ i = j
  BY DEF ValuesAreNumbered
<1>5. \E a \in {i, i + 1}, b \in {j, j + 1} :
         /\ a \in DOMAIN queues[d] /\ queues'[d][i] = queues[d][a] /\ i \in Nat
         /\ b \in DOMAIN queues[e] /\ queues'[e][j] = queues[e][b] /\ j \in Nat
         /\ d = e => (a = i <=> b = j)
  <2>1. i \in Nat /\ j \in Nat
    BY <1>1, <1>3
  <2>2. CASE d = e
    BY <1>3, <2>1, <2>2
  <2>3. CASE d # e
    BY <1>3, <2>1, <2>3
  <2> QED BY <2>2, <2>3
<1> QED BY <1>5 DEF ValuesAreNumbered

-------------------------------------------------------------------------------
(***************************************************************************)
(* The activation of a node.                                               *)
(***************************************************************************)
\* What a fireable node takes is what a node of the network may take: one
\* value per edge, or the only oldest one.
LEMMA HeadsTaken ==
  ASSUME Inv, ValuesAreNumbered, NEW n \in Nodes, Fireable(n)
  PROVE  Net!Takes(n, Heads(n)) /\ Heads(n) \in SUBSET Net!In(n)
<1>1. InEdges(n) = Net!In(n)
  BY DEF InEdges, Net!In
<1>2. Heads(n) \subseteq InEdges(n) /\ Heads(n) # {} /\ \A e \in Heads(n) : queues[e] # <<>>
  BY DEF Heads, Fireable
<1>3. CASE n \notin Mergers
  <2>1. Heads(n) = InEdges(n)
    BY <1>3 DEF Heads, Fireable
  <2> QED BY <1>1, <1>2, <1>3, <2>1 DEF Net!Takes
<1>4. CASE n \in Mergers
  <2>1. PICK e \in Heads(n) : TRUE
    BY <1>2
  <2>2. \A d \in InEdges(n) : queues[d] # <<>> => Head(queues[e]) <= Head(queues[d])
    BY <1>4, <2>1 DEF Heads
  <2>3. ASSUME NEW d \in Heads(n) PROVE d = e
    <3>1. d \in Edges /\ e \in Edges /\ queues[d] # <<>> /\ queues[e] # <<>>
          /\ queues[d] \in Seq(Nat) /\ queues[e] \in Seq(Nat)
      BY <1>2, <2>1 DEF InEdges, Inv, TypeOK
    <3>2. Head(queues[d]) <= Head(queues[e]) /\ Head(queues[e]) <= Head(queues[d])
      BY <1>2, <1>4, <2>1, <2>2 DEF Heads
    <3>3. /\ Head(queues[d]) = queues[d][1] /\ 1 \in DOMAIN queues[d] /\ Head(queues[d]) \in Nat
          /\ Head(queues[e]) = queues[e][1] /\ 1 \in DOMAIN queues[e] /\ Head(queues[e]) \in Nat
      BY <3>1
    <3>4. queues[d][1] = queues[e][1]
      BY <3>2, <3>3
    <3> QED BY <3>1, <3>3, <3>4 DEF ValuesAreNumbered
  <2>4. Heads(n) = {e}
    BY <2>1, <2>3
  <2> QED BY <1>1, <1>2, <1>4, <2>2, <2>4 DEF Net!Takes
<1> QED BY <1>1, <1>2, <1>3, <1>4

\* An activation fires the node, one with an invalid input is a rejection.
LEMMA ActivationSeen ==
  ASSUME Inv, ValuesAreNumbered, NEW w \in Workers, ActivateReady(w) \/ ActivateInvalid(w)
  PROVE  \E heads \in SUBSET Net!In(Node(w)) : Net!Fire(Node(w), heads) \/ Net!Reject(Node(w), heads)
<1> DEFINE n == Node(w)
<1>1. n \in Nodes
  BY WorkerTypes DEF Inv
<1>2. /\ Consumes(w) /\ run.status = "running" /\ insts[n].status \notin Active /\ Fireable(n)
      /\ queues' = Taken(n)
  BY DEF ActivateReady, ActivateInvalid, Consumes, Activatable
<1>3. Net!Takes(n, Heads(n)) /\ Heads(n) \in SUBSET Net!In(n)
  BY <1>1, <1>2, HeadsTaken
<1>4. Mode(run.status) = "open"
  BY <1>2 DEF Mode, Terminal, Halting
<1>5. queues' = [e \in Edges |-> IF e \in Heads(n) THEN Tail(queues[e]) ELSE queues[e]]
  BY <1>2 DEF Taken
<1>6. insts \in [Nodes -> InstRows] /\ counters \in CounterRows
  BY DEF Inv, TypeOK
<1>7. Consumed(n).enqueue = counters.enqueue
  BY <1>6 DEF Consumed, CounterRows
<1>8. CASE ActivateReady(w)
  <2>1. insts' = [insts EXCEPT ![n] = [status |-> "ready", seq |-> insts[n].seq + 1]]
        /\ run' = run /\ counters' = Consumed(n)
    BY <1>8 DEF ActivateReady
  <2> HIDE DEF n
  <2>2. {m \in Nodes : insts'[m].status \in Active} = {m \in Nodes : insts[m].status \in Active} \cup {n}
    BY <1>1, <1>6, <2>1 DEF Active
  <2>3. [m \in Nodes |-> insts'[m].seq]
          = [[m \in Nodes |-> insts[m].seq] EXCEPT ![n] = insts[n].seq + 1]
    BY <1>1, <1>6, <2>1
  <2>4. Net!Activate(n, Heads(n))
    BY <1>1, <1>2, <1>3, <1>4, <1>5, <2>3 DEF Net!Activate, Mode
  <2>5. Net!Fire(n, Heads(n))
    BY <1>7, <2>1, <2>2, <2>4 DEF Net!Fire
  <2>10. \E heads \in SUBSET Net!In(n) : Net!Fire(n, heads) \/ Net!Reject(n, heads)
    BY <1>3, <2>5 DEF Net!Fire, Net!Activate
  <2> QED BY <2>10 DEF n
<1>9. CASE ActivateInvalid(w)
  <2> DEFINE I == [insts EXCEPT ![n] = [status |-> "failed", seq |-> insts[n].seq + 1]]
  <2>1. EndRun("failed", I, [attempts EXCEPT ![n] = <<Ended(NewAttempt("start", 0, run.epoch), "failed")>>],
               Consumed(n))
    BY <1>9 DEF ActivateInvalid
  <2> HIDE DEF n
  <2>2. I \in [Nodes -> InstRows] /\ I[n].seq = insts[n].seq + 1 /\ \A m \in Nodes \ {n} : I[m] = insts[m]
    <3>1. [status |-> "failed", seq |-> insts[n].seq + 1] \in InstRows
      BY <1>1, RowTypes DEF Inv, InstRows
    <3> QED BY <1>1, <1>6, <3>1
  <2>3. insts' = Closed(I) /\ run'.status = "failed" /\ counters' = [Consumed(n) EXCEPT !.openWaits = 0]
    BY <2>1 DEF EndRun
  <2> HIDE DEF I
  <2>4. \A m \in Nodes : insts'[m].status \notin Active /\ insts'[m].seq = I[m].seq
    BY <2>2, <2>3 DEF Closed, InstRows, Active
  <2>5. [m \in Nodes |-> insts'[m].seq]
          = [[m \in Nodes |-> insts[m].seq] EXCEPT ![n] = insts[n].seq + 1]
    BY <1>1, <1>6, <2>2, <2>4
  <2>6. {m \in Nodes : insts'[m].status \in Active} = {} /\ Mode(run'.status) = "closed"
    BY <2>3, <2>4 DEF Mode, Terminal
  <2>7. counters'.enqueue = counters.enqueue
    BY <1>6, <1>7, <2>3 DEF Consumed, CounterRows
  <2>8. Net!Activate(n, Heads(n))
    BY <1>1, <1>2, <1>3, <1>4, <1>5, <2>5 DEF Net!Activate, Mode
  <2>9. Net!Reject(n, Heads(n))
    BY <2>6, <2>7, <2>8 DEF Net!Reject, Mode
  <2>10. \E heads \in SUBSET Net!In(n) : Net!Fire(n, heads) \/ Net!Reject(n, heads)
    BY <1>3, <2>9 DEF Net!Reject, Net!Activate
  <2> QED BY <2>10 DEF n
<1> QED BY <1>8, <1>9

-------------------------------------------------------------------------------
(***************************************************************************)
(* Every step of the run is a step of the network, or none.                *)
(***************************************************************************)
Seen == (Net!Next \/ UNCHANGED Net!vars) /\ ValuesAreNumbered'

\* The bookkeeping moves no value, so the numbering stays as it is.
LEMMA NumbersKept ==
  ASSUME ValuesAreNumbered, queues' = queues, counters'.enqueue = counters.enqueue
  PROVE  ValuesAreNumbered'
BY DEF ValuesAreNumbered

\* Nothing but the bookkeeping changes.
LEMMA RestSeen ==
  ASSUME Inv, ValuesAreNumbered, UNCHANGED <<insts, queues>>,
         counters'.enqueue = counters.enqueue, Mode(run'.status) = Mode(run.status)
  PROVE  Seen
BY NumbersKept, Unseen DEF Seen

\* An active node goes on.
LEMMA ActiveSeen ==
  ASSUME Inv, ValuesAreNumbered, NEW n \in Nodes, insts[n].status \in Active, NEW st \in Active,
         insts' = [insts EXCEPT ![n].status = st], queues' = queues,
         counters'.enqueue = counters.enqueue, Mode(run'.status) = Mode(run.status)
  PROVE  Seen
BY NumbersKept, ActiveUnseen DEF Seen

\* The run ends, with its nodes as they are or one of them failed.
LEMMA EndSeen ==
  ASSUME Inv, ValuesAreNumbered, run.status \notin Terminal, NEW status \in Terminal, NEW A,
         NEW I \in {insts} \cup {[insts EXCEPT ![n].status = "failed"] : n \in Nodes},
         EndRun(status, I, A, counters), queues' = queues
  PROVE  Seen
<1>1. insts \in [Nodes -> InstRows] /\ counters \in CounterRows
  BY DEF Inv, TypeOK
<1>2. I \in [Nodes -> InstRows] /\ \A n \in Nodes : I[n].seq = insts[n].seq
  BY <1>1 DEF InstRows
<1>3. Net!Close
  BY <1>1, <1>2, EndRunCloses
<1>4. counters'.enqueue = counters.enqueue
  BY <1>1 DEF EndRun, CounterRows
<1> QED BY <1>3, <1>4, NumbersKept DEF Seen, Net!Next

\* An answered or timed out wait is not seen: its node stays active.
LEMMA ResumeAttemptSeen ==
  ASSUME Inv, ValuesAreNumbered, NEW n \in Nodes, waits[n] # NoWait, ResumeAttempt(n), queues' = queues
  PROVE  Seen
<1>1. insts[n].status \in Active
  BY DEF Inv, OneOwner, Owned, Active
<1>2. insts' = [insts EXCEPT ![n].status = "ready"] /\ run' = Restarted /\ counters' = Answered
  BY DEF ResumeAttempt
<1>3. counters'.enqueue = counters.enqueue
  BY <1>2 DEF Answered, Inv, TypeOK, CounterRows
<1>4. Mode(run'.status) = Mode(run.status)
  BY <1>2, SameMode
<1> QED BY <1>1, <1>2, <1>3, <1>4, ActiveSeen DEF Active

\* A timer ends the run or is not seen (fire_due, timers.rs).
LEMMA TimerStepSeen ==
  ASSUME Inv, ValuesAreNumbered, NEW w \in Workers, TimerStep(w)
  PROVE  Seen
<1>1. CASE NoTimerDue(w)
  BY <1>1, RestSeen DEF NoTimerDue, rows
<1>2. CASE FireRunDeadline(w)
  BY <1>2, EndSeen DEF FireRunDeadline, RunDues, Terminal
<1>3. ASSUME NEW n \in Nodes, NEW i \in 1..MaxAttempts, FireAndRetry(w, n, i)
      PROVE  Seen
  <2>1. i \in DOMAIN attempts[n] /\ attempts[n][i].status \in Held
    BY <1>3 DEF FireAndRetry, DeadlineOf
  <2>2. insts[n].status \in Active
    BY <2>1, HeldEnds
  <2>3. Mode(run'.status) = Mode(run.status)
    BY <1>3, SameMode DEF FireAndRetry, Mode, Terminal, Halting, Inv, TypeOK, RunRows
  <2> QED BY <1>3, <2>2, <2>3, ActiveSeen DEF FireAndRetry, Active
<1>4. ASSUME NEW n \in Nodes, NEW i \in 1..MaxAttempts, FireAndFail(w, n, i)
      PROVE  Seen
  <2>1. i \in DOMAIN attempts[n] /\ attempts[n][i].status \in Held
    BY <1>4 DEF FireAndFail, DeadlineOf
  <2>2. run.status \notin Terminal
    BY <2>1, HeldEnds
  <2> QED BY <1>4, <2>2, EndSeen DEF FireAndFail, Terminal
<1>5. ASSUME NEW n \in Nodes, NEW r \in retries[n], ParkRetry(w, n, r)
      PROVE  Seen
  BY <1>5, RestSeen DEF ParkRetry
<1>6. ASSUME NEW n \in Nodes, NEW r \in retries[n], FireRetry(w, n, r)
      PROVE  Seen
  <2>1. counters'.enqueue = counters.enqueue
    BY <1>6 DEF FireRetry, Inv, TypeOK, CounterRows
  <2>2. Mode(run'.status) = Mode(run.status)
    BY <1>6, SameMode DEF FireRetry
  <2> QED BY <1>6, <2>1, <2>2, ActiveSeen DEF FireRetry, Active
<1>7. ASSUME NEW n \in Nodes, WaitFails(w, n)
      PROVE  Seen
  <2>1. run.status \notin Terminal
    BY <1>7, WaitRuns DEF WaitFails, NoWait
  <2> QED BY <1>7, <2>1, EndSeen DEF WaitFails, Terminal
<1>8. ASSUME NEW n \in Nodes, WaitTimesOut(w, n)
      PROVE  Seen
  BY <1>8, ResumeAttemptSeen DEF WaitTimesOut, NoWait
<1> QED BY <1>1, <1>2, <1>3, <1>4, <1>5, <1>6, <1>7, <1>8 DEF TimerStep

\* Recovering an expired lease ends the run or is not seen (recovery.rs).
LEMMA RecoverStepSeen ==
  ASSUME Inv, ValuesAreNumbered, NEW w \in Workers, RecoverStep(w)
  PROVE  Seen
<1>1. CASE RecoverNothing(w)
  BY <1>1, RestSeen DEF RecoverNothing
<1>2. ASSUME NEW n \in Nodes, NEW i \in 1..MaxAttempts, RecoverExhausted(w, n, i)
      PROVE  Seen
  BY <1>2, EndSeen DEF RecoverExhausted, FirstExpired, Expired, Terminal
<1>3. ASSUME NEW n \in Nodes, NEW i \in 1..MaxAttempts, RecoverAttempt(w, n, i)
      PROVE  Seen
  <2>1. insts[n].status \in Active
    BY <1>3, HeldEnds DEF RecoverAttempt, FirstExpired, Expired
  <2>2. counters'.enqueue = counters.enqueue
    BY <1>3 DEF RecoverAttempt, Inv, TypeOK, CounterRows
  <2>3. Mode(run'.status) = Mode(run.status)
    BY <1>3, SameMode DEF RecoverAttempt
  <2> QED BY <1>3, <2>1, <2>2, <2>3, ActiveSeen DEF RecoverAttempt, Active
<1> QED BY <1>1, <1>2, <1>3 DEF RecoverStep

\* Claiming a wakeup is not seen (claim.rs).
LEMMA ClaimStepSeen ==
  ASSUME Inv, ValuesAreNumbered, NEW w \in Workers, ClaimStep(w)
  PROVE  Seen
<1>1. UNCHANGED <<run, insts, queues, counters>>
  BY DEF ClaimStep, ClaimNothing, ClaimAttempt, ClaimNoop, ClaimDispatch, rows
<1> QED BY <1>1, RestSeen

\* Of the steps of an attempt, completion is the network's and failure its end.
LEMMA ExecuteStepSeen ==
  ASSUME Inv, ValuesAreNumbered, NEW w \in Workers, ExecuteStep(w)
  PROVE  Seen
<1>1. Finalizes(w) => Node(w) \in Nodes /\ insts[Node(w)].status \in Active /\ run.status \notin Terminal
  BY FinalizesHeld, HeldEnds
<1>2. CASE MarkRunning(w)
  <2>1. Node(w) \in Nodes /\ insts[Node(w)].status \in Active
    BY <1>2, WorkerTypes DEF MarkRunning, Inv, Active
  <2> QED BY <1>2, <2>1, ActiveSeen DEF MarkRunning, Active
<1>3. CASE MarkRejected(w) \/ FinalizeRejected(w)
  BY <1>3, RestSeen DEF MarkRejected, FinalizeRejected, rows
<1>4. CASE FinalizeFailed(w)
  BY <1>1, <1>4, EndSeen DEF FinalizeFailed, Terminal
<1>5. CASE FinalizeReconcile(w)
  <2>1. counters'.enqueue = counters.enqueue
    BY <1>5 DEF FinalizeReconcile, Inv, TypeOK, CounterRows
  <2> QED BY <1>1, <1>5, <2>1, ActiveSeen DEF FinalizeReconcile, Active
<1>6. ASSUME NEW order \in Emissions(Node(w)), FinalizeCompleted(w, order)
      PROVE  Seen
  <2>1. Node(w) \in Nodes /\ Net!Complete(Node(w))
    BY <1>1, <1>6, CompletionSeen DEF FinalizeCompleted
  <2>2. queues' = Filled(order) /\ counters'.enqueue = counters.enqueue + Len(order)
    BY <1>6 DEF FinalizeCompleted, Inv, TypeOK, CounterRows
  <2>3. ValuesAreNumbered'
    BY <2>1, <2>2, FilledNumbered
  <2>4. \E n \in Nodes : Net!Complete(n)
    BY <2>1 DEF Net!Complete
  <2> QED BY <2>3, <2>4 DEF Seen, Net!Next, Net!Complete
<1>7. ASSUME NEW kind, NEW due, NEW onTimeout, FinalizeWaiting(w, kind, due, onTimeout)
      PROVE  Seen
  <2>1. Finalizes(w) /\ counters'.enqueue = counters.enqueue
    BY <1>7 DEF FinalizeWaiting, Inv, TypeOK, CounterRows
  <2>2. Mode(run'.status) = Mode(run.status)
    BY <1>7, SameMode DEF FinalizeWaiting
  <2> QED BY <1>1, <1>7, <2>1, <2>2, ActiveSeen DEF FinalizeWaiting, Active
<1> QED BY <1>2, <1>3, <1>4, <1>5, <1>6, <1>7 DEF ExecuteStep

\* An activation takes its inputs or closes the network (activate.rs).
LEMMA ActivateStepSeen ==
  ASSUME Inv, ValuesAreNumbered, NEW w \in Workers, ActivateStep(w)
  PROVE  Seen
<1>1. CASE ActivateSkipped(w) \/ ActivateDropped(w) \/ ActivateNotReady(w)
  BY <1>1, RestSeen DEF ActivateSkipped, ActivateDropped, ActivateNotReady
<1>2. CASE ActivateOverLimit(w)
  BY <1>2, EndSeen DEF ActivateOverLimit, Activatable, Terminal
<1>3. CASE ActivateReady(w) \/ ActivateInvalid(w)
  <2>1. Node(w) \in Nodes
    BY WorkerTypes DEF Inv
  <2>2. \E heads \in SUBSET Net!In(Node(w)) : Net!Fire(Node(w), heads) \/ Net!Reject(Node(w), heads)
    BY <1>3, ActivationSeen
  <2>3. queues' = Taken(Node(w)) /\ counters'.enqueue = counters.enqueue
    BY <1>3 DEF ActivateReady, ActivateInvalid, Consumes, EndRun, Consumed, Inv, TypeOK, CounterRows
  <2>4. ValuesAreNumbered'
    BY <2>1, <2>3, TakenNumbered
  <2>5. Net!Next
    BY <2>1, <2>2 DEF Net!Next, Net!Fire, Net!Reject, Net!Activate
  <2> QED BY <2>4, <2>5 DEF Seen
<1> QED BY <1>1, <1>2, <1>3 DEF ActivateStep

\* Settling closes the network or is not seen (finish.rs).
LEMMA SettleStepSeen ==
  ASSUME Inv, ValuesAreNumbered, NEW w \in Workers, SettleStep(w)
  PROVE  Seen
<1>1. CASE SettleLate(w) \/ SettleMissing(w)
  BY <1>1, EndSeen DEF SettleLate, SettleMissing, Settles, Finished, OnTime, Terminal
<1>2. CASE SettleBusy(w)
  BY <1>2, RestSeen DEF SettleBusy, Settles
<1>3. CASE SettleWaiting(w)
  <2>1. Mode(run'.status) = Mode(run.status)
    BY <1>3 DEF SettleWaiting, OnTime, Mode, Terminal, Halting, Inv, TypeOK, RunRows
  <2> QED BY <1>3, <2>1, RestSeen DEF SettleWaiting, Settles
<1>4. CASE SettleCompleted(w)
  <2>1. /\ run.status = "running" /\ run' = [run EXCEPT !.status = "completed"]
        /\ insts' = insts /\ queues' = queues /\ counters' = counters
        /\ \A n \in Nodes : insts[n].status \notin Active
    BY <1>4 DEF SettleCompleted, Settles, Finished, OnTime, Busy, HasStatus
  <2>2. run'.status = "completed"
    BY <2>1 DEF Inv, TypeOK, RunRows
  <2>3. Net!Close
    BY <2>1, <2>2 DEF Net!Close, Terminal, Halting
  <2> QED BY <2>1, <2>3, NumbersKept DEF Seen, Net!Next
<1> QED BY <1>1, <1>2, <1>3, <1>4 DEF SettleStep

\* The controls halt, continue and close the network; an answer is not seen.
LEMMA ControlSeen ==
  ASSUME Inv, ValuesAreNumbered, Interrupt \/ Resume \/ Cancel \/ \E n \in Nodes : SubmitResponse(n)
  PROVE  Seen
<1>1. CASE Interrupt
  <2>1. /\ run.status \in {"running", "waiting"} /\ run'.status \in Halting
        /\ insts' = insts /\ queues' = queues /\ counters' = counters
    BY <1>1 DEF Interrupt, Controls, Halting
  <2>2. Net!Halt
    BY <2>1 DEF Net!Halt, Terminal, Halting
  <2> QED BY <2>1, <2>2, NumbersKept DEF Seen, Net!Next
<1>2. CASE Resume
  <2>1. /\ run.status = "interrupted" /\ run'.status = "running"
        /\ insts' = insts /\ queues' = queues /\ counters' = counters
    BY <1>2 DEF Resume, Controls
  <2>2. Net!Continue
    BY <2>1 DEF Net!Continue, Terminal, Halting
  <2> QED BY <2>1, <2>2, NumbersKept DEF Seen, Net!Next
<1>3. CASE Cancel
  BY <1>3, EndSeen DEF Cancel, Terminal
<1>4. ASSUME NEW n \in Nodes, SubmitResponse(n)
      PROVE  Seen
  BY <1>4, ResumeAttemptSeen DEF SubmitResponse, NoWait
<1> QED BY <1>1, <1>2, <1>3, <1>4

\* Every step of the run.
LEMMA StepSeen == Inv /\ ValuesAreNumbered /\ [Next]_vars => Seen
<1> SUFFICES ASSUME Inv, ValuesAreNumbered, [Next]_vars PROVE Seen
  OBVIOUS
<1>1. ASSUME NEW w \in Workers, WorkerStep(w) PROVE Seen
  BY <1>1, TimerStepSeen, RecoverStepSeen, ClaimStepSeen, ExecuteStepSeen, ActivateStepSeen,
     SettleStepSeen DEF WorkerStep
<1>2. CASE Interrupt \/ Resume \/ Cancel \/ \E n \in Nodes : SubmitResponse(n)
  BY <1>2, ControlSeen
<1>3. CASE Tick \/ UNCHANGED vars \/ \E w \in Workers : Crash(w)
  BY <1>3, RestSeen DEF Tick, Crash, vars, rows
<1> QED BY <1>1, <1>2, <1>3 DEF Next

\* The run starts as the network does, with no value sent.
LEMMA InitSeen == Init => Net!Init /\ ValuesAreNumbered
<1> SUFFICES ASSUME Init PROVE Net!Init /\ ValuesAreNumbered
  OBVIOUS
<1>1. Net!Init
  <2>1. {n \in Nodes : insts[n].status \in Active} = Entry
    BY GraphAssumption DEF Init, Active
  <2>2. [n \in Nodes |-> insts[n].seq] = [n \in Nodes |-> IF n \in Entry THEN 1 ELSE 0]
    BY DEF Init
  <2> QED BY <2>1, <2>2 DEF Init, Net!Init, Terminal, Halting
<1>2. ValuesAreNumbered
  BY DEF Init, ValuesAreNumbered
<1> QED BY <1>1, <1>2

\* No two values of a run ever share a number, so that the head a Merge node
\* takes is the oldest without a tie (enqueue_seq, activate.rs).
THEOREM NumbersAreUnique == Spec => []ValuesAreNumbered
<1>1. Inv /\ ValuesAreNumbered /\ [Next]_vars => ValuesAreNumbered'
  BY StepSeen DEF Seen
<1> QED BY <1>1, InitSeen, Invariance, PTL DEF Spec

\* Whatever the scheduler, the controls, the timers and the crashes do, the
\* run is the network its author drew: inputs are taken once and in order,
\* outputs are sent once, a halted run begins nothing, an ended one does
\* nothing.
THEOREM RunImplementsNetwork == Spec => ImplementsDataflow
<1>1. Inv /\ ValuesAreNumbered /\ [Next]_vars => [Net!Next]_(Net!vars)
  BY StepSeen DEF Seen
<1> QED BY <1>1, InitSeen, Invariance, NumbersAreUnique, PTL DEF Spec, ImplementsDataflow, Net!Spec
===============================================================================
