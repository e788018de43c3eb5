----------------------------- MODULE GraphRunWork -----------------------------
(***************************************************************************)
(* No work of a run is forgotten.  A queued attempt of a run that may      *)
(* schedule always has a wakeup for its node (NoLostAttempt), whatever     *)
(* crashes, times out or is commanded: the wakeups a transaction spends    *)
(* are those of the node whose attempt it settles.  A node that can fire   *)
(* has one too as long as no control command was given, that is, while the *)
(* control epoch is 0; after an interrupt it may not (finding 1), so the   *)
(* theorems about NoLostWork and CompletedIsDrained name the epoch.        *)
(***************************************************************************)
EXTENDS GraphRunProofs, WellFoundedInduction

-------------------------------------------------------------------------------
(***************************************************************************)
(* Wakeups of a kind for a node.                                           *)
(***************************************************************************)
Wakes(W, kind, n) == \E x \in W : x.key.kind = kind /\ x.key.node = n

\* No wakeup of this kind is lost, for any node but these.
Keeps(kind, N) == \A m \in Nodes \ N : Wakes(wakeups, kind, m) => Wakes(wakeups', kind, m)

\* Enqueueing adds the key, or finds it there, and loses nothing.
LEMMA EnqueueWakes ==
  ASSUME NEW W, NEW key, NEW now
  PROVE  /\ Wakes(Enqueue(W, key, now), key.kind, key.node)
         /\ \A kind, n : Wakes(W, kind, n) => Wakes(Enqueue(W, key, now), kind, n)
<1>1. CASE \E x \in W : x.key = key
  BY <1>1 DEF Enqueue, Wakes
<1>2. CASE ~\E x \in W : x.key = key
  <2> DEFINE x == [key |-> key, status |-> "pending", at |-> now, lease |-> 0]
  <2>1. Enqueue(W, key, now) = W \cup {x} /\ x.key = key
    BY <1>2 DEF Enqueue
  <2> HIDE DEF x
  <2> QED BY <2>1 DEF Wakes
<1> QED BY <1>1, <1>2

\* Spending a key loses wakeups of its kind for its node only.
LEMMA FinishWakes ==
  ASSUME NEW W, NEW key, NEW kind, NEW n, kind # key.kind \/ n # key.node
  PROVE  Wakes(W, kind, n) => Wakes(Finish(W, key), kind, n)
BY DEF Finish, Wakes

\* Giving back an expired claim loses nothing, ...
LEMMA UnclaimWakes ==
  ASSUME NEW W \in SUBSET WakeupRows, NEW kind, NEW n, NEW now
  PROVE  Wakes(W, kind, n) => Wakes(Unclaim(W, now), kind, n)
<1>1. ASSUME NEW y \in W PROVE [y EXCEPT !.status = "pending", !.lease = 0].key = y.key
  BY DEF WakeupRows
<1>2. ASSUME NEW y \in W PROVE \E z \in Unclaim(W, now) : z.key = y.key
  BY <1>1 DEF Unclaim
<1> QED BY <1>2 DEF Wakes

\* ... nor does claiming.
LEMMA ClaimWakes ==
  ASSUME NEW W \in SUBSET WakeupRows, NEW kind, NEW n, NEW x \in W, NEW lease
  PROVE  Wakes(W, kind, n) =>
           Wakes((W \ {x}) \cup {[x EXCEPT !.status = "claimed", !.lease = lease]}, kind, n)
<1>1. [x EXCEPT !.status = "claimed", !.lease = lease].key = x.key
  BY DEF WakeupRows
<1> QED BY <1>1 DEF Wakes

-------------------------------------------------------------------------------
(***************************************************************************)
(* What a worker holds agrees with where it stands.                        *)
(***************************************************************************)
PhasesFit ==
  \A w \in Workers :
    /\ workers[w].phase \in {"mark", "execute"} => workers[w].key.kind = "attempt_ready"
    /\ workers[w].phase = "activate" => workers[w].key.kind # "attempt_ready"
    /\ workers[w].phase = "settle" => workers[w].key.kind = "settle_run"

\* The workers a step leaves alone, and the one that moved.
LEMMA PhaseFits ==
  ASSUME TypeOK, PhasesFit, NEW w \in Workers, NEW next, Goto(w, next),
         next.phase \in {"mark", "execute"} => next.key.kind = "attempt_ready",
         next.phase = "activate" => next.key.kind # "attempt_ready",
         next.phase = "settle" => next.key.kind = "settle_run"
  PROVE  PhasesFit'
BY DEF TypeOK, PhasesFit, Goto

\* A worker takes up what its wakeup is for (claim.rs, scheduler.rs).
LEMMA PhasesKept == TypeOK /\ PhasesFit /\ [Next]_vars => PhasesFit'
<1> SUFFICES ASSUME TypeOK, PhasesFit, [Next]_vars PROVE PhasesFit'
  OBVIOUS
<1> DEFINE Free(next) == next.phase \in {"idle", "recover", "claim"}
<1>1. ASSUME NEW w \in Workers, NEW next, Goto(w, next), Free(next) PROVE PhasesFit'
  BY <1>1, PhaseFits
<1>2. Free(Idle) /\ Free([Idle EXCEPT !.phase = "recover", !.now = clock])
      /\ \A w \in Workers : Free(To(w, "claim"))
  BY WorkerTypes DEF Idle, To, WorkerStates
<1> HIDE DEF Free
<1>3. ASSUME NEW w \in Workers, TimerStep(w) PROVE PhasesFit'
  <2>1. Begin(w)
    BY <1>3 DEF TimerStep, NoTimerDue, FireRunDeadline, FireAndRetry, FireAndFail, ParkRetry,
                FireRetry, WaitFails, WaitTimesOut
  <2> QED BY <1>1, <1>2, <2>1 DEF Begin
<1>4. ASSUME NEW w \in Workers, RecoverStep(w) PROVE PhasesFit'
  <2>1. Goto(w, To(w, "claim"))
    BY <1>4 DEF RecoverStep, RecoverNothing, RecoverExhausted, RecoverAttempt
  <2> QED BY <1>1, <1>2, <2>1
<1>5. ASSUME NEW w \in Workers, ClaimStep(w) PROVE PhasesFit'
  <2>1. CASE Goto(w, Idle)
    BY <1>1, <1>2, <2>1
  <2>2. ASSUME NEW x \in wakeups, NEW i \in 1..MaxAttempts, ClaimAttempt(w, x, i) PROVE PhasesFit'
    <3> DEFINE next == [phase |-> "mark", now |-> workers[w].now, key |-> x.key,
                        seq |-> insts[x.key.node].seq, no |-> i, epoch |-> run.epoch]
    <3>1. Goto(w, next) /\ next.phase = "mark" /\ next.key.kind = "attempt_ready"
      BY <2>2 DEF ClaimAttempt
    <3> HIDE DEF next
    <3> QED BY <3>1, PhaseFits
  <2>3. ASSUME NEW x \in wakeups, ClaimDispatch(w, x) PROVE PhasesFit'
    <3> DEFINE next == [workers[w] EXCEPT !.key = x.key,
                          !.phase = IF x.key.kind = "settle_run" THEN "settle" ELSE "activate"]
    <3>1. Goto(w, next) /\ x.key.kind # "attempt_ready"
      BY <2>3 DEF ClaimDispatch
    <3>2. next.key = x.key /\ next.phase = IF x.key.kind = "settle_run" THEN "settle" ELSE "activate"
      BY WorkerTypes DEF WorkerStates
    <3> HIDE DEF next
    <3> QED BY <3>1, <3>2, PhaseFits
  <2> QED BY <1>5, <2>1, <2>2, <2>3 DEF ClaimStep, ClaimNothing, ClaimNoop
<1>6. ASSUME NEW w \in Workers, ExecuteStep(w) PROVE PhasesFit'
  <2>1. CASE MarkRunning(w)
    <3>1. Goto(w, To(w, "execute")) /\ workers[w].key.kind = "attempt_ready"
      BY <2>1 DEF MarkRunning, PhasesFit
    <3>2. To(w, "execute").phase = "execute" /\ To(w, "execute").key = workers[w].key
      BY WorkerTypes DEF To, WorkerStates
    <3> QED BY <3>1, <3>2, PhaseFits
  <2>2. CASE Goto(w, Idle)
    BY <1>1, <1>2, <2>2
  <2> QED BY <1>6, <2>1, <2>2 DEF ExecuteStep, MarkRejected, FinalizeRejected, FinalizeFailed,
                Finalizes, FinalizeReconcile, FinalizeCompleted, FinalizeWaiting
<1>7. ASSUME NEW w \in Workers, ActivateStep(w) \/ SettleStep(w) \/ Crash(w) PROVE PhasesFit'
  <2>1. Goto(w, Idle)
    BY <1>7 DEF ActivateStep, ActivateSkipped, ActivateDropped, ActivateNotReady, ActivateOverLimit,
                ActivateReady, ActivateInvalid, Consumes, Activating, SettleStep, SettleLate,
                SettleWaiting, SettleBusy, SettleMissing, SettleCompleted, Settles, Crash
  <2> QED BY <1>1, <1>2, <2>1
<1>8. CASE UNCHANGED workers
  BY <1>8 DEF PhasesFit
<1> QED BY <1>3, <1>4, <1>5, <1>6, <1>7, <1>8
           DEF Next, WorkerStep, Interrupt, Resume, Controls, Cancel, SubmitResponse, Tick, vars

-------------------------------------------------------------------------------
(***************************************************************************)
(* Queued attempts: each has a wakeup, and none exceeds the limit, so that *)
(* a claim that looks at the attempts up to MaxAttempts sees it.           *)
(***************************************************************************)
Open == {"running", "waiting"}
Queued(A) == \E i \in DOMAIN A : A[i].status = "queued"

\* A pending retry has an attempt left to make.
AttemptsLeft ==
  \A n \in Nodes : /\ Len(attempts[n]) <= MaxAttempts
                   /\ Pledges(retries[n]) # {} => Len(attempts[n]) < MaxAttempts
Attended == AttemptsLeft /\ NoLostAttempt

\* Only a ready node has a queued attempt, and only a waiting one a retry.
LEMMA OwnedQueued ==
  ASSUME NEW st, NEW A \in Seq(AttemptRows), NEW R, NEW wait, Owned(st, A, R, wait)
  PROVE  /\ Queued(A) => st = "ready"
         /\ Queued(A) => \E i \in DOMAIN A : /\ i = Len(A) /\ A[i].status = "queued"
                                             /\ \A j \in 1..(i - 1) : A[j].status # "queued"
         /\ Pledges(R) # {} => st = "waiting"
<1>1. ASSUME NEW i \in DOMAIN A, A[i].status = "queued"
      PROVE  i = Len(A) /\ st = "ready"
  BY <1>1, OwnedLive DEF Held
<1>2. DOMAIN A = 1..Len(A) /\ Len(A) \in Nat
  BY LenProperties
<1>3. ASSUME NEW i \in DOMAIN A, A[i].status = "queued"
      PROVE  \A j \in 1..(i - 1) : A[j].status # "queued"
  BY <1>1, <1>2, <1>3
<1> QED BY <1>1, <1>3 DEF Queued, Owned

\* Sequences over the same positions have the same length.
LEMMA SameLen ==
  ASSUME NEW S, NEW T, NEW A \in Seq(S), NEW B \in Seq(T), DOMAIN A = DOMAIN B
  PROVE  Len(A) = Len(B)
BY LenProperties

\* Restarting and draining keep the run open, or not.
LEMMA OpenStatus ==
  ASSUME Inv
  PROVE  /\ Restarted.status \in Open <=> run.status \in Open
         /\ Restarted.epoch = run.epoch
         /\ \A A : /\ Drained(A).status \in Open <=> run.status \in Open
                   /\ Drained(A).epoch = run.epoch
BY DEF Inv, TypeOK, RunRows, Restarted, Drained, Open

\* A step that changes the attempts of no node.
LEMMA NoNodeAttended ==
  ASSUME Attended, attempts' = attempts,
         \A n \in Nodes : Pledges(retries'[n]) # {} => Pledges(retries[n]) # {},
         run'.status \in Open => run.status \in Open,
         Keeps("attempt_ready", {})
  PROVE  Attended'
<1>1. AttemptsLeft'
  BY DEF Attended, AttemptsLeft
<1>2. NoLostAttempt'
  BY DEF Attended, NoLostAttempt, Keeps, Wakes, Open
<1> QED BY <1>1, <1>2 DEF Attended

\* A step that changes those of one node.
LEMMA OneNodeAttended ==
  ASSUME Attended, NEW n \in Nodes,
         \A m \in Nodes \ {n} : attempts'[m] = attempts[m] /\ retries'[m] = retries[m],
         Len(attempts'[n]) <= MaxAttempts,
         Pledges(retries'[n]) # {} => Len(attempts'[n]) < MaxAttempts,
         run'.status \in Open => run.status \in Open,
         Keeps("attempt_ready", {n}),
         run'.status \in Open /\ Queued(attempts'[n]) => Wakes(wakeups', "attempt_ready", n)
  PROVE  Attended'
<1>1. AttemptsLeft'
  BY DEF Attended, AttemptsLeft
<1>2. NoLostAttempt'
  <2>1. SUFFICES ASSUME run'.status \in Open, NEW m \in Nodes, NEW i \in DOMAIN attempts'[m],
                        attempts'[m][i].status = "queued"
                 PROVE  Wakes(wakeups', "attempt_ready", m)
    BY DEF NoLostAttempt, Wakes, Open
  <2>2. CASE m = n
    BY <2>1, <2>2 DEF Queued
  <2>3. CASE m # n
    <3>1. Wakes(wakeups, "attempt_ready", m)
      BY <2>1, <2>3 DEF Attended, NoLostAttempt, Wakes, Open
    <3> QED BY <2>3, <3>1 DEF Keeps
  <2> QED BY <2>2, <2>3
<1> QED BY <1>1, <1>2 DEF Attended

\* A step after which one node has one more attempt, queued, with its wakeup.
LEMMA AddedAttended ==
  ASSUME Attended, Inv', NEW n \in Nodes, NEW A \in Seq(AttemptRows), NEW x \in AttemptRows,
         attempts'[n] = Append(A, x), Len(A) < MaxAttempts, insts'[n].status = "ready",
         \A m \in Nodes \ {n} : attempts'[m] = attempts[m] /\ retries'[m] = retries[m],
         run'.status \in Open => run.status \in Open,
         run'.status \in Open => Keeps("attempt_ready", {n}) /\ Wakes(wakeups', "attempt_ready", n)
  PROVE  Attended'
<1>1. Len(attempts'[n]) <= MaxAttempts
  BY LimitAssumption
<1>2. Pledges(retries'[n]) = {}
  BY DEF Inv, OneOwner, Owned
<1>3. CASE run'.status \in Open
  BY <1>1, <1>2, <1>3, OneNodeAttended
<1>4. CASE run'.status \notin Open
  BY <1>1, <1>2, <1>4 DEF Attended, AttemptsLeft, NoLostAttempt, Open
<1> QED BY <1>3, <1>4

\* The end of the run.
LEMMA EndAttended ==
  ASSUME Attended, Inv', NEW status \in Terminal, NEW I, NEW A \in [Nodes -> Seq(AttemptRows)], NEW C,
         EndRun(status, I, A, C), \A n \in Nodes : Len(A[n]) <= MaxAttempts
  PROVE  Attended'
<1>1. ASSUME NEW n \in Nodes
      PROVE  Len(attempts'[n]) <= MaxAttempts /\ Pledges(retries'[n]) = {}
  <2>1. DOMAIN attempts'[n] = DOMAIN A[n]
    BY DEF EndRun
  <2>2. attempts'[n] \in Seq(AttemptRows)
    BY DEF Inv, TypeOK
  <2>3. Len(attempts'[n]) = Len(A[n])
    BY <2>1, <2>2, SameLen
  <2>4. insts'[n].status \notin Active
    BY DEF Inv, EndedIsClosed, HasStatus, EndRun
  <2>5. Pledges(retries'[n]) = {}
    BY <2>4 DEF Inv, OneOwner, Owned, Active
  <2> QED BY <2>3, <2>5
<1>2. AttemptsLeft'
  BY <1>1 DEF AttemptsLeft
<1>3. NoLostAttempt'
  BY DEF NoLostAttempt, EndRun, Terminal
<1> QED BY <1>2, <1>3 DEF Attended

\* The end of the run with the attempts as they are, or with one settled.
LEMMA EndsAttended ==
  ASSUME Inv, Attended, Inv', NEW status \in Terminal, NEW I, NEW C,
         \/ EndRun(status, I, attempts, C)
         \/ \E n \in Nodes : \E i \in DOMAIN attempts[n], x \in AttemptRows :
               EndRun(status, I, [attempts EXCEPT ![n][i] = x], C)
  PROVE  Attended'
<1>1. attempts \in [Nodes -> Seq(AttemptRows)] /\ \A n \in Nodes : Len(attempts[n]) <= MaxAttempts
  BY DEF Inv, TypeOK, Attended, AttemptsLeft
<1>2. ASSUME NEW n \in Nodes, NEW i \in DOMAIN attempts[n], NEW x \in AttemptRows,
             EndRun(status, I, [attempts EXCEPT ![n][i] = x], C)
      PROVE  Attended'
  <2> DEFINE A == [attempts EXCEPT ![n][i] = x]
  <2>1. A \in [Nodes -> Seq(AttemptRows)]
    BY <1>1, PutType
  <2>2. ASSUME NEW m \in Nodes PROVE Len(A[m]) <= MaxAttempts
    <3>1. A[m] \in Seq(AttemptRows) /\ DOMAIN A[m] = DOMAIN attempts[m]
      BY <1>1, <2>1
    <3>2. Len(A[m]) = Len(attempts[m])
      BY <1>1, <3>1, SameLen
    <3> QED BY <1>1, <3>2
  <2> HIDE DEF A
  <2>3. EndRun(status, I, A, C)
    BY <1>2 DEF A
  <2> QED BY <2>1, <2>2, <2>3, EndAttended
<1>3. CASE EndRun(status, I, attempts, C)
  BY <1>1, <1>3, EndAttended
<1> QED BY <1>2, <1>3

\* A step that changes one attempt of one node.
LEMMA ChangedAttended ==
  ASSUME Inv, Attended, Inv', NEW n \in Nodes, NEW i \in DOMAIN attempts[n], NEW x,
         attempts' = [attempts EXCEPT ![n][i] = x],
         \A m \in Nodes \ {n} : retries'[m] = retries[m],
         Pledges(retries'[n]) # {} => Len(attempts[n]) < MaxAttempts,
         run'.status \in Open => run.status \in Open,
         Keeps("attempt_ready", {n}),
         insts'[n].status = "ready" => Wakes(wakeups', "attempt_ready", n)
  PROVE  Attended'
<1>1. /\ attempts[n] \in Seq(AttemptRows) /\ attempts'[n] \in Seq(AttemptRows)
      /\ Owned(insts'[n].status, attempts'[n], retries'[n], waits'[n])
      /\ attempts \in [Nodes -> Seq(AttemptRows)]
  BY DEF Inv, TypeOK, OneOwner
<1>2. DOMAIN attempts'[n] = DOMAIN attempts[n] /\ \A m \in Nodes \ {n} : attempts'[m] = attempts[m]
  BY <1>1
<1>3. Len(attempts'[n]) = Len(attempts[n])
  BY <1>1, <1>2, SameLen
<1>4. Len(attempts[n]) <= MaxAttempts
  BY DEF Attended, AttemptsLeft
<1>5. Queued(attempts'[n]) => insts'[n].status = "ready"
  BY <1>1, OwnedQueued
<1> QED BY <1>2, <1>3, <1>4, <1>5, OneNodeAttended

\* What is known of a held attempt: it is the last, and no retry is pending.
LEMMA HeldIsLast ==
  ASSUME Inv, NEW n \in Nodes, NEW i \in DOMAIN attempts[n], attempts[n][i].status \in Held
  PROVE  /\ i = Len(attempts[n]) /\ Pledges(retries[n]) = {}
         /\ \A s \in {"waiting", "completed", "failed", "timed_out", "cancelled"} :
              Ended(attempts[n][i], s) \in AttemptRows
<1>1. attempts[n] \in Seq(AttemptRows) /\ attempts[n][i] \in AttemptRows
  BY RowTypes DEF Inv, TypeOK
<1>2. Owned(insts[n].status, attempts[n], retries[n], waits[n])
  BY DEF Inv, OneOwner
<1> QED BY <1>1, <1>2, OwnedLive, AttemptTypes

\* A held attempt replaced by a queued one: one attempt more.
LEMMA ReplacedAttended ==
  ASSUME Inv, Attended, Inv', NEW n \in Nodes, NEW i \in DOMAIN attempts[n],
         attempts[n][i].status \in Held, i < MaxAttempts,
         NEW kind \in {"retry", "reconcile"}, NEW ordinal \in Nat, NEW epoch \in Nat,
         attempts' = Replaced(n, i, NewAttempt(kind, ordinal, epoch)),
         insts' = [insts EXCEPT ![n].status = "ready"], retries' = retries,
         run'.status \in Open => run.status \in Open,
         Keeps("attempt_ready", {n}), Wakes(wakeups', "attempt_ready", n)
  PROVE  Attended'
<1> DEFINE A == [attempts[n] EXCEPT ![i] = Ended(attempts[n][i], "failed")]
<1>1. A \in Seq(AttemptRows) /\ DOMAIN A = DOMAIN attempts[n]
  BY HeldEnds
<1>2. attempts[n] \in Seq(AttemptRows) /\ i = Len(attempts[n]) /\ attempts \in [Nodes -> Seq(AttemptRows)]
  BY HeldIsLast DEF Inv, TypeOK
<1>3. Len(A) < MaxAttempts
  BY <1>1, <1>2, SameLen
<1>4. NewAttempt(kind, ordinal, epoch) \in AttemptRows
  BY AttemptTypes
<1>5. attempts' = [attempts EXCEPT ![n] = Append(A, NewAttempt(kind, ordinal, epoch))]
  BY DEF Replaced
<1> HIDE DEF A
<1>6. insts'[n].status = "ready"
  BY DEF Inv, TypeOK, InstRows
<1> QED BY <1>1, <1>2, <1>3, <1>4, <1>5, <1>6, AddedAttended

\* A wait that is over: one attempt more, if its run may schedule with its
\* wakeup; if it may not, the resume will make one.
LEMMA ResumeAttended ==
  ASSUME Inv, Attended, Inv', NEW n \in Nodes, waits[n] # NoWait, ResumeAttempt(n),
         retries' = retries, NEW key, key.kind = "attempt_ready", key.node = n,
         wakeups' = IF run.status \in Open THEN Enqueue(wakeups, key, clock) ELSE wakeups
  PROVE  Attended'
<1> DEFINE x == NewAttempt("resume", attempts[n][waits[n].no].ordinal, run.epoch)
<1>1. attempts \in [Nodes -> Seq(AttemptRows)] /\ waits[n].no \in DOMAIN attempts[n]
  BY DEF Inv, TypeOK, OneOwner, Owned
<1>2. x \in AttemptRows
  <2>1. attempts[n][waits[n].no].ordinal \in Nat /\ run.epoch \in Nat
    BY <1>1, RowTypes, RunTypes DEF Inv, AttemptRows
  <2> QED BY <2>1, AttemptTypes
<1>3. /\ attempts' = [attempts EXCEPT ![n] = Append(attempts[n], x)]
      /\ Len(attempts[n]) < MaxAttempts /\ insts' = [insts EXCEPT ![n].status = "ready"]
      /\ run' = Restarted
  BY DEF ResumeAttempt
<1> HIDE DEF x
<1>4. insts'[n].status = "ready"
  BY <1>3 DEF Inv, TypeOK, InstRows
<1>5. run.status \in Open => Keeps("attempt_ready", {n}) /\ Wakes(wakeups', "attempt_ready", n)
  BY EnqueueWakes DEF Keeps
<1>6. run'.status \in Open => run.status \in Open
  BY <1>3, OpenStatus
<1> QED BY <1>1, <1>2, <1>3, <1>4, <1>5, <1>6, AddedAttended

-------------------------------------------------------------------------------
(***************************************************************************)
(* Every step attends to the queued attempts.                              *)
(***************************************************************************)
\* The retry of an attempt that timed out.
LEMMA FireAndRetryAttended ==
  ASSUME Inv, Attended, Inv', NEW w \in Workers, NEW n \in Nodes, NEW i \in 1..MaxAttempts,
         FireAndRetry(w, n, i)
  PROVE  Attended'
<1>1. i \in DOMAIN attempts[n] /\ attempts[n][i].status \in Held /\ i < MaxAttempts
  BY DEF FireAndRetry, DeadlineOf, MayRetry
<1>2. i = Len(attempts[n])
  BY <1>1, HeldIsLast
<1>3. attempts' = [attempts EXCEPT ![n][i] = Ended(attempts[n][i], "timed_out")]
  BY <1>1 DEF FireAndRetry, TimedOut, Inv, TypeOK
<1>4. insts'[n].status = "waiting" /\ \A m \in Nodes \ {n} : retries'[m] = retries[m]
  BY DEF FireAndRetry, Inv, TypeOK, InstRows
<1>5. Keeps("attempt_ready", {n})
  BY DEF FireAndRetry, Unheld, Keeps, Wakes
<1>6. run'.status \in Open => run.status \in Open
  BY OpenStatus DEF FireAndRetry, Open
<1> QED BY <1>1, <1>2, <1>3, <1>4, <1>5, <1>6, ChangedAttended

\* The timers.
LEMMA TimerStepAttended ==
  ASSUME Inv, Attended, Inv', NEW w \in Workers, TimerStep(w)
  PROVE  Attended'
<1>1. CASE NoTimerDue(w)
  BY <1>1, NoNodeAttended DEF NoTimerDue, rows, Keeps
<1>2. CASE FireRunDeadline(w)
  BY <1>2, EndsAttended DEF FireRunDeadline, Terminal
<1>3. ASSUME NEW n \in Nodes, NEW i \in 1..MaxAttempts, FireAndFail(w, n, i)
      PROVE  Attended'
  <2>1. i \in DOMAIN attempts[n] /\ attempts[n][i].status \in Held
    BY <1>3 DEF FireAndFail, DeadlineOf
  <2>2. Ended(attempts[n][i], "timed_out") \in AttemptRows
    BY <2>1, HeldIsLast
  <2>3. TimedOut(n, i) = [attempts EXCEPT ![n][i] = Ended(attempts[n][i], "timed_out")]
    BY <2>1 DEF TimedOut, Inv, TypeOK
  <2>4. EndRun("failed", [insts EXCEPT ![n].status = "failed"],
               [attempts EXCEPT ![n][i] = Ended(attempts[n][i], "timed_out")], counters)
    BY <1>3, <2>3 DEF FireAndFail
  <2> QED BY <2>1, <2>2, <2>4, EndsAttended DEF Terminal
<1>4. ASSUME NEW n \in Nodes, NEW r \in retries[n], ParkRetry(w, n, r)
      PROVE  Attended'
  <2>1. r \in Pledges(retries[n])
    BY <1>4 DEF ParkRetry, Pledges
  <2>2. \A m \in Nodes : Pledges(retries'[m]) # {} => Pledges(retries[m]) # {}
    BY <1>4, <2>1 DEF ParkRetry, Inv, TypeOK
  <2> QED BY <1>4, <2>2, NoNodeAttended DEF ParkRetry, Keeps
<1>5. ASSUME NEW n \in Nodes, NEW r \in retries[n], FireRetry(w, n, r)
      PROVE  Attended'
  <2> DEFINE x == NewAttempt("retry", r.ordinal, run.epoch)
  <2>1. r \in Pledges(retries[n])
    BY <1>5 DEF FireRetry, Pledges
  <2>2. Len(attempts[n]) < MaxAttempts
    BY <2>1 DEF Attended, AttemptsLeft
  <2>3. x \in AttemptRows
    <3>1. r.ordinal \in Nat /\ run.epoch \in Nat
      BY RunTypes DEF Inv, TypeOK, RetryRows
    <3> QED BY <3>1, AttemptTypes
  <2>4. /\ attempts' = [attempts EXCEPT ![n] = Append(attempts[n], x)]
        /\ insts' = [insts EXCEPT ![n].status = "ready"] /\ run' = Restarted
        /\ wakeups' = Enqueue(wakeups, AttemptReady(n, insts[n].seq, r.no), clock)
        /\ \A m \in Nodes \ {n} : retries'[m] = retries[m]
    BY <1>5 DEF FireRetry, Inv, TypeOK
  <2> HIDE DEF x
  <2>5. attempts[n] \in Seq(AttemptRows) /\ insts'[n].status = "ready" /\ attempts'[n] = Append(attempts[n], x)
        /\ \A m \in Nodes \ {n} : attempts'[m] = attempts[m]
    BY <2>4 DEF Inv, TypeOK, InstRows
  <2>6. Keeps("attempt_ready", {n}) /\ Wakes(wakeups', "attempt_ready", n)
    BY <2>4, EnqueueWakes DEF Keeps, AttemptReady, Key
  <2>7. run'.status \in Open => run.status \in Open
    BY <2>4, OpenStatus
  <2> QED BY <2>2, <2>3, <2>4, <2>5, <2>6, <2>7, AddedAttended
<1>6. ASSUME NEW n \in Nodes, WaitFails(w, n)
      PROVE  Attended'
  <2>1. waits[n] # NoWait
    BY <1>6 DEF WaitFails, NoWait
  <2>2. waits[n].no \in DOMAIN attempts[n]
    BY <2>1 DEF Inv, OneOwner, Owned
  <2>3. Ended(attempts[n][waits[n].no], "timed_out") \in AttemptRows
    BY <2>2, RowTypes, AttemptTypes DEF Inv
  <2>4. EndRun("failed", [insts EXCEPT ![n].status = "failed"],
               [attempts EXCEPT ![n][waits[n].no] = Ended(attempts[n][waits[n].no], "timed_out")], counters)
    <3>1. [attempts EXCEPT ![n][waits[n].no] = Ended(@, "timed_out")]
            = [attempts EXCEPT ![n][waits[n].no] = Ended(attempts[n][waits[n].no], "timed_out")]
      BY <2>2 DEF Inv, TypeOK
    <3> QED BY <1>6, <3>1 DEF WaitFails
  <2> QED BY <2>2, <2>3, <2>4, EndsAttended DEF Terminal
<1>7. ASSUME NEW n \in Nodes, WaitTimesOut(w, n)
      PROVE  Attended'
  BY <1>7, ResumeAttended DEF WaitTimesOut, NoWait, WaitTimeout, Key, Open
<1> QED BY <1>1, <1>2, <1>3, <1>4, <1>5, <1>6, <1>7, FireAndRetryAttended DEF TimerStep

\* Lease recovery.
LEMMA RecoverStepAttended ==
  ASSUME Inv, Attended, Inv', NEW w \in Workers, RecoverStep(w)
  PROVE  Attended'
<1>1. wakeups \in SUBSET WakeupRows /\ workers[w].now \in Nat
  BY WorkerTypes DEF Inv, TypeOK
<1>2. ASSUME NEW n PROVE Wakes(wakeups, "attempt_ready", n)
                         => Wakes(Unclaim(wakeups, workers[w].now), "attempt_ready", n)
  BY <1>1, UnclaimWakes
<1>3. CASE RecoverNothing(w)
  BY <1>2, <1>3, NoNodeAttended DEF RecoverNothing, Keeps
<1>4. ASSUME NEW n \in Nodes, NEW i \in 1..MaxAttempts, RecoverExhausted(w, n, i)
      PROVE  Attended'
  BY <1>4, EndsAttended DEF RecoverExhausted, Terminal
<1>5. ASSUME NEW n \in Nodes, NEW i \in 1..MaxAttempts, RecoverAttempt(w, n, i)
      PROVE  Attended'
  <2>1. i \in DOMAIN attempts[n] /\ attempts[n][i].status \in Held /\ i < MaxAttempts
    BY <1>5 DEF RecoverAttempt, FirstExpired, Expired
  <2>2. attempts[n][i].ordinal + 1 \in Nat /\ run.epoch \in Nat
    <3>1. attempts[n][i] \in AttemptRows
      BY <2>1, RowTypes DEF Inv
    <3>2. attempts[n][i].ordinal \in Nat
      BY <3>1 DEF AttemptRows
    <3>3. run.epoch \in Nat
      BY RunTypes DEF Inv
    <3> QED BY <3>2, <3>3
  <2>3. Keeps("attempt_ready", {n}) /\ Wakes(wakeups', "attempt_ready", n)
    BY <1>2, <1>5, EnqueueWakes DEF RecoverAttempt, Keeps, AttemptReady, Key
  <2>4. run'.status \in Open => run.status \in Open
    BY <1>5, OpenStatus DEF RecoverAttempt
  <2> QED BY <1>5, <2>1, <2>2, <2>3, <2>4, ReplacedAttended DEF RecoverAttempt
<1> QED BY <1>3, <1>4, <1>5 DEF RecoverStep

\* A claim leases the first queued attempt of its node, and a wakeup without
\* one is no loss.
LEMMA ClaimStepAttended ==
  ASSUME Inv, Attended, Inv', NEW w \in Workers, ClaimStep(w)
  PROVE  Attended'
<1>1. CASE ClaimNothing(w)
  BY <1>1, NoNodeAttended DEF ClaimNothing, rows, Keeps
<1>2. ASSUME NEW x \in wakeups PROVE \A n : Wakes(wakeups, "attempt_ready", n)
                                            => Wakes(Claimed(w, x), "attempt_ready", n)
  BY ClaimWakes DEF Claimed, Inv, TypeOK
<1>3. ASSUME NEW x \in wakeups, ClaimNoop(w, x)
      PROVE  Attended'
  <2> DEFINE n == x.key.node
  <2>1. n \in Nodes
    BY DEF Inv, TypeOK, WakeupRows, Keys
  <2>2. /\ Owned(insts[n].status, attempts[n], retries[n], waits[n])
        /\ attempts[n] \in Seq(AttemptRows) /\ Len(attempts[n]) <= MaxAttempts
        /\ Pledges(retries[n]) # {} => Len(attempts[n]) < MaxAttempts
    BY <2>1 DEF Inv, OneOwner, TypeOK, Attended, AttemptsLeft
  <2>3. ~Queued(attempts[n])
    <3>1. SUFFICES ASSUME Queued(attempts[n]) PROVE \E i \in 1..MaxAttempts : FirstQueued(n, i)
      BY <1>3 DEF ClaimNoop
    <3>2. insts[n].status = "ready" /\ \E i \in DOMAIN attempts[n] :
              /\ i = Len(attempts[n]) /\ attempts[n][i].status = "queued"
              /\ \A j \in 1..(i - 1) : attempts[n][j].status # "queued"
      BY <2>2, <3>1, OwnedQueued
    <3>3. DOMAIN attempts[n] = 1..Len(attempts[n]) /\ Len(attempts[n]) \in Nat
      BY <2>2, LenProperties
    <3>4. PICK i \in DOMAIN attempts[n] : /\ i = Len(attempts[n]) /\ attempts[n][i].status = "queued"
                                          /\ \A j \in 1..(i - 1) : attempts[n][j].status # "queued"
      BY <3>2
    <3>5. i \in 1..MaxAttempts
      BY <2>2, <3>3, <3>4, LimitAssumption
    <3> QED BY <3>2, <3>4, <3>5 DEF FirstQueued
  <2>4. Keeps("attempt_ready", {n})
    BY <1>3, FinishWakes DEF ClaimNoop, Keeps
  <2>5. attempts' = attempts /\ retries' = retries /\ run' = run
    BY <1>3 DEF ClaimNoop
  <2> HIDE DEF n
  <2> QED BY <2>1, <2>2, <2>3, <2>4, <2>5, OneNodeAttended
<1>4. ASSUME NEW x \in wakeups, ClaimDispatch(w, x)
      PROVE  Attended'
  BY <1>2, <1>4, NoNodeAttended DEF ClaimDispatch, Keeps
<1>5. ASSUME NEW x \in wakeups, NEW i \in 1..MaxAttempts, ClaimAttempt(w, x, i)
      PROVE  Attended'
  <2> DEFINE n == x.key.node
  <2>1. n \in Nodes /\ i \in DOMAIN attempts[n] /\ x.key.kind = "attempt_ready"
    BY <1>5 DEF Inv, TypeOK, WakeupRows, Keys, ClaimAttempt, FirstQueued
  <2>2. \E y : attempts' = [attempts EXCEPT ![n][i] = y]
    BY <1>5 DEF ClaimAttempt
  <2>3. run' = run /\ retries' = retries /\ wakeups' = Claimed(w, x)
    BY <1>5 DEF ClaimAttempt
  <2>4. Wakes(wakeups, "attempt_ready", n)
    BY <2>1 DEF Wakes
  <2>5. Keeps("attempt_ready", {n}) /\ Wakes(wakeups', "attempt_ready", n)
    BY <1>2, <2>3, <2>4 DEF Keeps
  <2>6. Pledges(retries[n]) # {} => Len(attempts[n]) < MaxAttempts
    BY <2>1 DEF Attended, AttemptsLeft
  <2> HIDE DEF n
  <2> QED BY <2>1, <2>2, <2>3, <2>5, <2>6, ChangedAttended
<1> QED BY <1>1, <1>3, <1>4, <1>5 DEF ClaimStep

\* Execution.  The key that a finalization spends is that of its own node.
LEMMA ExecuteStepAttended ==
  ASSUME Inv, PhasesFit, Attended, Inv', NEW w \in Workers, ExecuteStep(w)
  PROVE  Attended'
<1> DEFINE n == Node(w)
           i == workers[w].no
<1>1. n \in Nodes /\ n = workers[w].key.node
  BY WorkerTypes DEF Inv, Node
<1>2. ASSUME Finalizes(w)
      PROVE  /\ i \in DOMAIN attempts[n] /\ attempts[n][i].status \in Held
             /\ Pledges(retries[n]) = {} /\ workers[w].key.kind = "attempt_ready"
             /\ \A s \in {"waiting", "completed", "failed"} : Ended(attempts[n][i], s) \in AttemptRows
             /\ \A s : Settling(w, s) = [attempts EXCEPT ![n][i] = Ended(attempts[n][i], s)]
  <2>1. i \in DOMAIN attempts[n] /\ attempts[n][i].status \in Held
    BY <1>2, FinalizesHeld
  <2>2. Pledges(retries[n]) = {}
        /\ \A s \in {"waiting", "completed", "failed"} : Ended(attempts[n][i], s) \in AttemptRows
    BY <1>1, <2>1, HeldIsLast
  <2>3. workers[w].key.kind = "attempt_ready"
    BY <1>2 DEF Finalizes, PhasesFit
  <2>4. \A s : Settling(w, s) = [attempts EXCEPT ![n][i] = Ended(attempts[n][i], s)]
    BY <1>1, <2>1 DEF Settling, Inv, TypeOK
  <2> QED BY <2>1, <2>2, <2>3, <2>4
<1>3. \A m \in Nodes \ {n} : Wakes(wakeups, "attempt_ready", m)
                               => Wakes(Finish(wakeups, workers[w].key), "attempt_ready", m)
  BY <1>1, FinishWakes
<1>4. CASE MarkRunning(w)
  <2>1. i \in DOMAIN attempts[n] /\ attempts[n][i].status \in Held
    BY <1>4 DEF MarkRunning, Owns, Held
  <2>2. Pledges(retries[n]) = {}
    BY <1>1, <2>1, HeldIsLast
  <2> DEFINE x == [attempts[n][i] EXCEPT !.status = "running"]
  <2>3. attempts' = [attempts EXCEPT ![n][i] = x]
    BY <1>1, <1>4, <2>1 DEF MarkRunning, Inv, TypeOK
  <2>4. insts'[n].status = "running" /\ retries' = retries /\ run' = run /\ wakeups' = wakeups
    BY <1>1, <1>4 DEF MarkRunning, Inv, TypeOK, InstRows
  <2>5. Keeps("attempt_ready", {n})
    BY <2>4 DEF Keeps
  <2> HIDE DEF n, i, x
  <2> QED BY <1>1, <2>1, <2>2, <2>3, <2>4, <2>5, ChangedAttended
<1>5. CASE MarkRejected(w) \/ FinalizeRejected(w)
  BY <1>5, NoNodeAttended DEF MarkRejected, FinalizeRejected, rows, Keeps
<1>6. CASE FinalizeFailed(w)
  <2>1. EndRun("failed", [insts EXCEPT ![n].status = "failed"],
               [attempts EXCEPT ![n][i] = Ended(attempts[n][i], "failed")], counters)
    BY <1>2, <1>6 DEF FinalizeFailed
  <2>2. i \in DOMAIN attempts[n] /\ Ended(attempts[n][i], "failed") \in AttemptRows
    BY <1>2, <1>6 DEF FinalizeFailed
  <2> HIDE DEF n, i
  <2> QED BY <1>1, <2>1, <2>2, EndsAttended DEF Terminal
<1>7. CASE FinalizeReconcile(w)
  <2>1. i \in DOMAIN attempts[n] /\ attempts[n][i].status \in Held /\ i < MaxAttempts
    BY <1>2, <1>7 DEF FinalizeReconcile
  <2>2. /\ attempts' = Replaced(n, i, NewAttempt("reconcile", 0, workers[w].epoch))
        /\ insts' = [insts EXCEPT ![n].status = "ready"] /\ retries' = retries /\ run' = run
        /\ wakeups' = Enqueue(Finish(wakeups, workers[w].key),
                              AttemptReady(n, workers[w].seq, i + 1), workers[w].now)
    BY <1>7 DEF FinalizeReconcile
  <2>3. workers[w].epoch \in Nat
    BY WorkerTypes DEF Inv
  <2> HIDE DEF n, i
  <2>4. Keeps("attempt_ready", {n}) /\ Wakes(wakeups', "attempt_ready", n)
    BY <1>3, <2>2, EnqueueWakes DEF Keeps, AttemptReady, Key
  <2> QED BY <1>1, <2>1, <2>2, <2>3, <2>4, ReplacedAttended
<1>8. ASSUME NEW order, FinalizeCompleted(w, order)
      PROVE  Attended'
  <2>1. /\ i \in DOMAIN attempts[n] /\ Pledges(retries[n]) = {}
        /\ attempts' = [attempts EXCEPT ![n][i] = Ended(attempts[n][i], "completed")]
    BY <1>2, <1>8 DEF FinalizeCompleted
  <2>2. insts'[n].status = "completed" /\ retries' = retries /\ run' = Drained(attempts')
    BY <1>1, <1>8 DEF FinalizeCompleted, Inv, TypeOK, InstRows
  <2>3. Keeps("attempt_ready", {n})
    <3> DEFINE rest == Finish(wakeups, workers[w].key) \cup Alerts(order, workers[w].now)
               more == IF n \in Entry THEN rest
                       ELSE Enqueue(rest, Recheck(n, workers[w].seq), workers[w].now)
    <3>1. wakeups' = Enqueue(more, SettleDone(n, workers[w].seq), workers[w].now)
      BY <1>8 DEF FinalizeCompleted
    <3>2. \A m \in Nodes \ {n} : Wakes(wakeups, "attempt_ready", m) => Wakes(rest, "attempt_ready", m)
      BY <1>3 DEF Wakes
    <3> HIDE DEF rest
    <3>3. \A m : Wakes(rest, "attempt_ready", m) => Wakes(more, "attempt_ready", m)
      BY EnqueueWakes
    <3> HIDE DEF more
    <3> QED BY <3>1, <3>2, <3>3, EnqueueWakes DEF Keeps
  <2>4. run'.status \in Open => run.status \in Open
    BY <2>2, OpenStatus
  <2> HIDE DEF n, i
  <2> QED BY <1>1, <2>1, <2>2, <2>3, <2>4, ChangedAttended
<1>9. ASSUME NEW kind, NEW due, NEW onTimeout, FinalizeWaiting(w, kind, due, onTimeout)
      PROVE  Attended'
  <2>1. /\ i \in DOMAIN attempts[n] /\ Pledges(retries[n]) = {}
        /\ attempts' = [attempts EXCEPT ![n][i] = Ended(attempts[n][i], "waiting")]
    BY <1>2, <1>9 DEF FinalizeWaiting
  <2>2. /\ insts'[n].status = "waiting" /\ retries' = retries /\ run' = Drained(attempts')
        /\ wakeups' = Enqueue(Finish(wakeups, workers[w].key), SettleWait(n, workers[w].seq, i),
                              workers[w].now)
    BY <1>1, <1>9 DEF FinalizeWaiting, Inv, TypeOK, InstRows
  <2>3. Keeps("attempt_ready", {n})
    BY <1>3, <2>2, EnqueueWakes DEF Keeps
  <2>4. run'.status \in Open => run.status \in Open
    BY <2>2, OpenStatus
  <2> HIDE DEF n, i
  <2> QED BY <1>1, <2>1, <2>2, <2>3, <2>4, ChangedAttended
<1> QED BY <1>4, <1>5, <1>6, <1>7, <1>8, <1>9 DEF ExecuteStep

\* Activation.  The key it spends is not one of an attempt.
LEMMA ActivateStepAttended ==
  ASSUME Inv, PhasesFit, Attended, Inv', NEW w \in Workers, ActivateStep(w)
  PROVE  Attended'
<1> DEFINE n == Node(w)
           rest == Finish(wakeups, workers[w].key)
           x == NewAttempt("start", 0, run.epoch)
<1>1. n \in Nodes
  BY WorkerTypes DEF Inv
<1>2. workers[w].key.kind # "attempt_ready"
  BY DEF ActivateStep, ActivateSkipped, ActivateDropped, ActivateNotReady, ActivateOverLimit,
         ActivateReady, ActivateInvalid, Consumes, Activating, PhasesFit
<1>3. \A m : Wakes(wakeups, "attempt_ready", m) => Wakes(rest, "attempt_ready", m)
  BY <1>2, FinishWakes
<1>4. x \in AttemptRows
  BY RunTypes, AttemptTypes DEF Inv
<1> HIDE DEF rest, x
<1>5. CASE ActivateSkipped(w)
  BY <1>5, NoNodeAttended DEF ActivateSkipped, Keeps
<1>6. CASE ActivateDropped(w) \/ ActivateNotReady(w)
  <2>1. wakeups' = rest \/ \E key, now : wakeups' = Enqueue(rest, key, now)
    BY <1>6 DEF ActivateDropped, ActivateNotReady, rest
  <2>2. Keeps("attempt_ready", {})
    BY <1>3, <2>1, EnqueueWakes DEF Keeps
  <2> QED BY <1>6, <2>2, NoNodeAttended DEF ActivateDropped, ActivateNotReady
<1>7. CASE ActivateOverLimit(w)
  BY <1>7, EndsAttended DEF ActivateOverLimit, Terminal
<1>8. CASE ActivateReady(w)
  <2>1. /\ attempts' = [attempts EXCEPT ![n] = <<x>>] /\ retries' = [retries EXCEPT ![n] = {}]
        /\ insts' = [insts EXCEPT ![n] = [status |-> "ready", seq |-> insts[n].seq + 1]]
        /\ run' = run
        /\ wakeups' = Enqueue(rest, AttemptReady(n, insts[n].seq + 1, 1), workers[w].now)
    BY <1>8 DEF ActivateReady, rest, x
  <2>2. /\ attempts'[n] = Append(<<>>, x) /\ insts'[n].status = "ready"
        /\ \A m \in Nodes \ {n} : attempts'[m] = attempts[m] /\ retries'[m] = retries[m]
        /\ <<>> \in Seq(AttemptRows) /\ Len(<<>>) < MaxAttempts
    BY <1>1, <2>1, LimitAssumption DEF Inv, TypeOK
  <2>3. Keeps("attempt_ready", {n}) /\ Wakes(wakeups', "attempt_ready", n)
    BY <1>3, <2>1, EnqueueWakes DEF Keeps, AttemptReady, Key
  <2> HIDE DEF n
  <2> QED BY <1>1, <1>4, <2>1, <2>2, <2>3, AddedAttended
<1>9. CASE ActivateInvalid(w)
  <2> DEFINE A == [attempts EXCEPT ![n] = <<Ended(x, "failed")>>]
             I == [insts EXCEPT ![n] = [status |-> "failed", seq |-> @.seq + 1]]
  <2>1. EndRun("failed", I, A, Consumed(n))
    BY <1>9 DEF ActivateInvalid, x
  <2>2. Ended(x, "failed") \in AttemptRows
    BY <1>4, AttemptTypes
  <2>3. A \in [Nodes -> Seq(AttemptRows)]
    BY <1>1, <2>2, OneType DEF Inv, TypeOK
  <2>4. \A m \in Nodes : Len(A[m]) <= MaxAttempts
    BY <1>1, LimitAssumption DEF Attended, AttemptsLeft, Inv, TypeOK
  <2> HIDE DEF A, I
  <2> QED BY <2>1, <2>3, <2>4, EndAttended DEF Terminal
<1> QED BY <1>5, <1>6, <1>7, <1>8, <1>9 DEF ActivateStep

\* Settlement.
LEMMA SettleStepAttended ==
  ASSUME Inv, PhasesFit, Attended, Inv', NEW w \in Workers, SettleStep(w)
  PROVE  Attended'
<1>1. workers[w].key.kind = "settle_run"
  BY DEF SettleStep, SettleLate, SettleWaiting, SettleBusy, SettleMissing, SettleCompleted, Settles,
         PhasesFit
<1>2. \A m : Wakes(wakeups, "attempt_ready", m) => Wakes(Others(w), "attempt_ready", m)
  BY <1>1, FinishWakes DEF Others
<1>3. CASE SettleLate(w) \/ SettleMissing(w)
  BY <1>3, EndsAttended DEF SettleLate, SettleMissing, Terminal
<1>4. CASE SettleWaiting(w) \/ SettleBusy(w)
  BY <1>2, <1>4, NoNodeAttended DEF SettleWaiting, SettleBusy, OnTime, Keeps, Open
<1>5. CASE SettleCompleted(w)
  <2>1. run'.status = "completed"
    BY <1>5 DEF SettleCompleted, Inv, TypeOK, RunRows
  <2>2. ASSUME NEW n \in Nodes
        PROVE  Len(attempts'[n]) = Len(attempts[n]) /\ Pledges(retries'[n]) = {}
    <3>1. DOMAIN attempts'[n] = DOMAIN attempts[n]
      BY <1>5 DEF SettleCompleted
    <3>2. attempts'[n] \in Seq(AttemptRows) /\ attempts[n] \in Seq(AttemptRows)
      BY DEF Inv, TypeOK
    <3>3. insts'[n].status # "waiting"
      BY <2>1 DEF Inv, EndedIsClosed, HasStatus, Terminal, Active
    <3>4. Len(attempts'[n]) = Len(attempts[n])
      BY <3>1, <3>2, SameLen
    <3>5. Pledges(retries'[n]) = {}
      BY <3>3 DEF Inv, OneOwner, Owned
    <3> QED BY <3>4, <3>5
  <2>3. AttemptsLeft'
    BY <2>2 DEF Attended, AttemptsLeft
  <2> QED BY <2>1, <2>3 DEF Attended, NoLostAttempt
<1> QED BY <1>3, <1>4, <1>5 DEF SettleStep

\* The controls and the responses.  A resume restores what an interrupt left.
LEMMA ControlAttended ==
  ASSUME Inv, Attended, Inv', Interrupt \/ Resume \/ Cancel \/ \E n \in Nodes : SubmitResponse(n)
  PROVE  Attended'
<1>1. CASE Interrupt
  <2>1. run'.status \notin Open /\ attempts' = attempts /\ retries' = retries /\ wakeups' = wakeups
    BY <1>1 DEF Interrupt, Controls, Open
  <2> QED BY <2>1, NoNodeAttended DEF Keeps
<1>2. CASE Resume
  <2>1. \A n \in Nodes : Pledges(retries'[n]) # {} => Pledges(retries[n]) # {}
    BY <1>2 DEF Resume, Pledges
  <2>2. attempts' = attempts
    BY <1>2 DEF Resume, Controls
  <2>3. AttemptsLeft'
    BY <2>1, <2>2 DEF Attended, AttemptsLeft
  <2>4. ASSUME NEW n \in Nodes, Queued(attempts[n]) PROVE Wakes(wakeups', "attempt_ready", n)
    <3> DEFINE k == Restored(n, run.epoch + 1)
               x == [key |-> k, status |-> "pending", at |-> clock, lease |-> 0]
    <3>1. x \in wakeups'
      BY <1>2, <2>4 DEF Resume, QueuedNodes, Queued
    <3>2. x.key.kind = "attempt_ready" /\ x.key.node = n
      BY DEF Restored, Key
    <3> HIDE DEF x
    <3> QED BY <3>1, <3>2 DEF Wakes
  <2>5. NoLostAttempt'
    BY <2>2, <2>4 DEF NoLostAttempt, Queued, Wakes
  <2> QED BY <2>3, <2>5 DEF Attended
<1>3. CASE Cancel
  BY <1>3, EndsAttended DEF Cancel, Terminal
<1>4. ASSUME NEW n \in Nodes, SubmitResponse(n)
      PROVE  Attended'
  BY <1>4, ResumeAttended DEF SubmitResponse, NoWait, WaitResume, Key, Open
<1> QED BY <1>1, <1>2, <1>3, <1>4

\* Every step.
LEMMA StepAttended == Inv /\ PhasesFit /\ Attended /\ [Next]_vars => Attended'
<1> SUFFICES ASSUME Inv, PhasesFit, Attended, [Next]_vars PROVE Attended'
  OBVIOUS
<1>1. Inv'
  BY StepInv
<1>2. ASSUME NEW w \in Workers, WorkerStep(w) PROVE Attended'
  BY <1>1, <1>2, TimerStepAttended, RecoverStepAttended, ClaimStepAttended, ExecuteStepAttended,
     ActivateStepAttended, SettleStepAttended DEF WorkerStep
<1>3. CASE (\E w \in Workers : Crash(w)) \/ Tick \/ UNCHANGED vars
  BY <1>3, NoNodeAttended DEF Crash, Tick, vars, rows, Keeps
<1>4. CASE Interrupt \/ Resume \/ Cancel \/ \E n \in Nodes : SubmitResponse(n)
  BY <1>1, <1>4, ControlAttended
<1> QED BY <1>2, <1>3, <1>4 DEF Next

\* A run starts with the wakeups of its Input nodes.
LEMMA InitAttended == Init => PhasesFit /\ Attended
<1> SUFFICES ASSUME Init PROVE PhasesFit /\ Attended
  OBVIOUS
<1>1. PhasesFit
  BY DEF Init, PhasesFit, Idle
<1>2. ASSUME NEW n \in Nodes
      PROVE  /\ Len(attempts[n]) <= MaxAttempts /\ Pledges(retries[n]) = {}
             /\ Queued(attempts[n]) => n \in Entry
  BY LimitAssumption DEF Init, Pledges, Queued
<1>3. ASSUME NEW n \in Entry PROVE Wakes(wakeups, "attempt_ready", n)
  <2> DEFINE x == [key |-> AttemptReady(n, 1, 1), status |-> "pending", at |-> 0, lease |-> 0]
  <2>1. x \in wakeups /\ x.key.kind = "attempt_ready" /\ x.key.node = n
    BY DEF Init, AttemptReady, Key
  <2> HIDE DEF x
  <2> QED BY <2>1 DEF Wakes
<1>4. AttemptsLeft /\ NoLostAttempt
  BY <1>2, <1>3 DEF AttemptsLeft, NoLostAttempt, Queued, Wakes
<1> QED BY <1>1, <1>4 DEF Attended

\* Attendance holds of every reachable state, with what it rests on.
LEMMA AlwaysAttended == Spec => [](PhasesFit /\ Attended)
<1>1. PhasesFit /\ Attended /\ Inv /\ [Next]_vars => (PhasesFit /\ Attended)'
  BY PhasesKept, StepAttended DEF Inv
<1> QED BY InitAttended, <1>1, Invariance, PTL DEF Spec

\* A queued attempt of a run that may schedule always has a wakeup: no crash,
\* no late worker, no timer, no control and no response loses it, and a resume
\* makes a wakeup for each attempt that was queued meanwhile.
THEOREM NoAttemptIsLost == Spec => []NoLostAttempt
<1>1. Attended => NoLostAttempt
  BY DEF Attended
<1> QED BY AlwaysAttended, <1>1, PTL

-------------------------------------------------------------------------------
(***************************************************************************)
(* The wakeups of the nodes that can fire, as long as the epoch is 0: an   *)
(* idle node whose inputs are there has one, and a run that completed has  *)
(* no such node.                                                           *)
(***************************************************************************)
Hungry(n) == insts[n].status \notin Active /\ Fireable(n)
Fed ==
  run.epoch = 0 =>
    /\ run.status \in Open \cup {"completed"}
    /\ run.status \in Open => \A n \in Nodes : Hungry(n) => Wakes(wakeups, "node_maybe_ready", n)
    /\ run.status = "completed" => \A n \in Nodes : ~Fireable(n)

\* A completed run has its required outputs.
Delivered == run.status = "completed" => Required \subseteq produced

\* How a step moves the run itself: its epoch never falls, and only a
\* settlement completes it.
Moves == /\ run'.epoch \in {run.epoch, run.epoch + 1}
         /\ run'.status = "completed" =>
              run.status = "completed" \/ \E w \in Workers : SettleCompleted(w)

\* Every step but a settlement gives the run one of these rows.
LEMMA RunRowMoves ==
  ASSUME Inv,
         \/ run' \in {run, Restarted, [run EXCEPT !.status = "waiting"]} \cup {Drained(attempts')}
         \/ \E st \in RunStatus \ {"completed"} : \E drain :
               run' = [status |-> st, epoch |-> run.epoch + 1, drain |-> drain]
  PROVE  Moves
<1>1. run \in RunRows /\ run.epoch # run.epoch + 1
  BY DEF Inv, TypeOK, RunRows
<1>2. CASE run' \in {run, Restarted, [run EXCEPT !.status = "waiting"]} \cup {Drained(attempts')}
  BY <1>1, <1>2 DEF RunRows, Restarted, Drained, Moves
<1>3. ASSUME NEW st \in RunStatus \ {"completed"}, NEW drain,
             run' = [status |-> st, epoch |-> run.epoch + 1, drain |-> drain]
      PROVE  Moves
  BY <1>3 DEF Moves
<1> QED BY <1>2, <1>3

\* The end of a run by failure or by cancellation.
LEMMA EndRunMoves ==
  ASSUME Inv, NEW st \in {"failed", "cancelled"}, NEW I, NEW A, NEW C, EndRun(st, I, A, C)
  PROVE  Moves
BY RunRowMoves DEF EndRun, RunStatus, Terminal

\* Every step moves the run so.
LEMMA StepMoves == Inv /\ [Next]_vars => Moves
<1> SUFFICES ASSUME Inv, [Next]_vars PROVE Moves
  OBVIOUS
<1> DEFINE Ends == \E st \in {"failed", "cancelled"} : \E I, A, C : EndRun(st, I, A, C)
           Row == run' \in {run, Restarted, [run EXCEPT !.status = "waiting"]} \cup {Drained(attempts')}
<1>1. ASSUME NEW w \in Workers, TimerStep(w) PROVE Ends \/ Row
  BY <1>1 DEF TimerStep, NoTimerDue, FireRunDeadline, FireAndRetry, FireAndFail, ParkRetry, FireRetry,
              WaitFails, WaitTimesOut, ResumeAttempt, rows
<1>2. ASSUME NEW w \in Workers, RecoverStep(w) PROVE Ends \/ Row
  BY <1>2 DEF RecoverStep, RecoverNothing, RecoverExhausted, RecoverAttempt
<1>3. ASSUME NEW w \in Workers, ClaimStep(w) PROVE Row
  BY <1>3 DEF ClaimStep, ClaimNothing, ClaimNoop, ClaimDispatch, ClaimAttempt, rows
<1>4. ASSUME NEW w \in Workers, ExecuteStep(w) PROVE Ends \/ Row
  BY <1>4 DEF ExecuteStep, MarkRunning, MarkRejected, FinalizeRejected, FinalizeFailed,
              FinalizeReconcile, FinalizeCompleted, FinalizeWaiting, rows
<1>5. ASSUME NEW w \in Workers, ActivateStep(w) PROVE Ends \/ Row
  BY <1>5 DEF ActivateStep, ActivateSkipped, ActivateDropped, ActivateNotReady, ActivateOverLimit,
              ActivateReady, ActivateInvalid
<1>6. ASSUME NEW w \in Workers, SettleStep(w), ~SettleCompleted(w) PROVE Ends \/ Row
  BY <1>6 DEF SettleStep, SettleLate, SettleWaiting, SettleBusy, SettleMissing
<1>7. ASSUME NEW w \in Workers, SettleCompleted(w) PROVE Moves
  BY <1>7 DEF SettleCompleted, Moves, Inv, TypeOK, RunRows
<1>8. ASSUME NEW n \in Nodes, SubmitResponse(n) PROVE Row
  BY <1>8 DEF SubmitResponse, ResumeAttempt
<1>9. ASSUME Interrupt \/ Resume PROVE Moves
  <2>1. ASSUME NEW st \in {"interrupting", "interrupted", "running"}, NEW drain, Controls(st, drain)
        PROVE  Moves
    <3>1. st \in RunStatus \ {"completed"} /\ run' = [status |-> st, epoch |-> run.epoch + 1, drain |-> drain]
      BY <2>1 DEF Controls, RunStatus, Halting, Terminal
    <3> QED BY <3>1, RunRowMoves
  <2>2. Controls("interrupting", run.epoch) \/ Controls("interrupted", None) \/ Controls("running", None)
    BY <1>9 DEF Interrupt, Resume
  <2> QED BY <2>1, <2>2
<1>10. ASSUME Cancel PROVE Ends
  BY <1>10 DEF Cancel
<1>11. ASSUME (\E w \in Workers : Crash(w)) \/ Tick \/ UNCHANGED vars PROVE Row
  BY <1>11 DEF Crash, Tick, vars, rows
<1> HIDE DEF Row
<1>12. ASSUME Row PROVE Moves
  BY <1>12, RunRowMoves DEF Row
<1>13. ASSUME Ends PROVE Moves
  BY <1>13, EndRunMoves
<1> HIDE DEF Ends
<1> QED BY <1>1, <1>2, <1>3, <1>4, <1>5, <1>6, <1>7, <1>8, <1>9, <1>10, <1>11, <1>12, <1>13
           DEF Next, WorkerStep

\* A step after which every idle node that can fire has its wakeup.
LEMMA StaysFed ==
  ASSUME Fed, run.epoch = 0, run.status \in Open, run'.status \in Open,
         \A n \in Nodes : Hungry(n)' =>
            \/ Hungry(n) /\ (Wakes(wakeups, "node_maybe_ready", n)
                               => Wakes(wakeups', "node_maybe_ready", n))
            \/ Wakes(wakeups', "node_maybe_ready", n)
  PROVE  Fed'
BY DEF Fed, Open

\* A step that fills and empties no queue, ends no activation and spends no
\* wakeup of this kind.
LEMMA QuietFed ==
  ASSUME Fed, run.epoch = 0, run.status \in Open, run'.status \in Open, queues' = queues,
         \A n \in Nodes : insts'[n].status \notin Active => insts[n].status \notin Active,
         Keeps("node_maybe_ready", {})
  PROVE  Fed'
<1>1. \A n \in Nodes : Hungry(n)' => Hungry(n)
  BY DEF Hungry, Fireable, Heads
<1> QED BY <1>1, StaysFed DEF Keeps

\* The end of the run, which begins a new epoch.
LEMMA EndFed ==
  ASSUME Inv, NEW status, NEW I, NEW A, NEW C, EndRun(status, I, A, C)
  PROVE  Fed'
BY DEF EndRun, Fed, Inv, TypeOK, RunRows

\* An open run that is restarted or drained stays open.
LEMMA StaysOpen ==
  ASSUME Inv, run.status \in Open
  PROVE  Restarted.status \in Open /\ \A A : Drained(A) = run
BY OpenStatus DEF Drained, Open

-------------------------------------------------------------------------------
(***************************************************************************)
(* Every step keeps the nodes that can fire fed.                           *)
(***************************************************************************)
\* The step starts in an open run whose epoch is 0, and keeps the epoch.
Ongoing == Fed /\ run.epoch = 0 /\ run.status \in Open

\* An answered wait makes its node ready.
LEMMA ResumeFed ==
  ASSUME Inv, Ongoing, NEW n \in Nodes, ResumeAttempt(n), queues' = queues,
         wakeups' = wakeups \/ \E key, now : wakeups' = Enqueue(wakeups, key, now)
  PROVE  Fed'
<1>1. \A m \in Nodes : insts'[m].status \notin Active => insts[m].status \notin Active
  BY DEF ResumeAttempt, Inv, TypeOK, InstRows, Active
<1>2. run'.status \in Open
  BY StaysOpen DEF ResumeAttempt, Ongoing
<1>3. Keeps("node_maybe_ready", {})
  BY EnqueueWakes DEF Keeps
<1> QED BY <1>1, <1>2, <1>3, QuietFed DEF Ongoing

\* The timers.
LEMMA TimerStepFed ==
  ASSUME Inv, Ongoing, NEW w \in Workers, TimerStep(w)
  PROVE  Fed'
<1>1. CASE NoTimerDue(w)
  BY <1>1, QuietFed DEF NoTimerDue, rows, Keeps, Ongoing
<1>2. ASSUME NEW n \in Nodes, NEW i \in 1..MaxAttempts, FireAndRetry(w, n, i)
      PROVE  Fed'
  <2>1. \A m \in Nodes : insts'[m].status \notin Active => insts[m].status \notin Active
    BY <1>2 DEF FireAndRetry, Inv, TypeOK, InstRows, Active
  <2>2. run'.status \in Open
    BY <1>2, StaysOpen DEF FireAndRetry, Ongoing, Open, Inv, TypeOK, RunRows
  <2>3. Keeps("node_maybe_ready", {})
    BY <1>2 DEF FireAndRetry, Unheld, Keeps, Wakes
  <2> QED BY <1>2, <2>1, <2>2, <2>3, QuietFed DEF FireAndRetry, Ongoing
<1>3. ASSUME NEW n \in Nodes, NEW r \in retries[n], FireRetry(w, n, r)
      PROVE  Fed'
  <2>1. \A m \in Nodes : insts'[m].status \notin Active => insts[m].status \notin Active
    BY <1>3 DEF FireRetry, Inv, TypeOK, InstRows, Active
  <2>2. run'.status \in Open
    BY <1>3, StaysOpen DEF FireRetry, Ongoing
  <2>3. Keeps("node_maybe_ready", {})
    BY <1>3, EnqueueWakes DEF FireRetry, Keeps
  <2> QED BY <1>3, <2>1, <2>2, <2>3, QuietFed DEF FireRetry, Ongoing
<1>4. ASSUME NEW n \in Nodes, WaitTimesOut(w, n)
      PROVE  Fed'
  BY <1>4, ResumeFed DEF WaitTimesOut
<1>5. ASSUME NEW n \in Nodes, NEW r, ParkRetry(w, n, r)
      PROVE  Fed'
  BY <1>5 DEF ParkRetry, Ongoing, Open, Halting
<1>6. ASSUME NEW n \in Nodes, NEW i, FireAndFail(w, n, i) \/ WaitFails(w, n)
      PROVE  Fed'
  BY <1>6, EndFed DEF FireAndFail, WaitFails
<1>7. CASE FireRunDeadline(w)
  BY <1>7, EndFed DEF FireRunDeadline
<1> QED BY <1>1, <1>2, <1>3, <1>4, <1>5, <1>6, <1>7 DEF TimerStep

\* Lease recovery.
LEMMA RecoverStepFed ==
  ASSUME Inv, Ongoing, NEW w \in Workers, RecoverStep(w)
  PROVE  Fed'
<1>1. wakeups \in SUBSET WakeupRows
  BY DEF Inv, TypeOK
<1>2. ASSUME NEW n PROVE Wakes(wakeups, "node_maybe_ready", n)
                         => Wakes(Unclaim(wakeups, workers[w].now), "node_maybe_ready", n)
  BY <1>1, UnclaimWakes
<1>3. CASE RecoverNothing(w)
  BY <1>2, <1>3, QuietFed DEF RecoverNothing, Keeps, Ongoing
<1>4. ASSUME NEW n \in Nodes, NEW i \in 1..MaxAttempts, RecoverAttempt(w, n, i)
      PROVE  Fed'
  <2>1. \A m \in Nodes : insts'[m].status \notin Active => insts[m].status \notin Active
    BY <1>4 DEF RecoverAttempt, Inv, TypeOK, InstRows, Active
  <2>2. run'.status \in Open
    BY <1>4, StaysOpen DEF RecoverAttempt, Ongoing
  <2>3. Keeps("node_maybe_ready", {})
    BY <1>2, <1>4, EnqueueWakes DEF RecoverAttempt, Keeps
  <2> QED BY <1>4, <2>1, <2>2, <2>3, QuietFed DEF RecoverAttempt, Ongoing
<1>5. ASSUME NEW n \in Nodes, NEW i, RecoverExhausted(w, n, i)
      PROVE  Fed'
  BY <1>5, EndFed DEF RecoverExhausted
<1> QED BY <1>3, <1>4, <1>5 DEF RecoverStep

\* Claims.
LEMMA ClaimStepFed ==
  ASSUME Inv, Ongoing, NEW w \in Workers, ClaimStep(w)
  PROVE  Fed'
<1>1. CASE ClaimNothing(w)
  BY <1>1, QuietFed DEF ClaimNothing, rows, Keeps, Ongoing
<1>2. ASSUME NEW x \in wakeups PROVE \A n : Wakes(wakeups, "node_maybe_ready", n)
                                            => Wakes(Claimed(w, x), "node_maybe_ready", n)
  BY ClaimWakes DEF Claimed, Inv, TypeOK
<1>3. ASSUME NEW x \in wakeups, ClaimNoop(w, x)
      PROVE  Fed'
  <2>1. Keeps("node_maybe_ready", {})
    BY <1>3, FinishWakes DEF ClaimNoop, Keeps
  <2> QED BY <1>3, <2>1, QuietFed DEF ClaimNoop, Ongoing
<1>4. ASSUME NEW x \in wakeups, NEW i, ClaimDispatch(w, x) \/ ClaimAttempt(w, x, i)
      PROVE  Fed'
  BY <1>2, <1>4, QuietFed DEF ClaimDispatch, ClaimAttempt, Keeps, Ongoing
<1> QED BY <1>1, <1>3, <1>4 DEF ClaimStep

\* Of several values for one target, the first is the one Alerts names.
LEMMA FirstOfTarget ==
  ASSUME NEW n \in Nodes, NEW order \in Emissions(n), NEW i \in DOMAIN order
  PROVE  \E j \in DOMAIN order :
            /\ Target[order[j]] = Target[order[i]]
            /\ \A h \in 1..(j - 1) : Target[order[h]] # Target[order[j]]
<1> DEFINE T == {j \in DOMAIN order : Target[order[j]] = Target[order[i]]}
<1>1. DOMAIN order = 1..Len(order) /\ Len(order) \in Nat
  BY EmissionFacts
<1>2. T \subseteq Nat /\ T # {}
  BY <1>1
<1> DEFINE Less == {ss \in Nat \X Nat : ss[1] < ss[2]}
<1>3. PICK j \in T : \A h \in T : ~(<<h, j>> \in Less)
  <2>1. IsWellFoundedOn(Less, Nat)
    BY NatLessThanWellFounded, Zenon DEF OpToRel
  <2> HIDE DEF T, Less
  <2> QED BY <1>2, <2>1, WFMin
<1>4. \A h \in T : ~(h < j)
  BY <1>2, <1>3
<1>5. \A h \in 1..(j - 1) : h < j /\ h \in DOMAIN order
  BY <1>1, <1>3
<1> QED BY <1>3, <1>4, <1>5

\* A target that receives a value is alerted.
LEMMA TargetsAlerted ==
  ASSUME NEW n \in Nodes, NEW order \in Emissions(n), NEW i \in DOMAIN order, NEW now
  PROVE  Wakes(Alerts(order, now), "node_maybe_ready", Target[order[i]])
<1>1. PICK j \in DOMAIN order : /\ Target[order[j]] = Target[order[i]]
                                /\ \A h \in 1..(j - 1) : Target[order[h]] # Target[order[j]]
  BY FirstOfTarget
<1> DEFINE x == [key |-> EdgeReady(Target[order[j]], counters.enqueue + j - 1),
                 status |-> "pending", at |-> now, lease |-> 0]
<1>2. x \in Alerts(order, now)
  BY <1>1 DEF Alerts
<1>3. x.key.kind = "node_maybe_ready" /\ x.key.node = Target[order[i]]
  BY <1>1 DEF EdgeReady, Key
<1> HIDE DEF x
<1> QED BY <1>2, <1>3 DEF Wakes

\* An Input node never fires: no edge enters it.
LEMMA EntryNeverFires == \A n \in Entry : ~Fireable(n) /\ ~Fireable(n)'
BY GraphAssumption DEF Fireable, Heads, InEdges

\* A completion: the targets of its values are alerted, and the node looks for
\* more input itself.
LEMMA FinalizeCompletedFed ==
  ASSUME Inv, PhasesFit, Ongoing, NEW w \in Workers, NEW order \in Emissions(Node(w)),
         FinalizeCompleted(w, order)
  PROVE  Fed'
<1> DEFINE n == Node(w)
           now == workers[w].now
           fin == Finish(wakeups, workers[w].key)
           rest == fin \cup Alerts(order, now)
           more == IF n \in Entry THEN rest ELSE Enqueue(rest, Recheck(n, workers[w].seq), now)
<1>1. n \in Nodes
  BY WorkerTypes DEF Inv
<1>2. workers[w].key.kind = "attempt_ready"
  BY DEF FinalizeCompleted, Finalizes, PhasesFit
<1>3. \A m : Wakes(wakeups, "node_maybe_ready", m) => Wakes(fin, "node_maybe_ready", m)
  BY <1>2, FinishWakes
<1>4. /\ wakeups' = Enqueue(more, SettleDone(n, workers[w].seq), now) /\ queues' = Filled(order)
      /\ run' = Drained(attempts') /\ insts' = [insts EXCEPT ![n].status = "completed"]
  BY DEF FinalizeCompleted
<1> HIDE DEF fin
<1>5. \A m : Wakes(fin, "node_maybe_ready", m) \/ Wakes(Alerts(order, now), "node_maybe_ready", m)
               => Wakes(rest, "node_maybe_ready", m)
  BY DEF Wakes
<1> HIDE DEF rest
<1>6. /\ \A m : Wakes(rest, "node_maybe_ready", m) => Wakes(more, "node_maybe_ready", m)
      /\ n \notin Entry => Wakes(more, "node_maybe_ready", n)
  BY EnqueueWakes DEF Recheck, Key
<1> HIDE DEF more
<1>7. \A m : Wakes(more, "node_maybe_ready", m) => Wakes(wakeups', "node_maybe_ready", m)
  BY <1>4, EnqueueWakes
<1>8. ASSUME NEW m \in Nodes, Hungry(m)'
      PROVE  \/ Hungry(m) /\ (Wakes(wakeups, "node_maybe_ready", m)
                                => Wakes(wakeups', "node_maybe_ready", m))
             \/ Wakes(wakeups', "node_maybe_ready", m)
  <2>1. CASE m = n
    BY <1>6, <1>7, <1>8, <2>1, EntryNeverFires DEF Hungry
  <2>2. CASE \E i \in DOMAIN order : Target[order[i]] = m
    <3>1. Wakes(Alerts(order, now), "node_maybe_ready", m)
      BY <1>1, <2>2, TargetsAlerted
    <3> QED BY <1>5, <1>6, <1>7, <3>1
  <2>3. CASE m # n /\ \A i \in DOMAIN order : Target[order[i]] # m
    <3>1. \A e \in InEdges(m) : queues'[e] = queues[e]
      BY <1>1, <1>4, <2>3, FilledFacts DEF InEdges
    <3>2. insts'[m] = insts[m]
      BY <1>4, <2>3 DEF Inv, TypeOK
    <3>3. Hungry(m)
      BY <1>8, <3>1, <3>2 DEF Hungry, Fireable, Heads
    <3> QED BY <1>3, <1>5, <1>6, <1>7, <3>3
  <2> QED BY <2>1, <2>2, <2>3
<1>9. run'.status \in Open
  BY <1>4, StaysOpen DEF Ongoing
<1> HIDE DEF n, now
<1> QED BY <1>8, <1>9, StaysFed DEF Ongoing

\* Execution.
LEMMA ExecuteStepFed ==
  ASSUME Inv, PhasesFit, Ongoing, NEW w \in Workers, ExecuteStep(w)
  PROVE  Fed'
<1>1. CASE MarkRunning(w)
  <2>1. \A m \in Nodes : insts'[m].status \notin Active => insts[m].status \notin Active
    BY <1>1 DEF MarkRunning, Inv, TypeOK, InstRows, Active
  <2> QED BY <1>1, <2>1, QuietFed DEF MarkRunning, Keeps, Ongoing
<1>2. CASE MarkRejected(w) \/ FinalizeRejected(w)
  BY <1>2, QuietFed DEF MarkRejected, FinalizeRejected, rows, Keeps, Ongoing
<1>3. CASE FinalizeFailed(w)
  BY <1>3, EndFed DEF FinalizeFailed
<1>4. ASSUME Finalizes(w)
      PROVE  \A m : Wakes(wakeups, "node_maybe_ready", m)
                      => Wakes(Finish(wakeups, workers[w].key), "node_maybe_ready", m)
  BY <1>4, FinishWakes DEF Finalizes, PhasesFit
<1>5. CASE FinalizeReconcile(w)
  <2>1. \A m \in Nodes : insts'[m].status \notin Active => insts[m].status \notin Active
    BY <1>5 DEF FinalizeReconcile, Inv, TypeOK, InstRows, Active
  <2>2. Keeps("node_maybe_ready", {})
    BY <1>4, <1>5, EnqueueWakes DEF FinalizeReconcile, Keeps
  <2> QED BY <1>5, <2>1, <2>2, QuietFed DEF FinalizeReconcile, Ongoing
<1>6. ASSUME NEW kind, NEW due, NEW onTimeout, FinalizeWaiting(w, kind, due, onTimeout)
      PROVE  Fed'
  <2>1. \A m \in Nodes : insts'[m].status \notin Active => insts[m].status \notin Active
    BY <1>6 DEF FinalizeWaiting, Inv, TypeOK, InstRows, Active
  <2>2. Keeps("node_maybe_ready", {})
    BY <1>4, <1>6, EnqueueWakes DEF FinalizeWaiting, Keeps
  <2>3. run'.status \in Open
    BY <1>6, StaysOpen DEF FinalizeWaiting, Ongoing
  <2> QED BY <1>6, <2>1, <2>2, <2>3, QuietFed DEF FinalizeWaiting, Ongoing
<1> QED BY <1>1, <1>2, <1>3, <1>5, <1>6, FinalizeCompletedFed DEF ExecuteStep

\* Activation spends the wakeup of a node that is busy, or cannot fire, or
\* becomes ready.
LEMMA ActivateStepFed ==
  ASSUME Inv, ProjectionIsSound, Ongoing, NEW w \in Workers, ActivateStep(w)
  PROVE  Fed'
<1> DEFINE n == Node(w)
           rest == Finish(wakeups, workers[w].key)
<1>1. n \in Nodes
  BY WorkerTypes DEF Inv
<1>2. \A m \in Nodes \ {n} : Wakes(wakeups, "node_maybe_ready", m) => Wakes(rest, "node_maybe_ready", m)
  BY FinishWakes DEF Node
<1> HIDE DEF rest
<1>3. CASE ActivateSkipped(w)
  BY <1>3, QuietFed DEF ActivateSkipped, Keeps, Ongoing
<1>4. CASE ActivateDropped(w)
  <2>1. run.status # "waiting"
    BY <1>4, WaitingIsIdle DEF ActivateDropped, HoldsKey
  <2>2. insts[n].status \in Active
    BY <1>4, <2>1 DEF ActivateDropped, Ongoing, Open
  <2>3. UNCHANGED <<run, insts, queues>> /\ wakeups' = rest
    BY <1>4 DEF ActivateDropped, rest
  <2>4. \A m \in Nodes : Hungry(m)' => m # n /\ Hungry(m)
    BY <2>2, <2>3 DEF Hungry, Fireable, Heads
  <2> HIDE DEF n
  <2> QED BY <1>2, <2>3, <2>4, StaysFed DEF Ongoing
<1>5. CASE ActivateNotReady(w)
  <2>1. UNCHANGED <<run, insts, queues>> /\ \E key, now : wakeups' = Enqueue(rest, key, now)
    BY <1>5 DEF ActivateNotReady, rest
  <2>2. ~Fireable(n)
    BY <1>5 DEF ActivateNotReady
  <2>3. \A m \in Nodes : Hungry(m)' => m # n /\ Hungry(m)
    BY <2>1, <2>2 DEF Hungry, Fireable, Heads
  <2>4. \A m : Wakes(rest, "node_maybe_ready", m) => Wakes(wakeups', "node_maybe_ready", m)
    BY <2>1, EnqueueWakes
  <2> HIDE DEF n
  <2> QED BY <1>2, <2>1, <2>3, <2>4, StaysFed DEF Ongoing
<1>6. CASE ActivateReady(w)
  <2>1. /\ queues' = Taken(n) /\ run' = run
        /\ insts' = [insts EXCEPT ![n] = [status |-> "ready", seq |-> insts[n].seq + 1]]
        /\ \E key, now : wakeups' = Enqueue(rest, key, now)
    BY <1>6 DEF ActivateReady, Consumes, rest
  <2>2. insts'[n].status \in Active
    BY <1>1, <2>1 DEF Inv, TypeOK, Active
  <2>3. ASSUME NEW m \in Nodes, Hungry(m)' PROVE m # n /\ Hungry(m)
    <3>1. m # n
      BY <2>2, <2>3 DEF Hungry
    <3>2. Heads(n) \subseteq InEdges(n)
      BY DEF Heads
    <3>3. \A e \in InEdges(m) : queues'[e] = queues[e]
      BY <2>1, <3>1, <3>2 DEF Taken, InEdges
    <3>4. insts'[m] = insts[m]
      BY <2>1, <3>1 DEF Inv, TypeOK
    <3> QED BY <2>3, <3>1, <3>3, <3>4 DEF Hungry, Fireable, Heads
  <2>4. \A m : Wakes(rest, "node_maybe_ready", m) => Wakes(wakeups', "node_maybe_ready", m)
    BY <2>1, EnqueueWakes
  <2> HIDE DEF n
  <2> QED BY <1>2, <2>1, <2>3, <2>4, StaysFed DEF Ongoing
<1>7. CASE ActivateInvalid(w) \/ ActivateOverLimit(w)
  BY <1>7, EndFed DEF ActivateInvalid, ActivateOverLimit
<1> QED BY <1>3, <1>4, <1>5, <1>6, <1>7 DEF ActivateStep

\* Settlement completes a run that has no other wakeup and no busy node: then
\* no node can fire.
LEMMA SettleStepFed ==
  ASSUME Inv, PhasesFit, Ongoing, NEW w \in Workers, SettleStep(w)
  PROVE  Fed'
<1>1. workers[w].key.kind = "settle_run"
  BY DEF SettleStep, SettleLate, SettleWaiting, SettleBusy, SettleMissing, SettleCompleted, Settles,
         PhasesFit
<1>2. \A m : Wakes(wakeups, "node_maybe_ready", m) => Wakes(Others(w), "node_maybe_ready", m)
  BY <1>1, FinishWakes DEF Others
<1>3. CASE SettleLate(w) \/ SettleMissing(w)
  BY <1>3, EndFed DEF SettleLate, SettleMissing
<1>4. CASE SettleWaiting(w) \/ SettleBusy(w)
  <2>1. run'.status \in Open
    BY <1>4 DEF SettleWaiting, SettleBusy, Ongoing, Open, Inv, TypeOK, RunRows
  <2> QED BY <1>2, <1>4, <2>1, QuietFed DEF SettleWaiting, SettleBusy, Settles, Keeps, Ongoing
<1>5. CASE SettleCompleted(w)
  <2>1. run'.status = "completed" /\ queues' = queues
    BY <1>5 DEF SettleCompleted, Settles, Inv, TypeOK, RunRows
  <2>2. Others(w) = {} /\ \A n \in Nodes : insts[n].status \notin Active
    BY <1>5 DEF SettleCompleted, Finished, Busy, HasStatus
  <2>3. \A n \in Nodes : ~Fireable(n)
    BY <1>2, <2>2 DEF Ongoing, Fed, Hungry, Wakes
  <2>4. \A n \in Nodes : ~Fireable(n)'
    BY <2>1, <2>3 DEF Fireable, Heads
  <2> QED BY <2>1, <2>4 DEF Fed, Open
<1> QED BY <1>3, <1>4, <1>5 DEF SettleStep

\* A control command begins a new epoch, a response does not.
LEMMA ControlFed ==
  ASSUME Inv, Ongoing, Interrupt \/ Resume \/ Cancel \/ \E n \in Nodes : SubmitResponse(n)
  PROVE  Fed'
<1>1. CASE Interrupt \/ Resume
  <2>1. \E st, drain : Controls(st, drain)
    BY <1>1 DEF Interrupt, Resume
  <2>2. run'.epoch = run.epoch + 1
    BY <2>1 DEF Controls
  <2> QED BY <2>2 DEF Fed, Ongoing
<1>2. CASE Cancel
  BY <1>2, EndFed DEF Cancel
<1>3. ASSUME NEW n \in Nodes, SubmitResponse(n)
      PROVE  Fed'
  BY <1>3, ResumeFed DEF SubmitResponse
<1> QED BY <1>1, <1>2, <1>3

\* Every step.
LEMMA StepFed == Inv /\ ProjectionIsSound /\ PhasesFit /\ Fed /\ [Next]_vars => Fed'
<1> SUFFICES ASSUME Inv, ProjectionIsSound, PhasesFit, Fed, [Next]_vars, run'.epoch = 0 PROVE Fed'
  BY DEF Fed
<1>1. run.epoch = 0
  BY StepMoves DEF Moves, Inv, TypeOK, RunRows
<1>2. CASE run.status = "completed"
  <2>1. run' = run /\ queues' = queues
    BY <1>2, EndedStays DEF Stays, Terminal
  <2> QED BY <1>2, <2>1 DEF Fed, Fireable, Heads, Open
<1>3. CASE run.status \in Open
  <2>1. Ongoing
    BY <1>1, <1>3 DEF Ongoing
  <2>2. ASSUME NEW w \in Workers, WorkerStep(w) PROVE Fed'
    BY <2>1, <2>2, TimerStepFed, RecoverStepFed, ClaimStepFed, ExecuteStepFed, ActivateStepFed,
       SettleStepFed DEF WorkerStep
  <2>3. CASE (\E w \in Workers : Crash(w)) \/ Tick \/ UNCHANGED vars
    BY <2>1, <2>3, QuietFed DEF Crash, Tick, vars, rows, Keeps, Ongoing
  <2>4. CASE Interrupt \/ Resume \/ Cancel \/ \E n \in Nodes : SubmitResponse(n)
    BY <2>1, <2>4, ControlFed
  <2> QED BY <2>2, <2>3, <2>4 DEF Next
<1> QED BY <1>1, <1>2, <1>3 DEF Fed

\* At the start no queue holds a value.
LEMMA InitFed == Init => Fed /\ Delivered
<1> SUFFICES ASSUME Init PROVE Fed /\ Delivered
  OBVIOUS
<1>1. run.status = "running"
  BY DEF Init
<1>2. ASSUME NEW n \in Nodes PROVE ~Fireable(n)
  <2>1. CASE n \in Entry
    BY <2>1, EntryNeverFires
  <2>2. CASE n \notin Entry
    <3>1. InEdges(n) # {} /\ \A e \in InEdges(n) : queues[e] = <<>>
      BY <2>2, GraphAssumption DEF Init, InEdges
    <3> QED BY <3>1 DEF Fireable, Heads
  <2> QED BY <2>1, <2>2
<1> QED BY <1>1, <1>2 DEF Fed, Delivered, Hungry, Open

\* Only a settlement that found the required outputs completes a run.
LEMMA StepDelivered == Inv /\ Delivered /\ [Next]_vars => Delivered'
<1> SUFFICES ASSUME Inv, Delivered, [Next]_vars, run'.status = "completed"
             PROVE  Required \subseteq produced'
  BY DEF Delivered
<1>1. CASE run.status = "completed"
  BY <1>1, EndedStays DEF Stays, Terminal, Delivered
<1>2. ASSUME NEW w \in Workers, SettleCompleted(w) PROVE Required \subseteq produced'
  BY <1>2 DEF SettleCompleted, Settles
<1> QED BY <1>1, <1>2, StepMoves DEF Moves

\* Both hold of every reachable state.
LEMMA AlwaysFed == Spec => [](Fed /\ Delivered)
<1>1. Fed /\ Delivered /\ Inv /\ ProjectionIsSound /\ PhasesFit /\ [Next]_vars => (Fed /\ Delivered)'
  BY StepFed, StepDelivered
<1> QED BY InitFed, <1>1, Invariance, Projection, AlwaysAttended, PTL DEF Spec

\* As long as no control command was given, no work of a run is forgotten:
\* each queued attempt and each idle node that can fire has its wakeup.
THEOREM NoWorkIsLost == Spec => [](run.epoch = 0 => NoLostWork)
<1>1. Attended /\ Fed => (run.epoch = 0 => NoLostWork)
  BY DEF Attended, Fed, Hungry, Wakes, NoLostWork, NoLostWakeup, Open
<1> QED BY AlwaysAttended, AlwaysFed, <1>1, PTL

\* A run that completes has its required outputs, and if no control command
\* was ever given it has no work left: no node could still fire.
THEOREM CompletionIsEarned ==
  Spec => []( /\ run.epoch = 0 => CompletedIsDrained
              /\ run.status = "completed" => Required \subseteq produced )
<1>1. Fed /\ Delivered => /\ run.epoch = 0 => CompletedIsDrained
                          /\ run.status = "completed" => Required \subseteq produced
  BY DEF Fed, Delivered, CompletedIsDrained
<1> QED BY AlwaysFed, <1>1, PTL

-------------------------------------------------------------------------------
(***************************************************************************)
(* An interrupt ends.  A run stays in 'interrupting' only while an attempt *)
(* is held, but for the one case that finding 2 is about: a Router whose   *)
(* reads were overtaken is queued again without a look at the drain        *)
(* (reconcile_if_stale), and no later transaction takes that look.         *)
(***************************************************************************)
RouterRequeued ==
  \E n \in Routers :
    /\ MaxReconciles[n] > 0
    /\ \E i \in DOMAIN attempts[n] :
          attempts[n][i].status = "queued" /\ attempts[n][i].kind = "reconcile"
Drains == InterruptingDrains \/ RouterRequeued

\* A step that looks at the drain, and one that changes no attempt.
LEMMA DrainedDrains ==
  ASSUME run' = Drained(attempts')
  PROVE  Drains'
BY DEF Drained, Drains, InterruptingDrains

\* A run that is not being interrupted, and is not after the step.
LEMMA NotInterrupting ==
  ASSUME run'.status # "interrupting"
  PROVE  Drains'
BY DEF Drains, InterruptingDrains

\* The end of the run.
LEMMA EndDrains ==
  ASSUME NEW status \in Terminal, NEW I, NEW A, NEW C, EndRun(status, I, A, C)
  PROVE  Drains'
BY NotInterrupting DEF EndRun, Terminal

\* A step that adds attempts at most.
LEMMA MoreDrains ==
  ASSUME Drains, run'.status = "interrupting" => run.status = "interrupting",
         \A n \in Nodes : \A i \in DOMAIN attempts[n] :
            i \in DOMAIN attempts'[n] /\ attempts'[n][i] = attempts[n][i]
  PROVE  Drains'
<1>1. IsHeld(attempts) => IsHeld(attempts')
  BY DEF IsHeld
<1>2. RouterRequeued => RouterRequeued'
  BY GraphAssumption DEF RouterRequeued
<1> QED BY <1>1, <1>2 DEF Drains, InterruptingDrains

\* The attempt of an answered wait comes after the others.
LEMMA ResumeDrains ==
  ASSUME Inv, Drains, NEW n \in Nodes, ResumeAttempt(n)
  PROVE  Drains'
<1> DEFINE x == NewAttempt("resume", attempts[n][waits[n].no].ordinal, run.epoch)
<1>1. attempts' = [attempts EXCEPT ![n] = Append(attempts[n], x)] /\ run' = Restarted
  BY DEF ResumeAttempt, Inv, TypeOK
<1> HIDE DEF x
<1>2. attempts[n] \in Seq(AttemptRows) /\ attempts'[n] = Append(attempts[n], x)
      /\ \A m \in Nodes \ {n} : attempts'[m] = attempts[m]
  BY <1>1 DEF Inv, TypeOK
<1>3. \A i \in DOMAIN attempts[n] : i \in DOMAIN attempts'[n] /\ attempts'[n][i] = attempts[n][i]
  BY <1>2
<1>4. run'.status = "interrupting" => run.status = "interrupting"
  BY <1>1 DEF Restarted, Inv, TypeOK, RunRows
<1> QED BY <1>2, <1>3, <1>4, MoreDrains

\* The transactions of the workers.
LEMMA WorkerStepDrains ==
  ASSUME Inv, Drains, NEW w \in Workers, WorkerStep(w)
  PROVE  Drains'
<1>1. CASE UNCHANGED <<run, attempts>>
  BY <1>1, MoreDrains
<1>2. CASE run' = Drained(attempts')
  BY <1>2, DrainedDrains
<1>3. CASE run'.status # "interrupting"
  BY <1>3, NotInterrupting
<1>4. ASSUME TimerStep(w) PROVE Drains'
  <2>1. ASSUME NEW n \in Nodes, NEW i, FireAndRetry(w, n, i) PROVE Drains'
    <3>1. run' = Drained(attempts') \/ run' = [run EXCEPT !.status = "waiting"]
      BY <2>1 DEF FireAndRetry
    <3> QED BY <1>2, <1>3, <3>1 DEF Inv, TypeOK, RunRows
  <2>2. ASSUME NEW n \in Nodes, WaitTimesOut(w, n) PROVE Drains'
    BY <2>2, ResumeDrains DEF WaitTimesOut
  <2>3. ASSUME NEW n \in Nodes, NEW r, ParkRetry(w, n, r) \/ FireRetry(w, n, r) PROVE Drains'
    <3>1. CASE ParkRetry(w, n, r)
      BY <1>1, <3>1 DEF ParkRetry
    <3>2. CASE FireRetry(w, n, r)
      BY <1>3, <3>2 DEF FireRetry, Restarted, Inv, TypeOK, RunRows
    <3> QED BY <2>3, <3>1, <3>2
  <2>4. ASSUME NEW n \in Nodes, NEW i, FireAndFail(w, n, i) \/ WaitFails(w, n) PROVE Drains'
    BY <2>4, EndDrains DEF FireAndFail, WaitFails, Terminal
  <2>5. CASE NoTimerDue(w) \/ FireRunDeadline(w)
    BY <1>1, <2>5, EndDrains DEF NoTimerDue, FireRunDeadline, Terminal, rows
  <2> QED BY <1>4, <2>1, <2>2, <2>3, <2>4, <2>5 DEF TimerStep
<1>5. ASSUME RecoverStep(w) PROVE Drains'
  BY <1>1, <1>2, <1>5, EndDrains
     DEF RecoverStep, RecoverNothing, RecoverExhausted, RecoverAttempt, Terminal
<1>6. ASSUME ClaimStep(w) PROVE Drains'
  BY <1>1, <1>3, <1>6 DEF ClaimStep, ClaimNothing, ClaimNoop, ClaimDispatch, ClaimAttempt, Claim,
                          Claimable, rows
<1>7. ASSUME ExecuteStep(w) PROVE Drains'
  <2>1. CASE MarkRunning(w)
    <3>1. Node(w) \in Nodes /\ workers[w].no \in DOMAIN attempts[Node(w)]
      BY <2>1, WorkerTypes DEF MarkRunning, Owns, Inv
    <3>2. /\ workers[w].no \in DOMAIN attempts'[Node(w)]
          /\ attempts'[Node(w)][workers[w].no].status = "running"
      BY <2>1, <3>1, RowTypes DEF MarkRunning, Inv, TypeOK, AttemptRows
    <3>3. IsHeld(attempts')
      BY <3>1, <3>2 DEF IsHeld, Held
    <3> QED BY <3>3 DEF Drains, InterruptingDrains
  <2>2. CASE FinalizeReconcile(w)
    <3> DEFINE n == Node(w)
               A == [attempts[n] EXCEPT ![workers[w].no] = Ended(attempts[n][workers[w].no], "failed")]
               x == NewAttempt("reconcile", 0, workers[w].epoch)
    <3>1. n \in Nodes /\ n \in Routers
      BY <2>2, WorkerTypes DEF FinalizeReconcile, Inv
    <3>2. MaxReconciles[n] > 0
      <4> DEFINE S == {j \in DOMAIN attempts[n] : attempts[n][j].kind = "reconcile"}
      <4>1. Cardinality(S) < MaxReconciles[n]
        BY <2>2 DEF FinalizeReconcile
      <4>2. IsFiniteSet(S)
        <5>1. PICK k \in Nat : S \subseteq 1..k
          BY <3>1, RowTypes DEF Inv
        <5>2. IsFiniteSet(1..k)
          BY FS_Interval
        <5> HIDE DEF S
        <5> QED BY <5>1, <5>2, FS_Subset
      <4> HIDE DEF S
      <4>3. Cardinality(S) \in Nat
        BY <4>2, FS_CardinalityType
      <4> QED BY <3>1, <4>1, <4>3, LimitAssumption
    <3>3. A \in Seq(AttemptRows) /\ attempts' = [attempts EXCEPT ![n] = Append(A, x)]
      BY <2>2, FinalizesHeld, HeldEnds DEF FinalizeReconcile, Replaced
    <3>4. x.status = "queued" /\ x.kind = "reconcile"
      BY DEF NewAttempt
    <3> HIDE DEF A, x, n
    <3>5. attempts'[n] = Append(A, x)
      BY <3>1, <3>3 DEF Inv, TypeOK
    <3>6. Len(A) + 1 \in DOMAIN attempts'[n] /\ attempts'[n][Len(A) + 1] = x
      BY <3>3, <3>5
    <3>7. RouterRequeued'
      BY <3>1, <3>2, <3>4, <3>6 DEF RouterRequeued
    <3> QED BY <3>7 DEF Drains
  <2>3. CASE FinalizeFailed(w)
    BY <2>3, EndDrains DEF FinalizeFailed, Terminal
  <2>4. CASE UNCHANGED <<run, attempts>> \/ run' = Drained(attempts')
    BY <1>1, <1>2, <2>4
  <2> QED BY <1>7, <2>1, <2>2, <2>3, <2>4
          DEF ExecuteStep, MarkRejected, FinalizeRejected, FinalizeCompleted, FinalizeWaiting, rows
<1>8. ASSUME ActivateStep(w) PROVE Drains'
  <2>1. CASE ActivateSkipped(w) \/ ActivateDropped(w) \/ ActivateNotReady(w)
    BY <1>1, <2>1 DEF ActivateSkipped, ActivateDropped, ActivateNotReady
  <2>2. CASE ActivateOverLimit(w) \/ ActivateInvalid(w)
    BY <2>2, EndDrains DEF ActivateOverLimit, ActivateInvalid, Terminal
  <2>3. CASE ActivateReady(w)
    BY <1>3, <2>3 DEF ActivateReady, Consumes, Activatable
  <2> QED BY <1>8, <2>1, <2>2, <2>3 DEF ActivateStep
<1>9. ASSUME SettleStep(w) PROVE Drains'
  <2>1. CASE SettleLate(w) \/ SettleMissing(w)
    BY <2>1, EndDrains DEF SettleLate, SettleMissing, Terminal
  <2>2. CASE SettleBusy(w)
    BY <1>1, <2>2 DEF SettleBusy
  <2>3. CASE SettleWaiting(w) \/ SettleCompleted(w)
    BY <1>3, <2>3 DEF SettleWaiting, SettleCompleted, Inv, TypeOK, RunRows
  <2> QED BY <1>9, <2>1, <2>2, <2>3 DEF SettleStep
<1> QED BY <1>4, <1>5, <1>6, <1>7, <1>8, <1>9 DEF WorkerStep

\* The other steps.  An interrupt that finds no held attempt is over at once.
LEMMA StepDrains == Inv /\ Drains /\ [Next]_vars => Drains'
<1> SUFFICES ASSUME Inv, Drains, [Next]_vars PROVE Drains'
  OBVIOUS
<1>1. CASE Interrupt
  BY <1>1 DEF Interrupt, Controls, Drains, InterruptingDrains
<1>2. CASE Resume
  BY <1>2, NotInterrupting DEF Resume, Controls
<1>3. CASE Cancel
  BY <1>3, EndDrains DEF Cancel, Terminal
<1>4. ASSUME NEW n \in Nodes, SubmitResponse(n) PROVE Drains'
  BY <1>4, ResumeDrains DEF SubmitResponse
<1>5. CASE (\E w \in Workers : Crash(w)) \/ Tick \/ UNCHANGED vars
  BY <1>5, MoreDrains DEF Crash, Tick, vars, rows
<1> QED BY <1>1, <1>2, <1>3, <1>4, <1>5, WorkerStepDrains DEF Next

\* A run stays in 'interrupting' only while an attempt is held, or with a
\* Router queued again by reconcile_if_stale ...
THEOREM InterruptIsExplained == Spec => [](InterruptingDrains \/ RouterRequeued)
<1>1. Init => Drains
  BY DEF Init, Drains, InterruptingDrains
<1>2. Drains => InterruptingDrains \/ RouterRequeued
  BY DEF Drains
<1> QED BY <1>1, <1>2, StepDrains, Invariance, PTL DEF Spec

\* ... so that every interrupt of a run whose Routers never reconcile ends
\* with the last held attempt.
THEOREM InterruptDrains ==
  ASSUME \A n \in Routers : MaxReconciles[n] = 0
  PROVE  Spec => []InterruptingDrains
<1>1. InterruptingDrains \/ RouterRequeued => InterruptingDrains
  BY DEF RouterRequeued
<1> QED BY <1>1, InterruptIsExplained, PTL

===============================================================================
