----------------------------- MODULE EffectLedger -----------------------------
(***************************************************************************)
(* The durable model and tool loop of one LLM node: the ledger of external *)
(* effects in crates/storage/src/llm, the executor of                      *)
(* crates/server/src/llm_executor that drives it, and what leases,         *)
(* deadlines, controls and people do to both.                              *)
(*                                                                         *)
(* A logical call is prepared, started and finished by three transactions, *)
(* each with a fence; what was started has perhaps happened outside.  An   *)
(* executor keeps its own copy of the loop checkpoint between them and may *)
(* live on after its attempt was given to another one.  A call is named by *)
(* <<m>>, the m-th model call of the node, <<m, i>>, its i-th tool call, or *)
(* <<0, k>>, the k-th count of the tokens of the first request.            *)
(* Requests, results and transcripts are told apart only by what the loop  *)
(* asks of them.  The scheduler is the one of GraphRun, cut down to one    *)
(* node and the fact that another one may still be at work.                *)
(***************************************************************************)
EXTENDS Integers, Sequences, FiniteSets, FiniteSetsExt

CONSTANTS
    MaxAttempts,     \* limits.maxAttemptsPerActivation
    MaxModelCalls,   \* limits.maxModelCalls
    MaxCounts,       \* limits.maxCountCalls
    MaxRepairs,      \* limits.maxOutputRepairs, 0 when the output has no schema
    MaxTries,        \* retry_policy.max_attempts of a tool
    ModelClass,      \* the classification of the model calls
    Batches,         \* what a response may ask for: sequences of tools
    RetryTimeouts,   \* the node's retry policy names node_timeout
    Alone,           \* no other node of the run is at work
    LateExecutors,   \* an executor may go on after its attempt was taken from it
    ProviderCounts,  \* the channel counts tokens: a count is an outside call
    MaxEpoch         \* bound of the model: control commands

Classes == {"pure", "idempotent", "non_idempotent"}
Kinds == {"custom", "search", "proposal"}   \* search_memory and propose_memory_change are built in
Tools == [kind : Kinds, class : Classes, approval : BOOLEAN, fails : BOOLEAN]

ASSUME LedgerAssumption ==
    /\ MaxAttempts \in Nat \ {0} /\ MaxModelCalls \in Nat \ {0} /\ MaxTries \in Nat \ {0}
    /\ MaxCounts \in Nat \ {0} /\ MaxRepairs \in Nat
    /\ ModelClass \in Classes /\ RetryTimeouts \in BOOLEAN /\ Alone \in BOOLEAN
    /\ ProviderCounts \in BOOLEAN /\ LateExecutors \in BOOLEAN
    /\ Batches \subseteq Seq(Tools) /\ <<>> \in Batches
    /\ IsFiniteSet(Batches)                          \* limits.maxToolCalls bounds their length
    /\ MaxEpoch \in Nat

MaxBatch == Max({Len(b) : b \in Batches})
Attempts == 1 .. MaxAttempts
Models == 1 .. MaxModelCalls
Calls == {<<m>> : m \in Models} \cup {<<m, i>> : m \in Models, i \in 1 .. MaxBatch}
           \cup {<<0, k>> : k \in 1 .. MaxCounts}
IsModel(c) == Len(c) = 1
IsCount(c) == c[1] = 0
IsTool(c) == ~IsModel(c) /\ ~IsCount(c)

VARIABLES
    run,       \* graph_runs: status and control epoch
    node,      \* node_instances: the status of the LLM node
    other,     \* another instance of the run is active
    attempts,  \* node_attempts of the node, in order
    wakeups,   \* attempt_ready wakeups, pending or claimed, settle_run and a retry timer
    ledger,    \* model_calls and tool_calls with their effects and effect attempts
    ckpt,      \* llm_loop_checkpoints
    wait,      \* the open node_wait of the node, its blockers and its continuation's checkpoint
    exec       \* the executor of each attempt: where it is, its copy of the checkpoint

rows == <<run, node, other, attempts, wakeups, ledger, ckpt, wait>>
vars == <<run, node, other, attempts, wakeups, ledger, ckpt, wait, exec>>

RunStatus == {"running", "waiting", "interrupting", "interrupted", "completed", "failed", "cancelled"}
Terminal == {"completed", "failed", "cancelled"}
Active == {"ready", "running"}
CallStatus == {"absent", "requested", "validated", "awaiting_approval", "prepared", "running",
               "completed", "failed", "denied", "outcome_unknown", "retry_ready",
               "cancelled_before_start", "abandoned_unknown"}
EffectStatus == {"none", "pending", "succeeded", "failed", "outcome_unknown",
                 "cancelled_before_start", "abandoned_unknown"}
TryStatus == {"prepared", "started", "succeeded", "failed", "outcome_unknown",
              "superseded_before_start"}
Resolutions == {"none", "confirm_succeeded", "confirm_failed_retry_safe", "abort_run",
                "run_terminal_abandon", "run_terminal_cancel_before_start"}

(***************************************************************************)
(* The ledger.                                                             *)
(***************************************************************************)
Absent == [status |-> "absent", class |-> "pure", effect |-> "none", tries |-> <<>>]
NewTry(a) == [status |-> "prepared", by |-> a, resolved |-> "none"]
Prepared(class, a) ==
    [status |-> "prepared", class |-> class, effect |-> "pending", tries |-> <<NewTry(a)>>]
NoCount == [no |-> 0, status |-> "absent", trim |-> 0, fits |-> FALSE]
NoCheckpoint ==
    [by |-> 0, count |-> NoCount, model |-> 0, status |-> "absent", calls |-> <<>>,
     answered |-> FALSE, valid |-> FALSE, batch |-> <<>>, filled |-> FALSE,
     repairs |-> 0, repairing |-> FALSE, mark |-> <<>>]
NoWait == [kind |-> "none", blockers |-> {}, ck |-> NoCheckpoint]
Gone == [pc |-> "gone", ck |-> NoCheckpoint, trim |-> 0]

\* UNIQUE(node_instance_id, call_no), (node_instance_id, count_ordinal), (model_call_id, call_index)
IsNew(c) == ledger[c].status = "absent"
LatestTry(c) == Len(ledger[c].tries)
\* The row of a call whose latest effect attempt takes the status t.
Moved(c, status, effect, t) ==
    [ledger[c] EXCEPT !.status = status, !.effect = effect, !.tries[LatestTry(c)].status = t]
Retried(c, a) == [ledger[c] EXCEPT !.status = "prepared", !.tries = Append(@, NewTry(a))]

\* The checkpoint with the call c in the given status.
Marked(ck, c, status) ==
    IF IsModel(c) THEN [ck EXCEPT !.status = status]
    ELSE IF IsCount(c) THEN [ck EXCEPT !.count.status = status]
    ELSE [ck EXCEPT !.batch[c[2]] = status]
StatusIn(ck, c) ==
    IF IsModel(c) THEN IF c[1] = ck.model THEN ck.status ELSE "absent"
    ELSE IF IsCount(c) THEN IF c[2] = ck.count.no THEN ck.count.status ELSE "absent"
    ELSE IF c[1] = ck.model /\ c[2] \in DOMAIN ck.batch THEN ck.batch[c[2]] ELSE "absent"
\* effect_watermark: the effect attempt of the last transition
WatermarkFirst(c) == Append(c, 1)                     \* mutant: a repeated call counts as the first
Watermark(c) == Append(c, LatestTry(c))

Places(ck, status) == {i \in DOMAIN ck.batch : ck.batch[i] = status}
Tool(ck, i) == <<ck.model, i>>
ClassOf(ck, i) == ck.calls[i].class
\* the retry policies of the three kinds of calls
TriesOf(c) ==
    IF IsCount(c) THEN 3
    ELSE IF IsTool(c) THEN MaxTries
    ELSE IF ledger[c].class = "non_idempotent" THEN 1 ELSE 2
Settled == {"completed", "failed", "denied"}
Over == Settled \cup {"cancelled_before_start", "abandoned_unknown"}

(***************************************************************************)
(* Attempts and their fences.                                              *)
(***************************************************************************)
Current == Len(attempts)
Queued == [status |-> "queued", epoch |-> run.epoch]
WithStatus(a, status) == [attempts EXCEPT ![a].status = status]
Held(a) == a \in DOMAIN attempts /\ attempts[a].status = "running"
IsHeld == \E a \in DOMAIN attempts : attempts[a].status = "running"
IsOwnerLate(a) == a \in DOMAIN attempts               \* mutant: any attempt that ever was
\* validate_node_attempt_fence, validate_active_fence, validate_tool_fence
IsOwner(a) ==
    /\ a \in DOMAIN attempts
    /\ attempts[a].status = "running" /\ attempts[a].epoch = run.epoch
    /\ run.status = "running"

\* The two fences of a result: the run is running, or drains and the attempt is of
\* the epoch before the interrupt.
Accepts(a) ==
    \/ IsOwner(a)
    \/ /\ a \in DOMAIN attempts /\ attempts[a].status = "running"
       /\ run.status = "interrupting" /\ attempts[a].epoch = run.epoch - 1

At(a, pcs) == exec[a].pc \in pcs
Local(a) == exec[a].ck
Step(a, pc, ck) == exec' = [exec EXCEPT ![a].pc = pc, ![a].ck = ck]
Leave(a) == exec' = [exec EXCEPT ![a] = Gone]
\* The executor stores its checkpoint, over the one there is.
Saves(a, pc, ck) == ckpt' = ck /\ Step(a, pc, ck)

\* finish_interrupt_if_drained: the last held attempt of a draining run is over
Drained == IF run.status = "interrupting" /\ ~other
             THEN [run EXCEPT !.status = "interrupted"] ELSE run
Restarted == IF run.status = "waiting" THEN [run EXCEPT !.status = "running"] ELSE run
\* The run rests when nothing of it is active and none of these wakeups is left.
Idled(left) ==
    IF run.status = "running" /\ ~other /\ left = {} THEN [run EXCEPT !.status = "waiting"] ELSE run

(***************************************************************************)
(* The end of a run: fence_run_effects, then every row of the run closes.  *)
(***************************************************************************)
Unresolved(c) ==
    {t \in DOMAIN ledger[c].tries :
       ledger[c].tries[t].status \in {"started", "outcome_unknown"} /\ ledger[c].tries[t].resolved = "none"}
Abandoned(c) ==
    LET last == Max(Unresolved(c))
    IN  [ledger[c] EXCEPT !.status = "abandoned_unknown", !.effect = "abandoned_unknown",
                          !.tries[last].status = "outcome_unknown",
                          !.tries[last].resolved = "run_terminal_abandon"]
Withdrawn(c) ==
    [ledger[c] EXCEPT
       !.status = "cancelled_before_start", !.effect = "cancelled_before_start",
       !.tries = [t \in DOMAIN @ |->
                    IF @[t].status = "prepared"
                      THEN [@[t] EXCEPT !.status = "superseded_before_start",
                                        !.resolved = "run_terminal_cancel_before_start"]
                      ELSE @[t]]]
Unfinished == {c \in Calls : ledger[c].effect \in {"pending", "outcome_unknown"}}
Unmaterialized == {c \in Calls : ledger[c].effect = "none"
                                 /\ ledger[c].status \in {"validated", "awaiting_approval"}}
Fenced(c) ==
    IF c \in Unfinished THEN IF Unresolved(c) # {} THEN Abandoned(c) ELSE Withdrawn(c)
    ELSE IF c \in Unmaterialized THEN [ledger[c] EXCEPT !.status = "cancelled_before_start"]
    ELSE ledger[c]
\* update_owner_and_checkpoint finds the call of an unfinished effect in the checkpoint
InCheckpoint(c) == StatusIn(ckpt, c) # "absent"
Fenceable == \A c \in Unfinished \cup Unmaterialized : InCheckpoint(c)
FencedStatus(c, status) ==
    IF c \in Unfinished \cup Unmaterialized THEN Fenced(c).status ELSE status
FencedCheckpoint ==
    [ckpt EXCEPT
       !.count.status = IF ckpt.count.no = 0 THEN @ ELSE FencedStatus(<<0, ckpt.count.no>>, @),
       !.status = IF ckpt.model = 0 THEN @ ELSE FencedStatus(<<ckpt.model>>, @),
       !.batch = [i \in DOMAIN @ |-> FencedStatus(Tool(ckpt, i), @[i])]]

\* fail_run, apply_cancel and abort_run
EndsAs(status, A, n) ==
    /\ Fenceable
    /\ run' = [status |-> status, epoch |-> run.epoch + 1]
    /\ ledger' = [c \in Calls |-> Fenced(c)]
    /\ ckpt' = FencedCheckpoint
    /\ attempts' = [a \in DOMAIN A |->
                      IF A[a].status \in {"queued", "running", "waiting"}
                        THEN [A[a] EXCEPT !.status = "cancelled"] ELSE A[a]]
    /\ node' = IF n \in Active \cup {"waiting"} THEN "cancelled" ELSE n
    /\ other' = FALSE /\ wakeups' = {} /\ wait' = NoWait
EndRun(status) == EndsAs(status, attempts, node)

(***************************************************************************)
(* Initial state: the node was activated, its first attempt is queued.     *)
(***************************************************************************)
Init ==
    /\ run = [status |-> "running", epoch |-> 0]
    /\ node = "ready" /\ other = ~Alone
    /\ attempts = <<[status |-> "queued", epoch |-> 0]>>
    /\ wakeups = {"ready"}
    /\ ledger = [c \in Calls |-> Absent]
    /\ ckpt = NoCheckpoint /\ wait = NoWait
    /\ exec = [a \in Attempts |-> Gone]

(***************************************************************************)
(* The executor of an attempt: claim and resume.                           *)
(***************************************************************************)
\* claim_next_work, mark_attempt_running, execute_llm_attempt
Begin ==
    LET a == Current IN
    /\ run.status = "running" /\ "ready" \in wakeups
    /\ attempts[a].status = "queued"
    /\ attempts' = [attempts EXCEPT ![a] = [status |-> "running", epoch |-> run.epoch]]
    /\ node' = "running" /\ wakeups' = (wakeups \ {"ready"}) \cup {"claimed"}
    /\ Step(a, "resume", NoCheckpoint)
    /\ UNCHANGED <<run, other, ledger, ckpt, wait>>

\* load_prepared_calls joins the effect attempts of this attempt, load_retry_ready_calls
\* the rows; each must find as many as the checkpoint names.
PreparedBy(a, m) ==
    {i \in 1 .. MaxBatch :
       /\ ledger[<<m, i>>].status = "prepared"
       /\ \E t \in DOMAIN ledger[<<m, i>>].tries : ledger[<<m, i>>].tries[t].by = a}
RetryRows(m) == {i \in 1 .. MaxBatch : ledger[<<m, i>>].status = "retry_ready"}
Loadable(a) ==
    /\ Places(ckpt, "prepared") # {} =>
         Cardinality(PreparedBy(a, ckpt.model)) = Cardinality(Places(ckpt, "prepared"))
    /\ Places(ckpt, "retry_ready") # {} =>
         Cardinality(RetryRows(ckpt.model)) = Cardinality(Places(ckpt, "retry_ready"))
\* count_calls_used > model_calls_used stands for "the first request is being counted"
Counting(ck) == ck.count.no > ck.model

Resumes(a) == At(a, {"resume"}) /\ IsOwner(a) /\ Loadable(a)
Fresh == ckpt.by = 0

ResumeFresh(a) ==
    /\ Resumes(a) /\ Fresh
    /\ Step(a, "count", ckpt) /\ UNCHANGED rows

\* resume_active_count; it refuses a checkpoint whose model call or tools are not over
ResumeCount(a) ==
    /\ Resumes(a) /\ Counting(ckpt)
    /\ ckpt.batch = <<>> /\ ~ckpt.repairing /\ ckpt.status # "retry_ready"
    /\ ckpt.count.status \in {"completed", "retry_ready"}
    /\ Step(a, IF ckpt.model = 0 THEN "count" ELSE "call", ckpt) /\ UNCHANGED rows

ResumeModel(a) ==
    /\ Resumes(a) /\ ~Counting(ckpt)
    /\ ckpt.status = "retry_ready"
    /\ Step(a, "again", ckpt) /\ UNCHANGED rows

\* reconstruct_completed_model_call: the response is the end of the transcript
ResumeCompleted(a) ==
    /\ Resumes(a) /\ ~Counting(ckpt)
    /\ ckpt.status = "completed" /\ ckpt.batch = <<>> /\ ~ckpt.repairing /\ ckpt.answered
    /\ Step(a, "plan", ckpt) /\ UNCHANGED rows

ResumeRepair(a) ==
    /\ Resumes(a) /\ ~Counting(ckpt)
    /\ ckpt.status = "completed" /\ ckpt.repairing
    /\ Step(a, "call", ckpt) /\ UNCHANGED rows

ResumeTools(a) ==
    /\ Resumes(a) /\ ~Counting(ckpt)
    /\ ckpt.status = "completed" /\ ckpt.batch # <<>>
    /\ Step(a, "redispatch", ckpt) /\ UNCHANGED rows

\* llm_model_resume_state_invalid, llm_completed_resume_invalid, llm_count_resume_state_invalid
Irresumable ==
    IF Counting(ckpt) THEN ckpt.count.status \notin {"completed", "retry_ready"}
    ELSE \/ ckpt.status \notin {"retry_ready", "completed"}
         \/ ckpt.status = "completed" /\ ckpt.batch = <<>> /\ ~ckpt.repairing /\ ~ckpt.answered
ResumeInvalid(a) ==
    /\ Resumes(a) /\ ~Fresh /\ Irresumable
    /\ Step(a, "fail", ckpt) /\ UNCHANGED rows

\* The executor ends: its process dies, its lapsed lease is noticed, or the ledger refuses
\* its next transaction.  The attempt stays held until its lease is recovered.
Quit(a) == exec[a].pc # "gone" /\ Leave(a) /\ UNCHANGED rows

(***************************************************************************)
(* Counting the tokens of the first request: count_request, execute_count. *)
(***************************************************************************)
Counts == {k \in 1 .. MaxCounts : ledger[<<0, k>>].status # "absent"}
CountOf(ck) == <<0, ck.count.no>>
\* reusable_completed_count: the same candidate was counted
Reusable(a) == /\ Local(a).count.status = "completed"
               /\ Local(a).count.trim = exec[a].trim
AfterCount(ck) ==
    IF ck.count.fits THEN "call" ELSE IF ck.count.no >= MaxCounts THEN "fail" ELSE "trim"

\* prepare_count_call: the attempt is looked up but not fenced
PrepareCount(a) ==
    LET k == Local(a).count.no + 1
        ck == [Local(a) EXCEPT !.by = a, !.mark = <<0, k, 1>>,
                 !.count = [no |-> k, status |-> "prepared", trim |-> exec[a].trim, fits |-> FALSE]]
    IN  /\ At(a, {"count"}) /\ ~Reusable(a) /\ Local(a).count.status # "retry_ready"
        /\ k = Cardinality(Counts) + 1 /\ k <= MaxCounts /\ IsNew(<<0, k>>)
        /\ ledger' = [ledger EXCEPT ![<<0, k>>] = Prepared("pure", a)]
        /\ Saves(a, "counting", ck)
        /\ UNCHANGED <<run, node, other, attempts, wakeups, wait>>

\* prepare_count_call_retry
RetryCount(a) ==
    LET c == CountOf(Local(a)) IN
    /\ At(a, {"count"}) /\ Local(a).count.status = "retry_ready"
    /\ Local(a).count.trim = exec[a].trim
    /\ IsOwner(a) /\ ledger[c].status = "retry_ready" /\ LatestTry(c) < TriesOf(c)
    /\ ledger' = [ledger EXCEPT ![c] = Retried(c, a)]
    /\ Saves(a, "counting", [Marked(Local(a), c, "prepared")
                               EXCEPT !.by = a, !.mark = Append(c, LatestTry(c) + 1)])
    /\ UNCHANGED <<run, node, other, attempts, wakeups, wait>>

ReuseCount(a) ==
    /\ At(a, {"count"}) /\ Reusable(a)
    /\ Step(a, AfterCount(Local(a)), Local(a)) /\ UNCHANGED rows

\* start_count_call, only when the provider counts
StartCount(a) ==
    LET c == CountOf(Local(a)) IN
    /\ At(a, {"counting"}) /\ ProviderCounts
    /\ IsOwner(a) /\ ledger[c].status = "prepared"
    /\ ledger' = [ledger EXCEPT ![c] = Moved(c, "running", "pending", "started")]
    /\ Saves(a, "counted", Marked(Local(a), c, "running"))
    /\ UNCHANGED <<run, node, other, attempts, wakeups, wait>>

\* finish_count_call; a count that failed is replaced by an estimate
FinishCount(a, fits) ==
    LET c == CountOf(Local(a))
        ck == [Marked(Local(a), c, "completed") EXCEPT !.count.fits = fits]
    IN  /\ IF ProviderCounts THEN At(a, {"counted"}) ELSE At(a, {"counting"})
        /\ IsOwner(a)
        /\ ledger[c].status = IF ProviderCounts THEN "running" ELSE "prepared"
        /\ ledger' = [ledger EXCEPT ![c] = Moved(c, "completed", "succeeded", "succeeded")]
        /\ Saves(a, AfterCount(ck), ck)
        /\ UNCHANGED <<run, node, other, attempts, wakeups, wait>>

\* ModelCallResult::Reassemble: the context is trimmed by the overage
Reassemble(a, ok) ==
    /\ At(a, {"trim"})
    /\ exec' = [exec EXCEPT ![a].pc = IF ok THEN "count" ELSE "fail", ![a].trim = @ + 1]
    /\ UNCHANGED rows

(***************************************************************************)
(* A model call: run_model_call, retry_model_call,                         *)
(* execute_prepared_model_call.                                            *)
(***************************************************************************)
ModelOf(ck) == <<ck.model>>
Untouched == UNCHANGED <<run, node, other, attempts, wakeups, wait>>
ModelRows == {m \in Models : ledger[<<m>>].status # "absent"}

\* prepare_model_call; the executor does not look at the limit before it asks
PrepareModel(a) ==
    LET m == Local(a).model + 1
        ck == [Local(a) EXCEPT !.by = a, !.model = m, !.status = "prepared", !.mark = <<m, 1>>,
                 !.calls = <<>>, !.answered = FALSE, !.valid = FALSE, !.batch = <<>>,
                 !.filled = FALSE, !.repairing = FALSE]
    IN  /\ At(a, {"call"}) /\ IsOwner(a)
        /\ m = Cardinality(ModelRows) + 1 /\ m <= MaxModelCalls /\ IsNew(<<m>>)
        /\ ledger' = [ledger EXCEPT ![<<m>>] = Prepared(ModelClass, a)]
        /\ Saves(a, "send", ck)
        /\ Untouched

\* prepare_model_call_retry
RetryModel(a) ==
    LET c == ModelOf(Local(a)) IN
    /\ At(a, {"again"}) /\ IsOwner(a)
    /\ ledger[c].status = "retry_ready" /\ ledger[c].effect = "pending"
    /\ ledger[c].class # "non_idempotent" /\ LatestTry(c) < TriesOf(c)
    /\ ledger' = [ledger EXCEPT ![c] = Retried(c, a)]
    /\ Saves(a, "send", [Local(a) EXCEPT !.by = a, !.status = "prepared",
                                         !.mark = Append(c, LatestTry(c) + 1)])
    /\ Untouched

StartModel(a) ==
    LET c == ModelOf(Local(a)) IN
    /\ At(a, {"send"}) /\ IsOwner(a) /\ ledger[c].status = "prepared"
    /\ ledger' = [ledger EXCEPT ![c] = Moved(c, "running", "pending", "started")]
    /\ Saves(a, "receive", [Local(a) EXCEPT !.status = "running"])
    /\ Untouched

\* finish_model_call
Receives(a) == /\ At(a, {"receive"}) /\ IsOwner(a)
               /\ ledger[ModelOf(Local(a))].status = "running"
Finishes(a, c, status, effect) ==
    ledger' = [ledger EXCEPT ![c] = Moved(c, status, effect, effect)]

AnswerModel(a, calls, valid) ==
    /\ Receives(a)
    /\ Finishes(a, ModelOf(Local(a)), "completed", "succeeded")
    /\ Saves(a, "plan", [Local(a) EXCEPT !.status = "completed", !.calls = calls,
                                         !.valid = valid, !.answered = TRUE])
    /\ Untouched

\* normalized_response_rejected: recorded as completed, the transcript is as it was
RejectModel(a) ==
    /\ Receives(a)
    /\ Finishes(a, ModelOf(Local(a)), "completed", "succeeded")
    /\ Saves(a, "fail", [Local(a) EXCEPT !.status = "completed"])
    /\ Untouched

FailModel(a) ==
    /\ Receives(a)
    /\ Finishes(a, ModelOf(Local(a)), "failed", "failed")
    /\ Saves(a, "fail", [Local(a) EXCEPT !.status = "failed"])
    /\ Untouched

\* open_effect_resolution_wait: the attempt ends, the node waits for a person; the run is
\* not looked at.
OpensEffectWait(a, c) ==
    /\ wait' = [kind |-> "effect", blockers |-> {c}, ck |-> NoCheckpoint]
    /\ attempts' = WithStatus(a, "waiting") /\ node' = "waiting"
    /\ wakeups' = wakeups \ {"claimed"}

LoseModel(a) ==
    /\ Receives(a) /\ wait.kind = "none"
    /\ Finishes(a, ModelOf(Local(a)), "outcome_unknown", "outcome_unknown")
    /\ ckpt' = [Local(a) EXCEPT !.status = "outcome_unknown"]
    /\ OpensEffectWait(a, ModelOf(Local(a)))
    /\ Leave(a)
    /\ UNCHANGED <<run, other>>

(***************************************************************************)
(* What the response asks for: plan_initial_tool_batch,                    *)
(* finalize_or_prepare_repair, and the result of the attempt.              *)
(***************************************************************************)
Asked(a) == Local(a).calls
NeedsApproval(calls) == \E i \in DOMAIN calls : calls[i].approval
Batch(calls, status) == [i \in DOMAIN calls |-> status]

AllOf(calls, kind) == calls # <<>> /\ \A i \in DOMAIN calls : calls[i].kind = kind

PlanTools(a) ==
    /\ At(a, {"plan"}) /\ AllOf(Asked(a), "custom") /\ ~NeedsApproval(Asked(a))
    /\ Step(a, "dispatch", [Local(a) EXCEPT !.batch = Batch(Asked(a), "requested")])
    /\ UNCHANGED rows

Rows(m) == {i \in 1 .. MaxBatch : ledger[<<m, i>>].status # "absent"}
\* The rows of a batch that has no effects yet.
WithRows(m, calls, status) ==
    [c \in Calls |-> IF IsTool(c) /\ c[1] = m /\ c[2] \in DOMAIN calls
                       THEN [Absent EXCEPT !.status = status[c[2]], !.class = calls[c[2]].class]
                       ELSE ledger[c]]
\* The attempt ends in a wait; a run with nothing else to do rests.
HandsOver(a) ==
    /\ attempts' = WithStatus(a, "waiting") /\ node' = "waiting" /\ wakeups' = wakeups \ {"claimed"}
    /\ run' = Idled(wakeups' \cap {"ready", "claimed"})
    /\ Leave(a)
    /\ UNCHANGED other

\* prepare_tool_approval_batch, unfenced but for the status of the attempt and the node.
\* transition_owner_to_waiting puts a running run to rest and does not settle a drained one.
PlanApproval(a) ==
    LET calls == Asked(a)
        held == [i \in DOMAIN calls |-> IF calls[i].approval THEN "awaiting_approval" ELSE "validated"]
        m == Local(a).model
    IN  /\ At(a, {"plan"}) /\ AllOf(calls, "custom") /\ NeedsApproval(calls)
        /\ Held(a) /\ node = "running" /\ wait.kind = "none"
        /\ Rows(m) = {}
        /\ ledger' = WithRows(m, calls, held)
        /\ ckpt' = [Local(a) EXCEPT !.by = a, !.batch = held]
        /\ wait' = [kind |-> "approval",
                    blockers |-> {<<m, i>> : i \in {j \in DOMAIN calls : calls[j].approval}},
                    ck |-> ckpt']
        /\ HandsOver(a)

\* prepare_memory_proposal_tool_batch: every call becomes a proposal that is reviewed
PlanProposals(a) ==
    LET calls == Asked(a)
        held == Batch(calls, "awaiting_approval")
        m == Local(a).model
    IN  /\ At(a, {"plan"}) /\ AllOf(calls, "proposal")
        /\ run.status = "running" /\ Held(a) /\ node = "running"
        /\ wait.kind = "none" /\ ledger[<<m>>].status = "completed" /\ Rows(m) = {}
        /\ ledger' = WithRows(m, calls, held)
        /\ ckpt' = [Local(a) EXCEPT !.by = a, !.mark = <<m, Len(calls)>>,
                                    !.batch = held]
        /\ wait' = [kind |-> "memory", blockers |-> {<<m, i>> : i \in DOMAIN calls}, ck |-> ckpt']
        /\ HandsOver(a)

\* execute_memory_search_tool_batch: the searches are made in the transaction, unfenced; a
\* second executor reads what the first one found.
SearchMemory(a) ==
    LET calls == Asked(a)
        found == Batch(calls, "completed")
        m == Local(a).model
        ck == [Local(a) EXCEPT !.by = a, !.mark = <<m, Len(calls)>>, !.batch = found]
    IN  /\ At(a, {"plan"}) /\ AllOf(calls, "search")
        /\ ledger[<<m>>].status = "completed" /\ Rows(m) = {}
        /\ ledger' = WithRows(m, calls, found) /\ Saves(a, "dispatch", ck)
        /\ Untouched

\* replay_memory_search_batch
ReplaySearch(a) ==
    LET m == Local(a).model IN
    /\ At(a, {"plan"}) /\ AllOf(Asked(a), "search") /\ Rows(m) = DOMAIN Asked(a)
    /\ \A i \in Rows(m) : ledger[<<m, i>>].status = "completed"
    /\ Step(a, "dispatch", ckpt) /\ UNCHANGED rows

\* mixed_memory_tool_batch, mixed_memory_capability_batch
PlanRefused(a) ==
    /\ At(a, {"plan"}) /\ Asked(a) # <<>> /\ \A kind \in Kinds : ~AllOf(Asked(a), kind)
    /\ Step(a, "fail", Local(a)) /\ UNCHANGED rows

\* prepare_llm_output_repair wants a checkpoint this attempt wrote at the end of the call
Repair(a) ==
    LET ck == [Local(a) EXCEPT !.repairing = TRUE, !.repairs = @ + 1, !.mark = <<"repair">>]
        c == ModelOf(Local(a))
    IN  /\ At(a, {"plan"}) /\ Asked(a) = <<>> /\ ~Local(a).valid
        /\ Local(a).repairs < MaxRepairs /\ Local(a).model < MaxModelCalls
        /\ IsOwner(a) /\ Local(a).by = a /\ Local(a).mark = Watermark(c)
        /\ Saves(a, "call", ck)
        /\ UNCHANGED <<run, node, other, attempts, wakeups, ledger, wait>>

RepairsSpent(a) ==
    /\ At(a, {"plan"}) /\ Asked(a) = <<>> /\ ~Local(a).valid
    /\ Local(a).repairs >= MaxRepairs \/ Local(a).model >= MaxModelCalls
    /\ Step(a, "fail", Local(a)) /\ UNCHANGED rows

\* finalize_attempt, and the settlement of the run when nothing else is at work
SucceedNode(a) ==
    /\ At(a, {"plan"}) /\ Asked(a) = <<>> /\ Local(a).valid
    /\ Accepts(a)
    /\ attempts' = WithStatus(a, "completed") /\ node' = "completed" /\ wakeups' = {}
    /\ run' = IF run.status = "running" /\ ~other THEN [run EXCEPT !.status = "completed"] ELSE Drained
    /\ Leave(a)
    /\ UNCHANGED <<other, ledger, ckpt, wait>>

FailNode(a) ==
    /\ At(a, {"fail"}) /\ Accepts(a)
    /\ EndsAs("failed", WithStatus(a, "failed"), "failed")
    /\ Leave(a)

(***************************************************************************)
(* The tools of a batch, one after the other: dispatch_tool_batch for a    *)
(* new batch, prepare_tool_retries and dispatch_resumed_tool_batch for one *)
(* that is resumed, which passes over the calls still 'requested'.         *)
(***************************************************************************)
NextOf(a, status) == Min(Places(Local(a), status))

\* prepare_tool_call looks at the model call and at the index, at no fence
PrepareTool(a) ==
    LET i == NextOf(a, "requested")
        c == Tool(Local(a), i)
        ck == [Local(a) EXCEPT !.by = a, !.batch[i] = "prepared", !.mark = Append(c, 1)]
    IN  /\ At(a, {"dispatch"})
        /\ Places(Local(a), "prepared") = {} /\ Places(Local(a), "requested") # {}
        /\ ledger[<<c[1]>>].status = "completed" /\ Cardinality(Rows(c[1])) = i - 1 /\ IsNew(c)
        /\ ledger' = [ledger EXCEPT ![c] = Prepared(ClassOf(Local(a), i), a)]
        /\ Saves(a, "dispatch", ck)
        /\ Untouched

\* prepare_tool_call_retry
RetryTool(a) ==
    LET i == NextOf(a, "retry_ready")
        c == Tool(Local(a), i)
    IN  /\ At(a, {"redispatch"}) /\ Places(Local(a), "retry_ready") # {}
        /\ IsOwner(a) /\ ledger[c].status = "retry_ready" /\ ledger[c].effect = "pending"
        /\ LatestTry(c) < TriesOf(c)
        /\ ledger' = [ledger EXCEPT ![c] = Retried(c, a)]
        /\ Saves(a, "redispatch", [Local(a) EXCEPT !.by = a, !.batch[i] = "prepared",
                                                   !.mark = Append(c, LatestTry(c) + 1)])
        /\ Untouched

\* validate_tool_start_policy: what has effects outside runs alone and in order
Serial(c, d) == "non_idempotent" \in {ledger[x].class : x \in {y \in {c, d} : ledger[y].effect # "none"}}
MayStart(c) ==
    \A i \in Rows(c[1]) \ {c[2]} :
       LET d == <<c[1], i>> IN
       /\ ledger[d].status # "outcome_unknown"
       /\ Serial(c, d) => ledger[d].status # "running" /\ (i < c[2] => ledger[d].status \in Over)

StartTool(a) ==
    LET i == NextOf(a, "prepared")
        c == Tool(Local(a), i)
        ck == [Local(a) EXCEPT !.batch[i] = "running", !.mark = Watermark(c)]
    IN  /\ At(a, {"dispatch", "redispatch"}) /\ Places(Local(a), "prepared") # {}
        /\ At(a, {"redispatch"}) => Places(Local(a), "retry_ready") = {}
        /\ IsOwner(a) /\ Local(a).by = a
        /\ ledger[c].status = "prepared" /\ ledger[c].tries[LatestTry(c)].by = a
        /\ MayStart(c)
        /\ ledger' = [ledger EXCEPT ![c] = Moved(c, "running", "pending", "started")]
        /\ Saves(a, IF At(a, {"dispatch"}) THEN "tool" ELSE "retool", ck)
        /\ Untouched

\* finish_tool_call
\* The call in hand is the one whose start was the last transition of the checkpoint.
Running(a) == <<Local(a).mark[1], Local(a).mark[2]>>
Returns(a) == /\ At(a, {"tool", "retool"}) /\ IsOwner(a)
              /\ ledger[Running(a)].status = "running"
AfterTool(a) == IF At(a, {"tool"}) THEN "dispatch" ELSE "redispatch"

CompleteTool(a) ==
    /\ Returns(a)
    /\ Finishes(a, Running(a), "completed", "succeeded")
    /\ Saves(a, AfterTool(a), Marked(Local(a), Running(a), "completed"))
    /\ Untouched

\* An error, an invalid result or a timeout, whatever the class of the tool; the policy
\* of the grant may fail the node for it.
FailTool(a, fatal) ==
    /\ Returns(a)
    /\ Finishes(a, Running(a), "failed", "failed")
    /\ Saves(a, IF fatal THEN "fail" ELSE AfterTool(a), Marked(Local(a), Running(a), "failed"))
    /\ Untouched

\* The executor does not know; only a call that is not idempotent may be left so.
LoseTool(a) ==
    LET c == Running(a) IN
    /\ Returns(a) /\ ledger[c].class = "non_idempotent" /\ wait.kind = "none"
    /\ Finishes(a, c, "outcome_unknown", "outcome_unknown")
    /\ ckpt' = Marked(Local(a), c, "outcome_unknown")
    /\ OpensEffectWait(a, c)
    /\ Leave(a)
    /\ UNCHANGED <<run, other>>

\* settle_tool_batch: every row is over, as the checkpoint says, and the transcript still
\* lacks the results.
SettleBatch(a) ==
    LET m == Local(a).model
        ck == [Local(a) EXCEPT !.by = a, !.filled = TRUE, !.mark = <<"batch">>]
    IN  /\ \/ At(a, {"dispatch"}) /\ Places(Local(a), "requested") = {}
           \/ At(a, {"redispatch"}) /\ Places(Local(a), "retry_ready") = {}
        /\ Places(Local(a), "prepared") = {}
        /\ IsOwner(a) /\ Local(a) = ckpt /\ ~ckpt.filled
        /\ Rows(m) = DOMAIN ckpt.batch
        /\ \A i \in DOMAIN ckpt.batch : ledger[<<m, i>>].status \in Settled
                                        /\ ledger[<<m, i>>].status = ckpt.batch[i]
        /\ Saves(a, "call", ck)
        /\ UNCHANGED <<run, node, other, attempts, wakeups, ledger, wait>>

(***************************************************************************)
(* Leases, deadlines and retries.                                          *)
(***************************************************************************)
Lapse(a) == exec' = IF LateExecutors THEN exec ELSE [exec EXCEPT ![a] = Gone]
LapseAll == exec' = IF LateExecutors THEN exec ELSE [a \in Attempts |-> Gone]
LastTry(c) == ledger[c].tries[LatestTry(c)]
TriedBy(a, status) ==
    {c \in Calls : LatestTry(c) > 0 /\ LastTry(c).by = a /\ LastTry(c).status = status}
StartedIgnored(a) == {}                               \* mutant: recovery sees the prepared only
Started(a) == TriedBy(a, "started")
Pending(a) == TriedBy(a, "prepared")
\* A started call that may not be repeated without asking a person
CoordinatedNever(c) == FALSE                          \* mutant: every started call is repeated
Coordinated(c) == ledger[c].class = "non_idempotent" /\ ~IsCount(c)
\* recover_started_effects finds the started call in the checkpoint, at its watermark
StartedFits(a) ==
    \A c \in Started(a) : StatusIn(ckpt, c) = "running" /\ ckpt.mark = Watermark(c)
\* supersede_prepared_effect_attempts wants the checkpoint of the attempt it recovers
PendingFits(a) ==
    Pending(a) # {} => /\ ckpt.by = a
                       /\ \A c \in Pending(a) : StatusIn(ckpt, c) = "prepared"
Reopened(c) ==
    IF LastTry(c).status = "started" THEN Moved(c, "retry_ready", "pending", "outcome_unknown")
    ELSE Moved(c, "retry_ready", "pending", "superseded_before_start")
ReopenedIn(ck, S) ==
    [ck EXCEPT !.count.status = IF <<0, ck.count.no>> \in S THEN "retry_ready" ELSE @,
               !.status = IF <<ck.model>> \in S THEN "retry_ready" ELSE @,
               !.batch = [i \in DOMAIN @ |-> IF Tool(ck, i) \in S THEN "retry_ready" ELSE @[i]]]
Expired(a) == Held(a) /\ run.status \in {"running", "interrupting"}

\* recover_expired_leases of the last attempt there may be
RecoverExhausted(a) ==
    /\ Expired(a) /\ a >= MaxAttempts
    /\ EndRun("failed") /\ LapseAll

\* A call that may have happened and may not be repeated: the node waits for a person.
\* What the attempt has prepared beside it stays as it is.
RecoverUnknown(a, c) ==
    /\ Expired(a) /\ a < MaxAttempts
    /\ c \in Started(a) /\ Coordinated(c) /\ StartedFits(a)
    /\ ledger' = [ledger EXCEPT ![c] = Moved(c, "outcome_unknown", "outcome_unknown", "outcome_unknown")]
    /\ ckpt' = Marked(ckpt, c, "outcome_unknown")
    /\ OpensEffectWait(a, c)
    /\ run' = Drained /\ Lapse(a) /\ UNCHANGED other

\* Whatever else was started is repeated, whatever was only prepared is prepared again.
RecoverLease(a) ==
    LET S == Started(a) \cup Pending(a) IN
    /\ Expired(a) /\ a < MaxAttempts
    /\ \A c \in Started(a) : ~Coordinated(c)
    /\ StartedFits(a) /\ PendingFits(a)
    /\ ledger' = [c \in Calls |-> IF c \in S THEN Reopened(c) ELSE ledger[c]]
    /\ ckpt' = ReopenedIn(ckpt, S)
    /\ attempts' = Append(WithStatus(a, "failed"), Queued)
    /\ node' = "ready" /\ wakeups' = (wakeups \ {"claimed"}) \cup {"ready"}
    /\ run' = Drained /\ Lapse(a) /\ UNCHANGED <<other, wait>>

\* fire_attempt_deadline: the calls of the attempt are left as they are
TimedOut(a) == WithStatus(a, "timed_out")
TimeOutAndRetry(a) ==
    /\ Expired(a) /\ RetryTimeouts /\ a < MaxAttempts
    /\ attempts' = TimedOut(a) /\ node' = "waiting"
    /\ wakeups' = (wakeups \ {"claimed"}) \cup {"retry"}
    /\ run' = IF run.status = "running" THEN Idled(wakeups \ {"claimed"}) ELSE Drained
    /\ Lapse(a) /\ UNCHANGED <<other, ledger, ckpt, wait>>

TimeOutAndFail(a) ==
    /\ Expired(a) /\ ~(RetryTimeouts /\ a < MaxAttempts)
    /\ EndsAs("failed", TimedOut(a), "failed") /\ LapseAll

\* A new attempt takes the node up.
Requeued == /\ attempts' = Append(attempts, Queued) /\ node' = "ready"
FireRetry ==
    /\ "retry" \in wakeups /\ run.status \in {"running", "waiting"} /\ node = "waiting"
    /\ Requeued /\ run' = Restarted
    /\ wakeups' = (wakeups \ {"retry"}) \cup {"ready"}
    /\ UNCHANGED <<other, ledger, ckpt, wait, exec>>

(***************************************************************************)
(* The run around the node: controls, settlement, the other nodes.         *)
(***************************************************************************)
Interrupt ==
    /\ run.status \in {"running", "waiting"} /\ run.epoch < MaxEpoch
    /\ run' = [status |-> IF IsHeld \/ other THEN "interrupting" ELSE "interrupted",
               epoch |-> run.epoch + 1]
    /\ UNCHANGED <<node, other, attempts, wakeups, ledger, ckpt, wait, exec>>

Resume ==
    /\ run.status = "interrupted" /\ run.epoch < MaxEpoch
    /\ run' = [status |-> "running", epoch |-> run.epoch + 1]
    /\ wakeups' = wakeups \cup {"settle"}
                    \cup (IF attempts[Current].status = "queued" THEN {"ready"} ELSE {})
    /\ UNCHANGED <<node, other, attempts, ledger, ckpt, wait, exec>>

Cancel ==
    /\ run.status \notin Terminal /\ run.epoch < MaxEpoch
    /\ EndRun("cancelled") /\ LapseAll

\* settle_run
Settle ==
    /\ run.status = "running" /\ "settle" \in wakeups
    /\ wakeups' = wakeups \ {"settle"}
    /\ run' = IF node = "waiting" THEN Idled(wakeups \cap {"ready", "claimed"})
              ELSE IF node = "completed" /\ ~other THEN [run EXCEPT !.status = "completed"] ELSE run
    /\ UNCHANGED <<node, other, attempts, ledger, ckpt, wait, exec>>

\* the rest of the run is over, and settles it
OthersFinish ==
    /\ other /\ run.status \in {"running", "interrupting"}
    /\ other' = FALSE
    /\ run' = IF run.status = "interrupting"
                THEN IF IsHeld THEN run ELSE [run EXCEPT !.status = "interrupted"]
              ELSE IF node = "waiting" THEN [run EXCEPT !.status = "waiting"]
              ELSE IF node = "completed" THEN [run EXCEPT !.status = "completed"] ELSE run
    /\ UNCHANGED <<node, attempts, wakeups, ledger, ckpt, wait, exec>>

(***************************************************************************)
(* What people decide: approvals of tools and the outcome of a call nobody *)
(* knows.                                                                  *)
(***************************************************************************)
Rejectable == Places(ckpt, "awaiting_approval")
Batched(c) == IsTool(c) /\ c[1] = ckpt.model /\ c[2] \in DOMAIN ckpt.batch
\* A rejection that the policy of its grant answers by failing the node
FailsNode(rejected) == \E i \in rejected : ckpt.calls[i].fails
\* load_current_checkpoint, deny_call, prepare_effect, cancel_unstarted_call: the checkpoint
\* is the one the wait was opened with, and none of its calls has been touched since.
Untried(status) == ckpt = wait.ck /\ \A c \in Calls : Batched(c) => ledger[c].status \in status
Answerable ==
    /\ wait.kind = "approval" /\ node = "waiting" /\ run.status \notin Terminal
    /\ Untried({"validated", "awaiting_approval"})
MayRequeue == Len(attempts) < MaxAttempts

\* The wait is resolved and a new attempt queued; a draining run gets its wakeup on resume.
Delivered ==
    /\ Requeued /\ wait' = NoWait /\ run' = Restarted
    /\ wakeups' = IF run.status \in {"running", "waiting"} THEN wakeups \cup {"ready"} ELSE wakeups
    /\ UNCHANGED <<other, exec>>

\* settle_executable_batch: one new attempt gets all that was not rejected, prepared
Approve(rejected) ==
    LET a == Current + 1
        kept == DOMAIN ckpt.batch \ rejected
    IN  /\ Answerable /\ ~FailsNode(rejected) /\ MayRequeue
        /\ ledger' = [c \in Calls |->
                        IF ~Batched(c) THEN ledger[c]
                        ELSE IF c[2] \in rejected THEN [ledger[c] EXCEPT !.status = "denied"]
                        ELSE Prepared(ledger[c].class, a)]
        /\ ckpt' = [ckpt EXCEPT !.by = a,
                      !.batch = [i \in DOMAIN @ |-> IF i \in rejected THEN "denied" ELSE "prepared"],
                      !.mark = IF kept = {} THEN <<"delivery">> ELSE <<ckpt.model, Max(kept), 1>>]
        /\ Delivered

\* settle_memory_proposal_response: the decisions are the results of the calls, whichever
\* they are
DecideProposals ==
    /\ wait.kind = "memory" /\ node = "waiting" /\ run.status \notin Terminal /\ MayRequeue
    /\ Untried({"awaiting_approval"})
    /\ ledger' = [c \in Calls |->
                    IF Batched(c) THEN [ledger[c] EXCEPT !.status = "completed"] ELSE ledger[c]]
    /\ ckpt' = [ckpt EXCEPT !.by = Current + 1, !.mark = <<"delivery">>,
                            !.batch = [i \in DOMAIN @ |-> "completed"]]
    /\ Delivered

\* settle_failed_batch, then fail_run
Reject(rejected) ==
    LET status(i) == IF i \in rejected THEN "denied" ELSE "cancelled_before_start" IN
    /\ Answerable /\ FailsNode(rejected)
    /\ ledger' = [c \in Calls |-> IF Batched(c) THEN [ledger[c] EXCEPT !.status = status(c[2])] ELSE ledger[c]]
    /\ ckpt' = [ckpt EXCEPT !.batch = [i \in DOMAIN @ |-> status(i)], !.mark = <<"rejected">>]
    /\ run' = [status |-> "failed", epoch |-> run.epoch + 1]
    /\ attempts' = [attempts EXCEPT ![Current].status = "cancelled"]
    /\ node' = "failed" /\ other' = FALSE /\ wakeups' = {} /\ wait' = NoWait /\ LapseAll

\* wait_deadline: an approval has on_timeout 'fail'
ExpireApproval ==
    /\ wait.kind = "approval" /\ run.status \notin Terminal
    /\ EndsAs("failed", WithStatus(Current, "timed_out"), "failed") /\ LapseAll

\* resolve_effect_unknown
Unknown == CHOOSE c \in wait.blockers : TRUE
\* load_resolution_context, update_checkpoint: call, effect, try and checkpoint agree that the
\* outcome is unknown, and nobody resolved this try before.
Resolvable ==
    /\ wait.kind = "effect" /\ run.status \notin Terminal
    /\ ledger[Unknown].status = "outcome_unknown" /\ ledger[Unknown].effect = "outcome_unknown"
    /\ LastTry(Unknown).status = "outcome_unknown" /\ LastTry(Unknown).resolved = "none"
    /\ StatusIn(ckpt, Unknown) = "outcome_unknown"
Resolved(status, effect, resolution) ==
    [ledger[Unknown] EXCEPT !.status = status, !.effect = effect,
                            !.tries[LatestTry(Unknown)].resolved = resolution]
\* resume_instance: only a running run gets the wakeup
GoesOnSilently ==                                     \* mutant: nobody is told of the attempt
    /\ MayRequeue /\ Requeued /\ wait' = NoWait
    /\ UNCHANGED <<run, other, wakeups, exec>>
GoesOn ==
    /\ MayRequeue /\ Requeued /\ wait' = NoWait
    /\ wakeups' = IF run.status = "running" THEN wakeups \cup {"ready"} ELSE wakeups
    /\ UNCHANGED <<run, other, exec>>

ConfirmSucceeded ==
    /\ Resolvable
    /\ ledger' = [ledger EXCEPT ![Unknown] = Resolved("completed", "succeeded", "confirm_succeeded")]
    /\ ckpt' = Marked(ckpt, Unknown, "completed")
    /\ GoesOn

ConfirmFailed ==
    /\ Resolvable /\ LatestTry(Unknown) < TriesOf(Unknown)
    /\ ledger' = [ledger EXCEPT ![Unknown] = Resolved("retry_ready", "pending", "confirm_failed_retry_safe")]
    /\ ckpt' = Marked(ckpt, Unknown, "retry_ready")
    /\ GoesOn

\* The other calls of the run are fenced after this one was given up.
AbortRun ==
    LET given == Resolved("abandoned_unknown", "abandoned_unknown", "abort_run") IN
    /\ Resolvable
    /\ run' = [status |-> "cancelled", epoch |-> run.epoch + 1]
    /\ ledger' = [c \in Calls |-> IF c = Unknown THEN given ELSE Fenced(c)]
    /\ ckpt' = Marked(FencedCheckpoint, Unknown, "abandoned_unknown")
    /\ attempts' = [a \in DOMAIN attempts |->
                      IF attempts[a].status \in {"queued", "running", "waiting"}
                        THEN [attempts[a] EXCEPT !.status = "cancelled"] ELSE attempts[a]]
    /\ node' = "cancelled" /\ other' = FALSE /\ wakeups' = {} /\ wait' = NoWait /\ LapseAll

(***************************************************************************)
(* The specification.                                                      *)
(***************************************************************************)
ResumeStep(a) ==
    \/ ResumeFresh(a) \/ ResumeCount(a) \/ ResumeModel(a) \/ ResumeCompleted(a)
    \/ ResumeRepair(a) \/ ResumeTools(a) \/ ResumeInvalid(a)
CountStep(a) ==
    \/ PrepareCount(a) \/ RetryCount(a) \/ ReuseCount(a) \/ StartCount(a)
    \/ \E fits \in BOOLEAN : FinishCount(a, fits)
    \/ \E ok \in BOOLEAN : Reassemble(a, ok)
ModelStep(a) ==
    \/ PrepareModel(a) \/ RetryModel(a) \/ StartModel(a)
    \/ \E calls \in Batches : AnswerModel(a, calls, calls = <<>>)
    \/ MaxRepairs > 0 /\ AnswerModel(a, <<>>, FALSE)
    \/ RejectModel(a) \/ FailModel(a) \/ LoseModel(a)
PlanStep(a) ==
    \/ PlanTools(a) \/ PlanApproval(a) \/ PlanProposals(a) \/ SearchMemory(a) \/ ReplaySearch(a)
    \/ PlanRefused(a)
    \/ Repair(a) \/ RepairsSpent(a)
ToolStep(a) ==
    \/ PrepareTool(a) \/ RetryTool(a) \/ StartTool(a) \/ CompleteTool(a)
    \/ \E fatal \in BOOLEAN : FailTool(a, fatal)
    \/ LoseTool(a) \/ SettleBatch(a)
ExecutorStep(a) ==
    ResumeStep(a) \/ CountStep(a) \/ ModelStep(a) \/ PlanStep(a) \/ ToolStep(a) \/ SucceedNode(a) \/ FailNode(a)
LeaseStep(a) ==
    RecoverExhausted(a) \/ (\E c \in Calls : RecoverUnknown(a, c)) \/ RecoverLease(a)
DeadlineStep(a) == TimeOutAndRetry(a) \/ TimeOutAndFail(a)
PeopleStep ==
    \/ \E rejected \in SUBSET Rejectable : Approve(rejected) \/ Reject(rejected)
    \/ DecideProposals \/ ExpireApproval \/ ConfirmSucceeded \/ ConfirmFailed \/ AbortRun
RunStep == Begin \/ FireRetry \/ Settle \/ OthersFinish
ControlStep == Interrupt \/ Resume \/ Cancel

Next ==
    \/ RunStep \/ ControlStep \/ PeopleStep
    \/ \E a \in Attempts : ExecutorStep(a) \/ Quit(a) \/ LeaseStep(a) \/ DeadlineStep(a)

Spec == Init /\ [][Next]_vars

\* Leases lapse and are recovered, executors go on while they live, due work is claimed.
FairSpec ==
    Spec /\ WF_vars(RunStep)
         /\ \A a \in Attempts : WF_vars(ExecutorStep(a)) /\ WF_vars(LeaseStep(a))

(***************************************************************************)
(* Properties.                                                             *)
(***************************************************************************)
\* The rows have the shape of the schema; a try belongs to an attempt there is.
TypeOK ==
    /\ run.status \in RunStatus /\ run.epoch \in 0 .. MaxEpoch + 1
    /\ node \in Active \cup {"waiting", "completed", "failed", "cancelled"}
    /\ other \in BOOLEAN
    /\ wakeups \subseteq {"ready", "claimed", "settle", "retry"}
    /\ Len(attempts) \in 1 .. MaxAttempts
    /\ wait.kind \in {"none", "approval", "memory", "effect"} /\ wait.blockers \subseteq Calls
    /\ \A c \in Calls :
         /\ ledger[c].status \in CallStatus /\ ledger[c].effect \in EffectStatus
         /\ \A t \in DOMAIN ledger[c].tries :
              /\ ledger[c].tries[t].status \in TryStatus
              /\ ledger[c].tries[t].by \in DOMAIN attempts
              /\ ledger[c].tries[t].resolved \in Resolutions
    /\ ckpt.model \in 0 .. MaxModelCalls /\ ckpt.by \in 0 .. MaxAttempts

\* What was perhaps sent outside
Sent(t) == t.status \in {"started", "succeeded", "failed", "outcome_unknown"}

\* A call with effects outside is sent a second time only after a person said that the
\* first did not happen (recover_started_effects, prepare_*_retry, resolve_effect_unknown).
NoBlindRepeat ==
    \A c \in Calls : (ledger[c].class = "non_idempotent" /\ ~IsCount(c)) =>
       \A t \in 1 .. LatestTry(c) - 1 :
          Sent(ledger[c].tries[t]) => ledger[c].tries[t].resolved = "confirm_failed_retry_safe"

\* The loop checkpoint an attempt resumes from says of every call what its row says.
CheckpointMatchesLedger ==
    \A c \in Calls :
       LET s == StatusIn(ckpt, c) IN
       s # "absent" => ledger[c].status = IF s = "requested" THEN "absent" ELSE s

\* Of a live run every started call is in the hands of an attempt that is held, and every
\* call whose outcome is unknown is one the node waits for.
UnknownIsAwaited ==
    run.status \notin Terminal =>
       \A c \in Calls :
          /\ LatestTry(c) > 0 /\ LastTry(c).status = "started" => Held(LastTry(c).by)
          /\ ledger[c].effect = "outcome_unknown" => wait.kind = "effect" /\ c \in wait.blockers

\* The end of a run leaves nothing to be sent, no call open and nobody asked
\* (fence_run_effects in every transaction that ends one).
TerminalIsFenced ==
    run.status \in Terminal =>
       /\ wait = NoWait /\ wakeups = {} /\ node \notin Active
       /\ \A c \in Calls :
            /\ ledger[c].effect \notin {"pending", "outcome_unknown"}
            /\ ledger[c].status \notin {"validated", "awaiting_approval", "prepared", "running"}

\* The rows of the node and of its calls, the wait and the checkpoint agree at all times.
LedgerIsConsistent == TypeOK /\ CheckpointMatchesLedger /\ UnknownIsAwaited /\ TerminalIsFenced

\* Lease recovery finds what it needs in the checkpoint, and so does the fencing at the
\* end of a run: neither transaction is ever refused.
NeverRefused ==
    /\ run.status \notin Terminal => Fenceable
    /\ \A a \in Attempts :
         Expired(a) => StartedFits(a) /\ ((\A c \in Started(a) : ~Coordinated(c)) => PendingFits(a))

Holds(a) == Held(a) /\ run.status = "running" /\ attempts[a].epoch = run.epoch
\* A call is sent, and its outcome recorded, only for the attempt that holds the node in a
\* running run; what an executor does later leaves no such trace.
OnlyOwnersSend ==
    [][\A c \in Calls :
         LatestTry(c) > 0 /\ ledger'[c].tries # ledger[c].tries =>
           LET was == LastTry(c)
               now == ledger'[c].tries[LatestTry(c)]
           IN  /\ was.status = "prepared" /\ now.status = "started" => Holds(was.by)
               /\ was.status = "started" /\ now.status \in {"succeeded", "failed"} => Holds(was.by)]_vars

\* What was tried stays on record: no step forgets a try, whom it was made for, that it was
\* perhaps sent, or what a person said of it (effect_attempts and effect_resolutions are
\* only ever added to; a call that is prepared again gets a new try).
RecordIsKept ==
    [][\A c \in Calls : \A t \in DOMAIN ledger[c].tries :
         LET was == ledger[c].tries[t]
             now == ledger'[c].tries[t]
         IN  /\ t \in DOMAIN ledger'[c].tries /\ now.by = was.by
             /\ Sent(was) => Sent(now)
             /\ was.resolved # "none" => now.resolved = was.resolved]_vars

\* The loop always comes to rest: the node ends, or somebody is asked.
LoopEnds == []<>(run.status \in Terminal \/ node \notin Active)

\* A batch that a crash interrupted is gone on with: everything it has left can be loaded,
\* sent and put into the transcript.
BatchResumes ==
    \A a \in Attempts :
       At(a, {"resume"}) /\ IsOwner(a) /\ ~Counting(ckpt) /\ ckpt.batch # <<>> =>
         Loadable(a) /\ ~ckpt.filled /\ Places(ckpt, "requested") = {}

\* A node that was made ready has a wakeup that will claim its attempt.
ReadyIsWoken ==
    run.status \in {"running", "waiting"} /\ node = "ready" => "ready" \in wakeups
=============================================================================
